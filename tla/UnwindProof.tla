---------------------------- MODULE UnwindProof ----------------------------
(***************************************************************************)
(* The handlers, frames and cleanups of Unwind.tla always match the C      *)
(* stack, proved for any program and any number of calls, throws, faults   *)
(* and defers.                                                             *)
(*                                                                         *)
(* Shape is inductive.  It adds to NothingDangles where the marks of a     *)
(* handler cut the frames and the cleanups, and that every entry of the C  *)
(* stack has its handler, cleanup or frame; a frame may be missing only    *)
(* below a throw that unwound it, with no handler in between.  The steps   *)
(* of a program push entries on the four stacks or cut all four at one     *)
(* place of the C stack, and each of these is a lemma of its own.  At the  *)
(* end: each defer statement executed is pending or has been run, once.    *)
(***************************************************************************)
EXTENDS Unwind, FiniteSetTheorems, FunctionTheorems, SequenceTheorems, TLAPS

HasHandler == {"try", "tryf", "contain"}
HasFrame   == {"fn", "exit"}
HasCleanup == {"native", "defer"}

Entries  == [kind : Kinds, exc : Excs \cup {None}]
HEntries == [at : Nat, frames : Nat, cleanups : Nat]
FEntries == [at : Nat, defers : Nat]

(* p lists, from the bottom up, places of the C stack of kinds K. *)
Track(cs, K, p) ==
  /\ p \in Seq(Nat)
  /\ \A i, j \in 1 .. Len(p) : i < j => p[i] < p[j]
  /\ \A i \in 1 .. Len(p) : p[i] \in 1 .. Len(cs) /\ cs[p[i]].kind \in K

(* It lists them all. *)
Cover(cs, K, p) ==
  \A k \in 1 .. Len(cs) : cs[k].kind \in K => \E i \in 1 .. Len(p) : p[i] = k

(* A handler at h[i] with mark m[i] keeps those of p that are below it. *)
Split(h, m, p) ==
  \A i \in 1 .. Len(h) :
    m[i] \in 0 .. Len(p) /\ \A j \in 1 .. Len(p) : j <= m[i] <=> p[j] < h[i]

(* The frame at k was unwound by a throw further up that is still going on. *)
Unwound(k, cs, h) ==
  \E t \in 1 .. Len(cs) :
    k < t /\ cs[t].kind = "throw" /\ \A i \in 1 .. Len(h) : h[i] < k \/ h[i] > t

CoverOrUnwound(cs, h, p) ==
  \A k \in 1 .. Len(cs) :
    cs[k].kind \in HasFrame => (\E i \in 1 .. Len(p) : p[i] = k) \/ Unwound(k, cs, h)

(* A throw has a handler further down. *)
Caught(cs, h) ==
  \A t \in 1 .. Len(cs) : cs[t].kind = "throw" => \E i \in 1 .. Len(h) : h[i] < t

(* At the bottom of the C stack there is a function. *)
Based(cs) == Len(cs) > 0 => cs[1].kind \in HasFrame

FrameMarks(hs)   == [i \in 1 .. Len(hs) |-> hs[i].frames]
CleanupMarks(hs) == [i \in 1 .. Len(hs) |-> hs[i].cleanups]

Typed(cs, hs, fs, cl) ==
  cs \in Seq(Entries) /\ hs \in Seq(HEntries) /\ fs \in Seq(FEntries) /\ cl \in Seq(Nat)

Shape(cs, hs, fs, cl) ==
  /\ Typed(cs, hs, fs, cl)
  /\ Track(cs, HasHandler, Ats(hs)) /\ Cover(cs, HasHandler, Ats(hs))
  /\ Track(cs, HasFrame, Ats(fs)) /\ CoverOrUnwound(cs, Ats(hs), Ats(fs))
  /\ Track(cs, HasCleanup, cl) /\ Cover(cs, HasCleanup, cl)
  /\ Split(Ats(hs), FrameMarks(hs), Ats(fs)) /\ Split(Ats(hs), CleanupMarks(hs), cl)
  /\ Caught(cs, Ats(hs)) /\ Based(cs)

-----------------------------------------------------------------------------
(* Sequences. *)
LEMMA Pushed ==
  ASSUME NEW S, NEW s \in Seq(S), NEW e \in S
  PROVE  /\ Append(s, e) \in Seq(S)
         /\ Len(s) \in Nat
         /\ Len(Append(s, e)) = Len(s) + 1
         /\ Append(s, e)[Len(s) + 1] = e
         /\ \A i \in 1 .. Len(s) : Append(s, e)[i] = s[i]
         /\ \A i \in 1 .. Len(s) + 1 : i \in 1 .. Len(s) \/ i = Len(s) + 1
<1>1. Len(s) \in Nat
  BY LenProperties
<1>2. \A i \in 1 .. Len(s) + 1 : i \in 1 .. Len(s) \/ i = Len(s) + 1
  BY <1>1
<1> QED BY <1>1, <1>2, AppendProperties

LEMMA Cut ==
  ASSUME NEW S, NEW s \in Seq(S), NEW n \in 0 .. Len(s)
  PROVE  /\ SubSeq(s, 1, n) \in Seq(S)
         /\ Len(s) \in Nat
         /\ Len(SubSeq(s, 1, n)) = n
         /\ \A i \in 1 .. n : SubSeq(s, 1, n)[i] = s[i]
<1>1. \A i \in 1 .. n : s[i] \in S
  BY ElementOfSeq, LenProperties
<1> QED BY <1>1, SubSeqProperties, LenProperties

-----------------------------------------------------------------------------
(* An entry is pushed: what a list, a cover and marks become. *)
LEMMA TrackOwn ==
  ASSUME NEW cs \in Seq(Entries), NEW K, NEW p, Track(cs, K, p), NEW e \in Entries, e.kind \in K
  PROVE  Track(Append(cs, e), K, Append(p, Len(cs) + 1))
<1> DEFINE ds == Append(cs, e)
           v  == Len(cs) + 1
           q  == Append(p, v)
<1>1. Len(cs) \in Nat /\ v \in Nat /\ v = Len(cs) + 1 /\ p \in Seq(Nat)
  BY LenProperties DEF Track
<1>2. Len(ds) = v /\ ds[v] = e /\ \A i \in 1 .. Len(cs) : ds[i] = cs[i]
  BY Pushed
<1>3. q \in Seq(Nat)
  BY <1>1, Pushed
<1>4. /\ Len(p) \in Nat /\ Len(q) = Len(p) + 1 /\ q[Len(p) + 1] = v
      /\ \A i \in 1 .. Len(p) : q[i] = p[i]
      /\ \A i \in 1 .. Len(p) + 1 : i \in 1 .. Len(p) \/ i = Len(p) + 1
  BY <1>1, Pushed
<1>5. /\ \A i, j \in 1 .. Len(p) : i < j => p[i] < p[j]
      /\ \A i \in 1 .. Len(p) : p[i] \in 1 .. Len(cs) /\ cs[p[i]].kind \in K
  BY DEF Track
<1> HIDE DEF ds, v, q
<1>6. ASSUME NEW i \in 1 .. Len(q), NEW j \in 1 .. Len(q), i < j PROVE q[i] < q[j]
  <2>1. i \in 1 .. Len(p)
    BY <1>4, <1>6
  <2>2. CASE j \in 1 .. Len(p)
    BY <1>4, <1>5, <1>6, <2>1, <2>2
  <2>3. CASE j = Len(p) + 1
    <3>1. q[i] = p[i] /\ p[i] \in 1 .. Len(cs) /\ q[j] = v
      BY <1>4, <1>5, <2>1, <2>3
    <3> QED BY <1>1, <3>1
  <2> QED BY <1>4, <2>2, <2>3
<1>7. ASSUME NEW i \in 1 .. Len(q) PROVE q[i] \in 1 .. Len(ds) /\ ds[q[i]].kind \in K
  <2>1. CASE i \in 1 .. Len(p)
    <3>1. q[i] = p[i] /\ p[i] \in 1 .. Len(cs) /\ cs[p[i]].kind \in K
      BY <1>4, <1>5, <2>1
    <3>2. p[i] \in 1 .. Len(ds) /\ ds[p[i]] = cs[p[i]]
      BY <1>1, <1>2, <3>1
    <3> QED BY <3>1, <3>2
  <2>2. CASE i = Len(p) + 1
    BY <1>1, <1>2, <1>4, <2>2
  <2> QED BY <1>4, <2>1, <2>2
<1> QED BY <1>3, <1>6, <1>7 DEF Track, ds, v, q

LEMMA TrackOther ==
  ASSUME NEW cs \in Seq(Entries), NEW K, NEW p, Track(cs, K, p), NEW e \in Entries
  PROVE  Track(Append(cs, e), K, p)
<1> DEFINE ds == Append(cs, e)
<1>1. Len(cs) \in Nat /\ Len(ds) = Len(cs) + 1 /\ \A i \in 1 .. Len(cs) : ds[i] = cs[i]
  BY Pushed
<1> HIDE DEF ds
<1>2. ASSUME NEW i \in 1 .. Len(p) PROVE p[i] \in 1 .. Len(ds) /\ ds[p[i]].kind \in K
  BY <1>1, <1>2 DEF Track
<1> QED BY <1>2 DEF Track, ds

LEMMA CoverOwn ==
  ASSUME NEW cs \in Seq(Entries), NEW K, NEW p \in Seq(Nat), Cover(cs, K, p), NEW e \in Entries
  PROVE  Cover(Append(cs, e), K, Append(p, Len(cs) + 1))
<1> DEFINE ds == Append(cs, e)
           v  == Len(cs) + 1
           q  == Append(p, v)
<1>1. Len(cs) \in Nat /\ v \in Nat /\ v = Len(cs) + 1
  BY LenProperties
<1>2. /\ Len(ds) = v /\ \A i \in 1 .. Len(cs) : ds[i] = cs[i]
      /\ \A i \in 1 .. v : i \in 1 .. Len(cs) \/ i = v
  BY Pushed
<1>3. /\ Len(p) \in Nat /\ Len(q) = Len(p) + 1 /\ q[Len(p) + 1] = v
      /\ \A i \in 1 .. Len(p) : q[i] = p[i]
  BY <1>1, Pushed
<1> HIDE DEF ds, v, q
<1>4. ASSUME NEW k \in 1 .. Len(ds), ds[k].kind \in K PROVE \E i \in 1 .. Len(q) : q[i] = k
  <2>1. CASE k = v
    <3>1. Len(p) + 1 \in 1 .. Len(q)
      BY <1>3
    <3> QED BY <1>3, <2>1, <3>1
  <2>2. CASE k \in 1 .. Len(cs)
    <3>1. PICK i \in 1 .. Len(p) : p[i] = k
      BY <1>2, <1>4, <2>2 DEF Cover
    <3> QED BY <1>3, <3>1
  <2> QED BY <1>2, <2>1, <2>2
<1> QED BY <1>4 DEF Cover, ds, v, q

LEMMA CoverOther ==
  ASSUME NEW cs \in Seq(Entries), NEW K, NEW p, Cover(cs, K, p), NEW e \in Entries, e.kind \notin K
  PROVE  Cover(Append(cs, e), K, p)
<1> DEFINE ds == Append(cs, e)
<1>1. /\ Len(cs) \in Nat /\ Len(ds) = Len(cs) + 1 /\ \A i \in 1 .. Len(cs) : ds[i] = cs[i]
      /\ ds[Len(cs) + 1] = e /\ \A i \in 1 .. Len(cs) + 1 : i \in 1 .. Len(cs) \/ i = Len(cs) + 1
  BY Pushed
<1> HIDE DEF ds
<1>2. ASSUME NEW k \in 1 .. Len(ds), ds[k].kind \in K PROVE \E i \in 1 .. Len(p) : p[i] = k
  BY <1>1, <1>2 DEF Cover
<1> QED BY <1>2 DEF Cover, ds

(* A handler pushed at the top has everything below it. *)
LEMMA SplitOwn ==
  ASSUME NEW h \in Seq(Nat), NEW m \in Seq(Nat), Len(m) = Len(h), NEW p \in Seq(Nat), Split(h, m, p),
         NEW v \in Nat, \A j \in 1 .. Len(p) : p[j] < v
  PROVE  Split(Append(h, v), Append(m, Len(p)), p)
<1> DEFINE g == Append(h, v)
           w == Len(p)
           n == Append(m, w)
<1>1. /\ Len(h) \in Nat /\ Len(g) = Len(h) + 1 /\ g[Len(h) + 1] = v
      /\ \A i \in 1 .. Len(h) : g[i] = h[i]
      /\ \A i \in 1 .. Len(h) + 1 : i \in 1 .. Len(h) \/ i = Len(h) + 1
  BY Pushed
<1>2. w \in Nat /\ w = Len(p)
  BY LenProperties
<1>3. n[Len(h) + 1] = w /\ \A i \in 1 .. Len(h) : n[i] = m[i]
  BY <1>2, Pushed
<1> HIDE DEF g, w, n
<1>4. ASSUME NEW i \in 1 .. Len(g)
      PROVE  n[i] \in 0 .. Len(p) /\ \A j \in 1 .. Len(p) : j <= n[i] <=> p[j] < g[i]
  <2>1. CASE i \in 1 .. Len(h)
    BY <1>1, <1>3, <2>1 DEF Split
  <2>2. CASE i = Len(h) + 1
    BY <1>1, <1>2, <1>3, <2>2
  <2> QED BY <1>1, <2>1, <2>2
<1> QED BY <1>4 DEF Split, g, w, n

(* A frame or a cleanup pushed at the top is above every handler. *)
LEMMA SplitOther ==
  ASSUME NEW h \in Seq(Nat), NEW m, NEW p \in Seq(Nat), Split(h, m, p),
         NEW v \in Nat, \A i \in 1 .. Len(h) : h[i] < v
  PROVE  Split(h, m, Append(p, v))
<1> DEFINE q == Append(p, v)
<1>1. /\ Len(p) \in Nat /\ Len(q) = Len(p) + 1 /\ q[Len(p) + 1] = v
      /\ \A i \in 1 .. Len(p) : q[i] = p[i]
      /\ \A i \in 1 .. Len(p) + 1 : i \in 1 .. Len(p) \/ i = Len(p) + 1
  BY Pushed
<1>2. \A i \in 1 .. Len(h) : h[i] \in Nat
  BY ElementOfSeq
<1> HIDE DEF q
<1>3. ASSUME NEW i \in 1 .. Len(h)
      PROVE  m[i] \in 0 .. Len(q) /\ \A j \in 1 .. Len(q) : j <= m[i] <=> q[j] < h[i]
  <2>1. m[i] \in 0 .. Len(p) /\ \A j \in 1 .. Len(p) : j <= m[i] <=> p[j] < h[i]
    BY DEF Split
  <2>2. ASSUME NEW j \in 1 .. Len(q) PROVE j <= m[i] <=> q[j] < h[i]
    <3>1. CASE j \in 1 .. Len(p)
      BY <1>1, <2>1, <3>1
    <3>2. CASE j = Len(p) + 1
      BY <1>1, <1>2, <2>1, <3>2
    <3> QED BY <1>1, <3>1, <3>2
  <2> QED BY <1>1, <2>1, <2>2
<1> QED BY <1>3 DEF Split, q

(* What was not unwound stays so, and what has a frame keeps it. *)
LEMMA UnwoundPushed ==
  ASSUME NEW cs \in Seq(Entries), NEW h \in Seq(Nat), NEW k, Unwound(k, cs, h), NEW e \in Entries
  PROVE  Unwound(k, Append(cs, e), h)
<1> DEFINE ds == Append(cs, e)
<1>1. Len(cs) \in Nat /\ Len(ds) = Len(cs) + 1 /\ \A i \in 1 .. Len(cs) : ds[i] = cs[i]
  BY Pushed
<1> HIDE DEF ds
<1>2. PICK t \in 1 .. Len(cs) :
        k < t /\ cs[t].kind = "throw" /\ \A i \in 1 .. Len(h) : h[i] < k \/ h[i] > t
  BY DEF Unwound
<1>3. t \in 1 .. Len(ds) /\ ds[t] = cs[t]
  BY <1>1
<1>4. Unwound(k, ds, h)
  BY <1>2, <1>3 DEF Unwound
<1> QED BY <1>4 DEF ds

LEMMA UnwoundHandlerPushed ==
  ASSUME NEW cs \in Seq(Entries), NEW h \in Seq(Nat), NEW k, Unwound(k, cs, h)
  PROVE  Unwound(k, cs, Append(h, Len(cs) + 1))
<1> DEFINE v == Len(cs) + 1
           g == Append(h, v)
<1>1. Len(cs) \in Nat /\ v \in Nat /\ v = Len(cs) + 1
  BY LenProperties
<1>2. /\ Len(h) \in Nat /\ Len(g) = Len(h) + 1 /\ g[Len(h) + 1] = v
      /\ \A i \in 1 .. Len(h) : g[i] = h[i]
      /\ \A i \in 1 .. Len(h) + 1 : i \in 1 .. Len(h) \/ i = Len(h) + 1
  BY <1>1, Pushed
<1> HIDE DEF v, g
<1>3. PICK t \in 1 .. Len(cs) :
        k < t /\ cs[t].kind = "throw" /\ \A i \in 1 .. Len(h) : h[i] < k \/ h[i] > t
  BY DEF Unwound
<1>4. \A i \in 1 .. Len(g) : g[i] < k \/ g[i] > t
  BY <1>1, <1>2, <1>3
<1>5. Unwound(k, cs, g)
  BY <1>3, <1>4 DEF Unwound
<1> QED BY <1>5 DEF v, g

LEMMA CoverOrUnwoundOther ==
  ASSUME NEW cs \in Seq(Entries), NEW h \in Seq(Nat), NEW p \in Seq(Nat),
         CoverOrUnwound(cs, h, p), NEW e \in Entries, e.kind \notin HasFrame
  PROVE  CoverOrUnwound(Append(cs, e), h, p)
<1> DEFINE ds == Append(cs, e)
<1>1. /\ Len(cs) \in Nat /\ Len(ds) = Len(cs) + 1 /\ \A i \in 1 .. Len(cs) : ds[i] = cs[i]
      /\ ds[Len(cs) + 1] = e /\ \A i \in 1 .. Len(cs) + 1 : i \in 1 .. Len(cs) \/ i = Len(cs) + 1
  BY Pushed
<1>2. \A k : Unwound(k, cs, h) => Unwound(k, ds, h)
  BY UnwoundPushed
<1> HIDE DEF ds
<1>3. ASSUME NEW k \in 1 .. Len(ds), ds[k].kind \in HasFrame
      PROVE  (\E i \in 1 .. Len(p) : p[i] = k) \/ Unwound(k, ds, h)
  <2>1. k \in 1 .. Len(cs) /\ cs[k].kind \in HasFrame
    BY <1>1, <1>3
  <2> QED BY <1>2, <2>1 DEF CoverOrUnwound
<1> QED BY <1>3 DEF CoverOrUnwound, ds

LEMMA CoverOrUnwoundFrame ==
  ASSUME NEW cs \in Seq(Entries), NEW h \in Seq(Nat), NEW p \in Seq(Nat),
         CoverOrUnwound(cs, h, p), NEW e \in Entries
  PROVE  CoverOrUnwound(Append(cs, e), h, Append(p, Len(cs) + 1))
<1> DEFINE ds == Append(cs, e)
           v  == Len(cs) + 1
           q  == Append(p, v)
<1>1. Len(cs) \in Nat /\ v \in Nat /\ v = Len(cs) + 1
  BY LenProperties
<1>2. /\ Len(ds) = v /\ \A i \in 1 .. Len(cs) : ds[i] = cs[i]
      /\ \A i \in 1 .. v : i \in 1 .. Len(cs) \/ i = v
  BY Pushed
<1>3. /\ Len(p) \in Nat /\ Len(q) = Len(p) + 1 /\ q[Len(p) + 1] = v
      /\ \A i \in 1 .. Len(p) : q[i] = p[i]
  BY <1>1, Pushed
<1>4. \A k : Unwound(k, cs, h) => Unwound(k, ds, h)
  BY UnwoundPushed
<1> HIDE DEF ds, v, q
<1>5. ASSUME NEW k \in 1 .. Len(ds), ds[k].kind \in HasFrame
      PROVE  (\E i \in 1 .. Len(q) : q[i] = k) \/ Unwound(k, ds, h)
  <2>1. CASE k = v
    <3>1. Len(p) + 1 \in 1 .. Len(q)
      BY <1>3
    <3> QED BY <1>3, <2>1, <3>1
  <2>2. CASE k \in 1 .. Len(cs)
    <3>1. cs[k].kind \in HasFrame
      BY <1>2, <1>5, <2>2
    <3>2. (\E i \in 1 .. Len(p) : p[i] = k) \/ Unwound(k, cs, h)
      BY <2>2, <3>1 DEF CoverOrUnwound
    <3>3. ASSUME NEW i \in 1 .. Len(p), p[i] = k PROVE i \in 1 .. Len(q) /\ q[i] = k
      BY <1>3, <3>3
    <3> QED BY <1>4, <3>2, <3>3
  <2> QED BY <1>2, <2>1, <2>2
<1> QED BY <1>5 DEF CoverOrUnwound, ds, v, q

LEMMA CoverOrUnwoundHandler ==
  ASSUME NEW cs \in Seq(Entries), NEW h \in Seq(Nat), NEW p \in Seq(Nat),
         CoverOrUnwound(cs, h, p)
  PROVE  CoverOrUnwound(cs, Append(h, Len(cs) + 1), p)
<1>1. \A k : Unwound(k, cs, h) => Unwound(k, cs, Append(h, Len(cs) + 1))
  BY UnwoundHandlerPushed
<1> QED BY <1>1 DEF CoverOrUnwound

-----------------------------------------------------------------------------
(* The C stack is cut at n, and with it what points above. *)
LEMMA TrackCut ==
  ASSUME NEW cs \in Seq(Entries), NEW K, NEW p, Track(cs, K, p), NEW n \in 0 .. Len(cs),
         NEW a \in 0 .. Len(p), \A i \in 1 .. Len(p) : i <= a <=> p[i] <= n
  PROVE  Track(SubSeq(cs, 1, n), K, SubSeq(p, 1, a))
<1> DEFINE ds == SubSeq(cs, 1, n)
           q  == SubSeq(p, 1, a)
<1>1. p \in Seq(Nat)
  BY DEF Track
<1>2. Len(cs) \in Nat /\ Len(ds) = n /\ \A i \in 1 .. n : ds[i] = cs[i]
  BY Cut
<1>3. q \in Seq(Nat)
  BY <1>1, Cut
<1>4. Len(p) \in Nat /\ Len(q) = a /\ \A i \in 1 .. a : q[i] = p[i]
  BY <1>1, Cut
<1> HIDE DEF ds, q
<1>5. ASSUME NEW i \in 1 .. Len(q), NEW j \in 1 .. Len(q), i < j PROVE q[i] < q[j]
  <2>1. i \in 1 .. Len(p) /\ j \in 1 .. Len(p) /\ q[i] = p[i] /\ q[j] = p[j]
    BY <1>4
  <2>2. p[i] < p[j]
    BY <1>5, <2>1 DEF Track
  <2> QED BY <2>1, <2>2
<1>6. ASSUME NEW i \in 1 .. Len(q) PROVE q[i] \in 1 .. Len(ds) /\ ds[q[i]].kind \in K
  <2>1. i \in 1 .. Len(p) /\ i <= a /\ q[i] = p[i]
    BY <1>4
  <2>2. p[i] \in 1 .. Len(cs) /\ cs[p[i]].kind \in K /\ p[i] <= n
    BY <2>1 DEF Track
  <2>3. p[i] \in 1 .. n
    BY <1>2, <2>2
  <2> QED BY <1>2, <2>1, <2>2, <2>3
<1> QED BY <1>3, <1>5, <1>6 DEF Track, ds, q

LEMMA CoverCut ==
  ASSUME NEW cs \in Seq(Entries), NEW K, NEW p \in Seq(Nat), Cover(cs, K, p),
         NEW n \in 0 .. Len(cs),
         NEW a \in 0 .. Len(p), \A i \in 1 .. Len(p) : i <= a <=> p[i] <= n
  PROVE  Cover(SubSeq(cs, 1, n), K, SubSeq(p, 1, a))
<1> DEFINE ds == SubSeq(cs, 1, n)
           q  == SubSeq(p, 1, a)
<1>1. Len(cs) \in Nat /\ Len(ds) = n /\ \A i \in 1 .. n : ds[i] = cs[i]
  BY Cut
<1>2. Len(p) \in Nat /\ Len(q) = a /\ \A i \in 1 .. a : q[i] = p[i]
  BY Cut
<1> HIDE DEF ds, q
<1>3. ASSUME NEW k \in 1 .. Len(ds), ds[k].kind \in K PROVE \E i \in 1 .. Len(q) : q[i] = k
  <2>1. k \in 1 .. Len(cs) /\ k <= n /\ cs[k].kind \in K
    BY <1>1, <1>3
  <2>2. PICK i \in 1 .. Len(p) : p[i] = k
    BY <2>1 DEF Cover
  <2>3. i \in 1 .. a
    BY <1>2, <2>1, <2>2
  <2> QED BY <1>2, <2>2, <2>3
<1> QED BY <1>3 DEF Cover, ds, q

LEMMA LessAtMost ==
  ASSUME NEW x \in Nat, NEW y \in Nat, NEW n \in Nat, x < y, y <= n
  PROVE  x <= n
OBVIOUS

LEMMA SplitCut ==
  ASSUME NEW h \in Seq(Nat), NEW m \in Seq(Nat), Len(m) = Len(h), NEW p \in Seq(Nat), Split(h, m, p),
         NEW n \in Nat,
         NEW a \in 0 .. Len(h), \A i \in 1 .. Len(h) : i <= a <=> h[i] <= n,
         NEW b \in 0 .. Len(p), \A i \in 1 .. Len(p) : i <= b <=> p[i] <= n
  PROVE  Split(SubSeq(h, 1, a), SubSeq(m, 1, a), SubSeq(p, 1, b))
<1> DEFINE g == SubSeq(h, 1, a)
           w == SubSeq(m, 1, a)
           q == SubSeq(p, 1, b)
<1>1. Len(h) \in Nat /\ Len(g) = a /\ \A i \in 1 .. a : g[i] = h[i]
  BY Cut
<1>2. \A i \in 1 .. a : w[i] = m[i]
  BY Cut
<1>3. Len(p) \in Nat /\ Len(q) = b /\ \A i \in 1 .. b : q[i] = p[i]
  BY Cut
<1>4. (\A i \in 1 .. Len(h) : h[i] \in Nat) /\ \A i \in 1 .. Len(p) : p[i] \in Nat
  BY ElementOfSeq
<1> HIDE DEF g, w, q
<1>5. ASSUME NEW i \in 1 .. Len(g)
      PROVE  w[i] \in 0 .. Len(q) /\ \A j \in 1 .. Len(q) : j <= w[i] <=> q[j] < g[i]
  <2>1. i \in 1 .. Len(h) /\ i <= a /\ g[i] = h[i] /\ w[i] = m[i] /\ h[i] \in Nat /\ h[i] <= n
    BY <1>1, <1>2, <1>4
  <2>2. m[i] \in 0 .. Len(p) /\ \A j \in 1 .. Len(p) : j <= m[i] <=> p[j] < h[i]
    BY <2>1 DEF Split
  <2>3. ASSUME NEW j \in 1 .. Len(q) PROVE j <= w[i] <=> q[j] < g[i]
    <3>1. j \in 1 .. Len(p) /\ q[j] = p[j]
      BY <1>3
    <3>2. j <= m[i] <=> p[j] < h[i]
      BY <2>2, <3>1
    <3> QED BY <2>1, <3>1, <3>2
  <2>4. CASE m[i] = 0
    BY <1>3, <2>1, <2>3, <2>4
  <2>5. CASE m[i] # 0
    <3>1. m[i] \in 1 .. Len(p)
      BY <1>3, <2>2, <2>5
    <3>2. p[m[i]] < h[i] /\ p[m[i]] \in Nat
      <4>1. p[m[i]] \in Nat
        BY <1>4, <3>1
      <4>2. m[i] <= m[i] <=> p[m[i]] < h[i]
        BY <2>2, <3>1
      <4> QED BY <3>1, <4>1, <4>2
    <3>3. p[m[i]] <= n
      BY <2>1, <3>2, LessAtMost
    <3>4. m[i] <= b
      <4>1. m[i] <= b <=> p[m[i]] <= n
        BY <3>1
      <4> QED BY <3>3, <4>1
    <3> QED BY <1>3, <2>1, <2>3, <3>1, <3>4
  <2> QED BY <2>3, <2>4, <2>5
<1> QED BY <1>5 DEF Split, g, w, q

LEMMA CoverOrUnwoundCut ==
  ASSUME NEW cs \in Seq(Entries), NEW h \in Seq(Nat), NEW p \in Seq(Nat),
         CoverOrUnwound(cs, h, p), NEW n \in 0 .. Len(cs),
         NEW a \in 0 .. Len(h), \A i \in 1 .. Len(h) : i <= a <=> h[i] <= n,
         NEW b \in 0 .. Len(p), \A i \in 1 .. Len(p) : i <= b <=> p[i] <= n,
         \/ \E i \in 1 .. Len(h) : h[i] = n + 1
         \/ \A t \in 1 .. Len(cs) : t > n => cs[t].kind # "throw"
  PROVE  CoverOrUnwound(SubSeq(cs, 1, n), SubSeq(h, 1, a), SubSeq(p, 1, b))
<1> DEFINE ds == SubSeq(cs, 1, n)
           g  == SubSeq(h, 1, a)
           q  == SubSeq(p, 1, b)
<1>1. Len(cs) \in Nat /\ Len(ds) = n /\ \A i \in 1 .. n : ds[i] = cs[i]
  BY Cut
<1>2. Len(h) \in Nat /\ Len(g) = a /\ \A i \in 1 .. a : g[i] = h[i]
  BY Cut
<1>3. Len(p) \in Nat /\ Len(q) = b /\ \A i \in 1 .. b : q[i] = p[i]
  BY Cut
<1> HIDE DEF ds, g, q
<1>4. ASSUME NEW k \in 1 .. Len(ds), ds[k].kind \in HasFrame
      PROVE  (\E i \in 1 .. Len(q) : q[i] = k) \/ Unwound(k, ds, g)
  <2>1. k \in 1 .. Len(cs) /\ k <= n /\ cs[k].kind \in HasFrame
    BY <1>1, <1>4
  <2>2. CASE \E i \in 1 .. Len(p) : p[i] = k
    <3>1. PICK i \in 1 .. Len(p) : p[i] = k
      BY <2>2
    <3>2. i \in 1 .. b
      BY <1>3, <2>1, <3>1
    <3> QED BY <1>3, <3>1, <3>2
  <2>3. CASE Unwound(k, cs, h)
    <3>1. PICK t \in 1 .. Len(cs) :
            k < t /\ cs[t].kind = "throw" /\ \A i \in 1 .. Len(h) : h[i] < k \/ h[i] > t
      BY <2>3 DEF Unwound
    <3>2. t <= n
      <4>1. CASE \E i \in 1 .. Len(h) : h[i] = n + 1
        <5>1. PICK i \in 1 .. Len(h) : h[i] = n + 1
          BY <4>1
        <5>2. n + 1 < k \/ n + 1 > t
          BY <3>1, <5>1
        <5> QED BY <1>1, <2>1, <5>2
      <4>2. CASE \A u \in 1 .. Len(cs) : u > n => cs[u].kind # "throw"
        BY <1>1, <3>1, <4>2
      <4> QED BY <4>1, <4>2
    <3>3. t \in 1 .. Len(ds) /\ ds[t].kind = "throw"
      <4>1. t \in 1 .. n
        BY <1>1, <3>2
      <4>2. ds[t] = cs[t]
        BY <1>1, <4>1
      <4> QED BY <1>1, <3>1, <4>1, <4>2
    <3>4. ASSUME NEW i \in 1 .. Len(g) PROVE g[i] < k \/ g[i] > t
      <4>1. i \in 1 .. a /\ g[i] = h[i]
        BY <1>2
      <4>2. i \in 1 .. Len(h)
        BY <1>2, <4>1
      <4> QED BY <3>1, <4>1, <4>2
    <3> QED BY <3>1, <3>3, <3>4 DEF Unwound
  <2> QED BY <2>1, <2>2, <2>3 DEF CoverOrUnwound
<1> QED BY <1>4 DEF CoverOrUnwound, ds, g, q

LEMMA CaughtCut ==
  ASSUME NEW cs \in Seq(Entries), NEW h \in Seq(Nat), Caught(cs, h), NEW n \in 0 .. Len(cs),
         NEW a \in 0 .. Len(h), \A i \in 1 .. Len(h) : i <= a <=> h[i] <= n
  PROVE  Caught(SubSeq(cs, 1, n), SubSeq(h, 1, a))
<1> DEFINE ds == SubSeq(cs, 1, n)
           g  == SubSeq(h, 1, a)
<1>1. Len(cs) \in Nat /\ Len(ds) = n /\ \A i \in 1 .. n : ds[i] = cs[i]
  BY Cut
<1>2. Len(h) \in Nat /\ Len(g) = a /\ \A i \in 1 .. a : g[i] = h[i]
  BY Cut
<1>3. \A i \in 1 .. Len(h) : h[i] \in Nat
  BY ElementOfSeq
<1> HIDE DEF ds, g
<1>4. ASSUME NEW t \in 1 .. Len(ds), ds[t].kind = "throw"
      PROVE  \E i \in 1 .. Len(g) : g[i] < t
  <2>1. t \in 1 .. Len(cs) /\ t <= n /\ cs[t].kind = "throw"
    BY <1>1, <1>4
  <2>2. PICK i \in 1 .. Len(h) : h[i] < t
    BY <2>1 DEF Caught
  <2>3. i \in 1 .. a
    <3>1. h[i] \in Nat /\ h[i] <= n
      BY <1>1, <1>3, <2>1, <2>2
    <3> QED BY <1>2, <3>1
  <2> QED BY <1>2, <2>2, <2>3
<1> QED BY <1>4 DEF Caught, ds, g

LEMMA CaughtPushed ==
  ASSUME NEW cs \in Seq(Entries), NEW h \in Seq(Nat), Caught(cs, h), NEW e \in Entries,
         e.kind = "throw" => \E i \in 1 .. Len(h) : h[i] < Len(cs) + 1
  PROVE  Caught(Append(cs, e), h)
<1> DEFINE ds == Append(cs, e)
<1>1. /\ Len(cs) \in Nat /\ Len(ds) = Len(cs) + 1 /\ \A i \in 1 .. Len(cs) : ds[i] = cs[i]
      /\ ds[Len(cs) + 1] = e /\ \A i \in 1 .. Len(cs) + 1 : i \in 1 .. Len(cs) \/ i = Len(cs) + 1
  BY Pushed
<1> HIDE DEF ds
<1>2. ASSUME NEW t \in 1 .. Len(ds), ds[t].kind = "throw" PROVE \E i \in 1 .. Len(h) : h[i] < t
  <2>1. CASE t \in 1 .. Len(cs)
    BY <1>1, <1>2, <2>1 DEF Caught
  <2>2. CASE t = Len(cs) + 1
    BY <1>1, <1>2, <2>2
  <2> QED BY <1>1, <2>1, <2>2
<1> QED BY <1>2 DEF Caught, ds

LEMMA CaughtHandler ==
  ASSUME NEW cs, NEW h \in Seq(Nat), Caught(cs, h), NEW v \in Nat
  PROVE  Caught(cs, Append(h, v))
<1> DEFINE g == Append(h, v)
<1>1. Len(h) \in Nat /\ Len(g) = Len(h) + 1 /\ \A i \in 1 .. Len(h) : g[i] = h[i]
  BY Pushed
<1> HIDE DEF g
<1>2. ASSUME NEW t \in 1 .. Len(cs), cs[t].kind = "throw" PROVE \E i \in 1 .. Len(g) : g[i] < t
  <2>1. PICK i \in 1 .. Len(h) : h[i] < t
    BY <1>2 DEF Caught
  <2> QED BY <1>1, <2>1
<1> QED BY <1>2 DEF Caught, g

LEMMA BasedPushed ==
  ASSUME NEW cs \in Seq(Entries), Based(cs), NEW e \in Entries,
         Len(cs) = 0 => e.kind \in HasFrame
  PROVE  Based(Append(cs, e))
<1> DEFINE ds == Append(cs, e)
<1>1. /\ Len(cs) \in Nat /\ Len(ds) = Len(cs) + 1 /\ \A i \in 1 .. Len(cs) : ds[i] = cs[i]
      /\ ds[Len(cs) + 1] = e
  BY Pushed
<1> HIDE DEF ds
<1>2. ds[1].kind \in HasFrame
  BY <1>1 DEF Based
<1> QED BY <1>2 DEF Based, ds

LEMMA BasedCut ==
  ASSUME NEW cs \in Seq(Entries), Based(cs), NEW n \in 0 .. Len(cs)
  PROVE  Based(SubSeq(cs, 1, n))
<1> DEFINE ds == SubSeq(cs, 1, n)
<1>1. Len(cs) \in Nat /\ Len(ds) = n /\ \A i \in 1 .. n : ds[i] = cs[i]
  BY Cut
<1> HIDE DEF ds
<1>2. Based(ds)
  BY <1>1 DEF Based
<1> QED BY <1>2 DEF ds

-----------------------------------------------------------------------------
(* The places and the marks of a stack that is pushed on or cut. *)
LEMMA HandlerLists ==
  ASSUME NEW hs \in Seq(HEntries)
  PROVE  /\ Ats(hs) \in Seq(Nat) /\ Len(Ats(hs)) = Len(hs)
         /\ FrameMarks(hs) \in Seq(Nat) /\ Len(FrameMarks(hs)) = Len(hs)
         /\ CleanupMarks(hs) \in Seq(Nat) /\ Len(CleanupMarks(hs)) = Len(hs)
<1>1. Len(hs) \in Nat /\ \A i \in 1 .. Len(hs) : hs[i] \in HEntries
  BY ElementOfSeq, LenProperties
<1>2. Ats(hs) \in Seq(Nat) /\ Len(Ats(hs)) = Len(hs)
  BY <1>1, IsASeq DEF Ats, HEntries
<1>3. FrameMarks(hs) \in Seq(Nat) /\ Len(FrameMarks(hs)) = Len(hs)
  BY <1>1, IsASeq DEF FrameMarks, HEntries
<1>4. CleanupMarks(hs) \in Seq(Nat) /\ Len(CleanupMarks(hs)) = Len(hs)
  BY <1>1, IsASeq DEF CleanupMarks, HEntries
<1> QED BY <1>2, <1>3, <1>4

LEMMA FrameLists ==
  ASSUME NEW fs \in Seq(FEntries)
  PROVE  Ats(fs) \in Seq(Nat) /\ Len(Ats(fs)) = Len(fs)
<1>1. Len(fs) \in Nat /\ \A i \in 1 .. Len(fs) : fs[i] \in FEntries
  BY ElementOfSeq, LenProperties
<1> QED BY <1>1, IsASeq DEF Ats, FEntries

LEMMA SamePush ==
  ASSUME NEW p \in Seq(Nat), NEW v \in Nat, NEW q \in Seq(Nat), Len(q) = Len(p) + 1,
         \A i \in 1 .. Len(p) : q[i] = p[i], q[Len(p) + 1] = v
  PROVE  q = Append(p, v)
<1>1. /\ Append(p, v) \in Seq(Nat) /\ Len(p) \in Nat /\ Len(Append(p, v)) = Len(p) + 1
      /\ Append(p, v)[Len(p) + 1] = v /\ \A i \in 1 .. Len(p) : Append(p, v)[i] = p[i]
      /\ \A i \in 1 .. Len(p) + 1 : i \in 1 .. Len(p) \/ i = Len(p) + 1
  BY Pushed
<1>2. \A i \in 1 .. Len(q) : q[i] = Append(p, v)[i]
  BY <1>1
<1> QED BY <1>1, <1>2, SeqEqual

LEMMA SameCut ==
  ASSUME NEW p \in Seq(Nat), NEW a \in 0 .. Len(p), NEW q \in Seq(Nat), Len(q) = a,
         \A i \in 1 .. a : q[i] = p[i]
  PROVE  q = SubSeq(p, 1, a)
<1>1. /\ SubSeq(p, 1, a) \in Seq(Nat) /\ Len(SubSeq(p, 1, a)) = a
      /\ \A i \in 1 .. a : SubSeq(p, 1, a)[i] = p[i]
  BY Cut
<1> QED BY <1>1, SeqEqual

LEMMA HandlerListsPushed ==
  ASSUME NEW hs \in Seq(HEntries), NEW e \in HEntries
  PROVE  /\ Ats(Append(hs, e)) = Append(Ats(hs), e.at)
         /\ FrameMarks(Append(hs, e)) = Append(FrameMarks(hs), e.frames)
         /\ CleanupMarks(Append(hs, e)) = Append(CleanupMarks(hs), e.cleanups)
<1> DEFINE gs == Append(hs, e)
<1>1. /\ gs \in Seq(HEntries) /\ Len(hs) \in Nat /\ Len(gs) = Len(hs) + 1
      /\ gs[Len(hs) + 1] = e /\ \A i \in 1 .. Len(hs) : gs[i] = hs[i]
  BY Pushed
<1>2. e.at \in Nat /\ e.frames \in Nat /\ e.cleanups \in Nat
  BY DEF HEntries
<1> HIDE DEF gs
<1>3. /\ Ats(gs) \in Seq(Nat) /\ Len(Ats(gs)) = Len(gs)
      /\ FrameMarks(gs) \in Seq(Nat) /\ Len(FrameMarks(gs)) = Len(gs)
      /\ CleanupMarks(gs) \in Seq(Nat) /\ Len(CleanupMarks(gs)) = Len(gs)
  BY <1>1, HandlerLists
<1>4. /\ Ats(hs) \in Seq(Nat) /\ Len(Ats(hs)) = Len(hs)
      /\ FrameMarks(hs) \in Seq(Nat) /\ Len(FrameMarks(hs)) = Len(hs)
      /\ CleanupMarks(hs) \in Seq(Nat) /\ Len(CleanupMarks(hs)) = Len(hs)
  BY HandlerLists
<1>5. Ats(gs) = Append(Ats(hs), e.at)
  <2>1. Ats(gs)[Len(hs) + 1] = e.at /\ \A i \in 1 .. Len(hs) : Ats(gs)[i] = Ats(hs)[i]
    BY <1>1 DEF Ats
  <2>2. /\ Len(Ats(gs)) = Len(Ats(hs)) + 1 /\ Ats(gs)[Len(Ats(hs)) + 1] = e.at
        /\ \A i \in 1 .. Len(Ats(hs)) : Ats(gs)[i] = Ats(hs)[i]
    BY <1>1, <1>3, <1>4, <2>1
  <2> QED BY <1>2, <1>3, <1>4, <2>2, SamePush
<1>6. FrameMarks(gs) = Append(FrameMarks(hs), e.frames)
  <2>1. FrameMarks(gs)[Len(hs) + 1] = e.frames /\ \A i \in 1 .. Len(hs) : FrameMarks(gs)[i] = FrameMarks(hs)[i]
    BY <1>1 DEF FrameMarks
  <2>2. /\ Len(FrameMarks(gs)) = Len(FrameMarks(hs)) + 1 /\ FrameMarks(gs)[Len(FrameMarks(hs)) + 1] = e.frames
        /\ \A i \in 1 .. Len(FrameMarks(hs)) : FrameMarks(gs)[i] = FrameMarks(hs)[i]
    BY <1>1, <1>3, <1>4, <2>1
  <2> QED BY <1>2, <1>3, <1>4, <2>2, SamePush
<1>7. CleanupMarks(gs) = Append(CleanupMarks(hs), e.cleanups)
  <2>1. CleanupMarks(gs)[Len(hs) + 1] = e.cleanups /\ \A i \in 1 .. Len(hs) : CleanupMarks(gs)[i] = CleanupMarks(hs)[i]
    BY <1>1 DEF CleanupMarks
  <2>2. /\ Len(CleanupMarks(gs)) = Len(CleanupMarks(hs)) + 1 /\ CleanupMarks(gs)[Len(CleanupMarks(hs)) + 1] = e.cleanups
        /\ \A i \in 1 .. Len(CleanupMarks(hs)) : CleanupMarks(gs)[i] = CleanupMarks(hs)[i]
    BY <1>1, <1>3, <1>4, <2>1
  <2> QED BY <1>2, <1>3, <1>4, <2>2, SamePush
<1> QED BY <1>5, <1>6, <1>7 DEF gs

LEMMA HandlerListsCut ==
  ASSUME NEW hs \in Seq(HEntries), NEW a \in 0 .. Len(hs)
  PROVE  /\ Ats(SubSeq(hs, 1, a)) = SubSeq(Ats(hs), 1, a)
         /\ FrameMarks(SubSeq(hs, 1, a)) = SubSeq(FrameMarks(hs), 1, a)
         /\ CleanupMarks(SubSeq(hs, 1, a)) = SubSeq(CleanupMarks(hs), 1, a)
<1> DEFINE gs == SubSeq(hs, 1, a)
<1>1. /\ gs \in Seq(HEntries) /\ Len(hs) \in Nat /\ Len(gs) = a
      /\ \A i \in 1 .. a : gs[i] = hs[i]
  BY Cut
<1> HIDE DEF gs
<1>2. /\ Ats(gs) \in Seq(Nat) /\ Len(Ats(gs)) = Len(gs)
      /\ FrameMarks(gs) \in Seq(Nat) /\ Len(FrameMarks(gs)) = Len(gs)
      /\ CleanupMarks(gs) \in Seq(Nat) /\ Len(CleanupMarks(gs)) = Len(gs)
  BY <1>1, HandlerLists
<1>3. /\ Ats(hs) \in Seq(Nat) /\ Len(Ats(hs)) = Len(hs)
      /\ FrameMarks(hs) \in Seq(Nat) /\ Len(FrameMarks(hs)) = Len(hs)
      /\ CleanupMarks(hs) \in Seq(Nat) /\ Len(CleanupMarks(hs)) = Len(hs)
  BY HandlerLists
<1>4. Ats(gs) = SubSeq(Ats(hs), 1, a)
  <2>1. \A i \in 1 .. a : Ats(gs)[i] = Ats(hs)[i]
    BY <1>1 DEF Ats
  <2> QED BY <1>1, <1>2, <1>3, <2>1, SameCut
<1>5. FrameMarks(gs) = SubSeq(FrameMarks(hs), 1, a)
  <2>1. \A i \in 1 .. a : FrameMarks(gs)[i] = FrameMarks(hs)[i]
    BY <1>1 DEF FrameMarks
  <2> QED BY <1>1, <1>2, <1>3, <2>1, SameCut
<1>6. CleanupMarks(gs) = SubSeq(CleanupMarks(hs), 1, a)
  <2>1. \A i \in 1 .. a : CleanupMarks(gs)[i] = CleanupMarks(hs)[i]
    BY <1>1 DEF CleanupMarks
  <2> QED BY <1>1, <1>2, <1>3, <2>1, SameCut
<1> QED BY <1>4, <1>5, <1>6 DEF gs

LEMMA FrameListsPushed ==
  ASSUME NEW fs \in Seq(FEntries), NEW e \in FEntries
  PROVE  Ats(Append(fs, e)) = Append(Ats(fs), e.at)
<1> DEFINE gs == Append(fs, e)
<1>1. /\ gs \in Seq(FEntries) /\ Len(fs) \in Nat /\ Len(gs) = Len(fs) + 1
      /\ gs[Len(fs) + 1] = e /\ \A i \in 1 .. Len(fs) : gs[i] = fs[i]
  BY Pushed
<1>2. e.at \in Nat
  BY DEF FEntries
<1> HIDE DEF gs
<1>3. Ats(gs) \in Seq(Nat) /\ Len(Ats(gs)) = Len(gs) /\ Ats(fs) \in Seq(Nat) /\ Len(Ats(fs)) = Len(fs)
  BY <1>1, FrameLists
<1>4. Ats(gs)[Len(fs) + 1] = e.at /\ \A i \in 1 .. Len(fs) : Ats(gs)[i] = Ats(fs)[i]
  BY <1>1 DEF Ats
<1>5. Ats(gs) = Append(Ats(fs), e.at)
  BY <1>1, <1>2, <1>3, <1>4, SamePush
<1> QED BY <1>5 DEF gs

LEMMA FrameListsCut ==
  ASSUME NEW fs \in Seq(FEntries), NEW a \in 0 .. Len(fs)
  PROVE  Ats(SubSeq(fs, 1, a)) = SubSeq(Ats(fs), 1, a)
<1> DEFINE gs == SubSeq(fs, 1, a)
<1>1. /\ gs \in Seq(FEntries) /\ Len(fs) \in Nat /\ Len(gs) = a /\ \A i \in 1 .. a : gs[i] = fs[i]
  BY Cut
<1> HIDE DEF gs
<1>2. Ats(gs) \in Seq(Nat) /\ Len(Ats(gs)) = Len(gs) /\ Ats(fs) \in Seq(Nat) /\ Len(Ats(fs)) = Len(fs)
  BY <1>1, FrameLists
<1>3. \A i \in 1 .. a : Ats(gs)[i] = Ats(fs)[i]
  BY <1>1 DEF Ats
<1>4. Ats(gs) = SubSeq(Ats(fs), 1, a)
  BY <1>1, <1>2, <1>3, SameCut
<1> QED BY <1>4 DEF gs

-----------------------------------------------------------------------------
(* The pushes and the cuts of the program. *)
LEMMA BelowTop ==
  ASSUME NEW cs \in Seq(Entries), NEW K, NEW p, Track(cs, K, p)
  PROVE  /\ p \in Seq(Nat) /\ Len(cs) + 1 \in Nat
         /\ \A i \in 1 .. Len(p) : p[i] < Len(cs) + 1 /\ p[i] <= Len(cs)
<1>1. Len(cs) \in Nat
  BY LenProperties
<1>2. \A i \in 1 .. Len(p) : p[i] \in 1 .. Len(cs)
  BY DEF Track
<1>3. p \in Seq(Nat)
  BY DEF Track
<1> QED BY <1>1, <1>2, <1>3

LEMMA NotEmpty ==
  ASSUME NEW S, NEW s \in Seq(S), s # <<>>
  PROVE  Len(s) \in Nat /\ Len(s) > 0 /\ 1 \in 1 .. Len(s) /\ Len(s) \in 1 .. Len(s)
<1>1. Len(s) \in Nat /\ Len(s) # 0
  BY EmptySeq, LenProperties
<1> QED BY <1>1

LEMMA PushPlain ==
  ASSUME NEW cs, NEW hs, NEW fs, NEW cl, Shape(cs, hs, fs, cl), NEW e \in Entries,
         e.kind \notin HasHandler \cup HasFrame \cup HasCleanup, Len(cs) > 0,
         e.kind = "throw" => hs # <<>>
  PROVE  Shape(Append(cs, e), hs, fs, cl)
<1>1. cs \in Seq(Entries) /\ hs \in Seq(HEntries) /\ fs \in Seq(FEntries) /\ cl \in Seq(Nat)
  BY DEF Shape, Typed
<1>2. Ats(hs) \in Seq(Nat) /\ Len(Ats(hs)) = Len(hs) /\ Ats(fs) \in Seq(Nat)
  BY <1>1, HandlerLists, FrameLists
<1>3. Append(cs, e) \in Seq(Entries) /\ Len(cs) \in Nat
  BY <1>1, Pushed
<1>4. Typed(Append(cs, e), hs, fs, cl)
  BY <1>1, <1>3 DEF Typed
<1>5. e.kind \notin HasHandler /\ e.kind \notin HasFrame /\ e.kind \notin HasCleanup
  OBVIOUS
<1>6. /\ Track(Append(cs, e), HasHandler, Ats(hs)) /\ Track(Append(cs, e), HasFrame, Ats(fs))
      /\ Track(Append(cs, e), HasCleanup, cl)
  BY <1>1, TrackOther DEF Shape
<1>7. Cover(Append(cs, e), HasHandler, Ats(hs)) /\ Cover(Append(cs, e), HasCleanup, cl)
  BY <1>1, <1>5, CoverOther DEF Shape
<1>8. CoverOrUnwound(Append(cs, e), Ats(hs), Ats(fs))
  BY <1>1, <1>2, <1>5, CoverOrUnwoundOther DEF Shape
<1>9. Caught(Append(cs, e), Ats(hs))
  <2>1. ASSUME e.kind = "throw" PROVE \E i \in 1 .. Len(Ats(hs)) : Ats(hs)[i] < Len(cs) + 1
    <3>1. 1 \in 1 .. Len(Ats(hs))
      BY <1>1, <1>2, <2>1, NotEmpty
    <3>2. Track(cs, HasHandler, Ats(hs))
      BY DEF Shape
    <3> QED BY <1>1, <3>1, <3>2, BelowTop
  <2> QED BY <1>1, <1>2, <2>1, CaughtPushed DEF Shape
<1>10. Based(Append(cs, e))
  BY <1>1, BasedPushed DEF Shape
<1> QED BY <1>4, <1>6, <1>7, <1>8, <1>9, <1>10 DEF Shape

LEMMA PushFunction ==
  ASSUME NEW cs, NEW hs, NEW fs, NEW cl, Shape(cs, hs, fs, cl), NEW e \in Entries,
         e.kind \in HasFrame, NEW f \in FEntries, f.at = Len(cs) + 1
  PROVE  Shape(Append(cs, e), hs, Append(fs, f), cl)
<1>1. cs \in Seq(Entries) /\ hs \in Seq(HEntries) /\ fs \in Seq(FEntries) /\ cl \in Seq(Nat)
  BY DEF Shape, Typed
<1>2. /\ Ats(hs) \in Seq(Nat) /\ Len(Ats(hs)) = Len(hs) /\ Ats(fs) \in Seq(Nat)
      /\ FrameMarks(hs) \in Seq(Nat)
  BY <1>1, HandlerLists, FrameLists
<1>3. Append(cs, e) \in Seq(Entries) /\ Append(fs, f) \in Seq(FEntries)
  BY <1>1, Pushed
<1>4. Typed(Append(cs, e), hs, Append(fs, f), cl)
  BY <1>1, <1>3 DEF Typed
<1>5. Ats(Append(fs, f)) = Append(Ats(fs), Len(cs) + 1)
  BY <1>1, FrameListsPushed
<1>6. e.kind \notin HasHandler /\ e.kind \notin HasCleanup /\ e.kind # "throw"
  BY DEF HasFrame, HasHandler, HasCleanup
<1>7. /\ Track(Append(cs, e), HasHandler, Ats(hs)) /\ Track(Append(cs, e), HasCleanup, cl)
      /\ Track(Append(cs, e), HasFrame, Append(Ats(fs), Len(cs) + 1))
  BY <1>1, TrackOther, TrackOwn DEF Shape
<1>8. Cover(Append(cs, e), HasHandler, Ats(hs)) /\ Cover(Append(cs, e), HasCleanup, cl)
  BY <1>1, <1>6, CoverOther DEF Shape
<1>9. CoverOrUnwound(Append(cs, e), Ats(hs), Append(Ats(fs), Len(cs) + 1))
  BY <1>1, <1>2, CoverOrUnwoundFrame DEF Shape
<1>10. Split(Ats(hs), FrameMarks(hs), Append(Ats(fs), Len(cs) + 1))
  <2>1. Track(cs, HasHandler, Ats(hs)) /\ Split(Ats(hs), FrameMarks(hs), Ats(fs))
    BY DEF Shape
  <2>2. Len(cs) + 1 \in Nat /\ \A i \in 1 .. Len(Ats(hs)) : Ats(hs)[i] < Len(cs) + 1
    BY <1>1, <2>1, BelowTop
  <2> QED BY <1>2, <2>1, <2>2, SplitOther
<1>11. Caught(Append(cs, e), Ats(hs)) /\ Based(Append(cs, e))
  BY <1>1, <1>2, <1>6, CaughtPushed, BasedPushed DEF Shape
<1>12. Split(Ats(hs), CleanupMarks(hs), cl)
  BY DEF Shape
<1> QED BY <1>4, <1>5, <1>7, <1>8, <1>9, <1>10, <1>11, <1>12 DEF Shape

LEMMA PushCleanup ==
  ASSUME NEW cs, NEW hs, NEW fs, NEW cl, Shape(cs, hs, fs, cl), NEW e \in Entries,
         e.kind \in HasCleanup, Len(cs) > 0
  PROVE  Shape(Append(cs, e), hs, fs, Append(cl, Len(cs) + 1))
<1>1. cs \in Seq(Entries) /\ hs \in Seq(HEntries) /\ fs \in Seq(FEntries) /\ cl \in Seq(Nat)
  BY DEF Shape, Typed
<1>2. /\ Ats(hs) \in Seq(Nat) /\ Len(Ats(hs)) = Len(hs) /\ Ats(fs) \in Seq(Nat)
      /\ CleanupMarks(hs) \in Seq(Nat)
  BY <1>1, HandlerLists, FrameLists
<1>3. Track(cs, HasHandler, Ats(hs)) /\ Split(Ats(hs), CleanupMarks(hs), cl)
  BY DEF Shape
<1>4. Len(cs) + 1 \in Nat /\ \A i \in 1 .. Len(Ats(hs)) : Ats(hs)[i] < Len(cs) + 1
  BY <1>1, <1>3, BelowTop
<1>5. Append(cs, e) \in Seq(Entries) /\ Append(cl, Len(cs) + 1) \in Seq(Nat)
  BY <1>1, <1>4, Pushed
<1>6. Typed(Append(cs, e), hs, fs, Append(cl, Len(cs) + 1))
  BY <1>1, <1>5 DEF Typed
<1>7. e.kind \notin HasHandler /\ e.kind \notin HasFrame /\ e.kind # "throw"
  BY DEF HasFrame, HasHandler, HasCleanup
<1>8. /\ Track(Append(cs, e), HasHandler, Ats(hs)) /\ Track(Append(cs, e), HasFrame, Ats(fs))
      /\ Track(Append(cs, e), HasCleanup, Append(cl, Len(cs) + 1))
  BY <1>1, TrackOther, TrackOwn DEF Shape
<1>9. /\ Cover(Append(cs, e), HasHandler, Ats(hs))
      /\ Cover(Append(cs, e), HasCleanup, Append(cl, Len(cs) + 1))
  BY <1>1, <1>7, CoverOther, CoverOwn DEF Shape
<1>10. CoverOrUnwound(Append(cs, e), Ats(hs), Ats(fs))
  BY <1>1, <1>2, <1>7, CoverOrUnwoundOther DEF Shape
<1>11. Split(Ats(hs), CleanupMarks(hs), Append(cl, Len(cs) + 1))
  BY <1>1, <1>2, <1>3, <1>4, SplitOther
<1>12. Caught(Append(cs, e), Ats(hs)) /\ Based(Append(cs, e))
  <2>1. Len(cs) # 0
    BY <1>4
  <2> QED BY <1>1, <1>2, <1>7, <2>1, CaughtPushed, BasedPushed DEF Shape
<1>13. Split(Ats(hs), FrameMarks(hs), Ats(fs))
  BY DEF Shape
<1> QED BY <1>6, <1>8, <1>9, <1>10, <1>11, <1>12, <1>13 DEF Shape

LEMMA PushHandler ==
  ASSUME NEW cs, NEW hs, NEW fs, NEW cl, Shape(cs, hs, fs, cl), NEW e \in Entries,
         e.kind \in HasHandler, Len(cs) > 0, NEW g \in HEntries,
         g = [at |-> Len(cs) + 1, frames |-> Len(fs), cleanups |-> Len(cl)]
  PROVE  Shape(Append(cs, e), Append(hs, g), fs, cl)
<1>1. cs \in Seq(Entries) /\ hs \in Seq(HEntries) /\ fs \in Seq(FEntries) /\ cl \in Seq(Nat)
  BY DEF Shape, Typed
<1> DEFINE v == Len(cs) + 1
           h == Ats(hs)
           p == Ats(fs)
<1>2. /\ h \in Seq(Nat) /\ p \in Seq(Nat) /\ Len(p) = Len(fs)
      /\ FrameMarks(hs) \in Seq(Nat) /\ Len(FrameMarks(hs)) = Len(h)
      /\ CleanupMarks(hs) \in Seq(Nat) /\ Len(CleanupMarks(hs)) = Len(h)
  BY <1>1, HandlerLists, FrameLists
<1>3. /\ Track(cs, HasHandler, h) /\ Track(cs, HasFrame, p) /\ Track(cs, HasCleanup, cl)
      /\ Split(h, FrameMarks(hs), p) /\ Split(h, CleanupMarks(hs), cl)
      /\ Cover(cs, HasHandler, h) /\ Cover(cs, HasCleanup, cl) /\ CoverOrUnwound(cs, h, p)
      /\ Caught(cs, h) /\ Based(cs)
  BY DEF Shape
<1>4. /\ v \in Nat /\ Len(cs) \in Nat /\ v = Len(cs) + 1
      /\ (\A i \in 1 .. Len(p) : p[i] < v) /\ \A i \in 1 .. Len(cl) : cl[i] < v
  BY <1>1, <1>3, BelowTop, LenProperties
<1>5. /\ Ats(Append(hs, g)) = Append(h, v)
      /\ FrameMarks(Append(hs, g)) = Append(FrameMarks(hs), Len(p))
      /\ CleanupMarks(Append(hs, g)) = Append(CleanupMarks(hs), Len(cl))
  BY <1>1, <1>2, HandlerListsPushed
<1>6. Append(cs, e) \in Seq(Entries) /\ Append(hs, g) \in Seq(HEntries)
  BY <1>1, Pushed
<1>7. Typed(Append(cs, e), Append(hs, g), fs, cl)
  BY <1>1, <1>6 DEF Typed
<1>8. e.kind \notin HasCleanup /\ e.kind \notin HasFrame /\ e.kind # "throw"
  BY DEF HasFrame, HasHandler, HasCleanup
<1>9. /\ Track(Append(cs, e), HasHandler, Append(h, v)) /\ Track(Append(cs, e), HasFrame, p)
      /\ Track(Append(cs, e), HasCleanup, cl)
  BY <1>1, <1>3, TrackOther, TrackOwn
<1>10. /\ Cover(Append(cs, e), HasHandler, Append(h, v))
       /\ Cover(Append(cs, e), HasCleanup, cl)
  BY <1>1, <1>2, <1>3, <1>8, CoverOther, CoverOwn
<1>11. Append(h, v) \in Seq(Nat) /\ Len(cs) # 0
  BY <1>2, <1>4, Pushed
<1>12. CoverOrUnwound(Append(cs, e), Append(h, v), p)
  BY <1>1, <1>2, <1>3, <1>8, <1>11, CoverOrUnwoundOther, CoverOrUnwoundHandler
<1>13. Split(Append(h, v), Append(FrameMarks(hs), Len(p)), p)
  BY <1>2, <1>3, <1>4, SplitOwn
<1>14. Split(Append(h, v), Append(CleanupMarks(hs), Len(cl)), cl)
  BY <1>1, <1>2, <1>3, <1>4, SplitOwn
<1>15. Caught(Append(cs, e), Append(h, v))
  BY <1>1, <1>2, <1>3, <1>4, <1>8, <1>11, CaughtPushed, CaughtHandler
<1>16. Based(Append(cs, e))
  BY <1>1, <1>3, <1>11, BasedPushed
<1> QED BY <1>5, <1>7, <1>9, <1>10, <1>12, <1>13, <1>14, <1>15, <1>16 DEF Shape

LEMMA Whole ==
  ASSUME NEW S, NEW s \in Seq(S)
  PROVE  SubSeq(s, 1, Len(s)) = s /\ Len(s) \in 0 .. Len(s)
<1>1. Len(s) \in Nat /\ Len(s) \in 0 .. Len(s)
  BY LenProperties
<1>2. /\ SubSeq(s, 1, Len(s)) \in Seq(S) /\ Len(SubSeq(s, 1, Len(s))) = Len(s)
      /\ \A i \in 1 .. Len(s) : SubSeq(s, 1, Len(s))[i] = s[i]
  BY <1>1, Cut
<1> QED BY <1>1, <1>2, SeqEqual

LEMMA CutTo ==
  ASSUME NEW cs, NEW hs, NEW fs, NEW cl, Shape(cs, hs, fs, cl), NEW n \in 0 .. Len(cs),
         NEW a \in 0 .. Len(hs), \A i \in 1 .. Len(hs) : i <= a <=> Ats(hs)[i] <= n,
         NEW b \in 0 .. Len(fs), \A i \in 1 .. Len(fs) : i <= b <=> Ats(fs)[i] <= n,
         NEW c \in 0 .. Len(cl), \A i \in 1 .. Len(cl) : i <= c <=> cl[i] <= n,
         \/ \E i \in 1 .. Len(hs) : Ats(hs)[i] = n + 1
         \/ \A t \in 1 .. Len(cs) : t > n => cs[t].kind # "throw"
  PROVE  Shape(SubSeq(cs, 1, n), SubSeq(hs, 1, a), SubSeq(fs, 1, b), SubSeq(cl, 1, c))
<1> DEFINE ds == SubSeq(cs, 1, n)
           gs == SubSeq(hs, 1, a)
           es == SubSeq(fs, 1, b)
           dl == SubSeq(cl, 1, c)
<1>1. cs \in Seq(Entries) /\ hs \in Seq(HEntries) /\ fs \in Seq(FEntries) /\ cl \in Seq(Nat)
  BY DEF Shape, Typed
<1>2. /\ Ats(hs) \in Seq(Nat) /\ Len(Ats(hs)) = Len(hs)
      /\ Ats(fs) \in Seq(Nat) /\ Len(Ats(fs)) = Len(fs)
      /\ FrameMarks(hs) \in Seq(Nat) /\ Len(FrameMarks(hs)) = Len(hs)
      /\ CleanupMarks(hs) \in Seq(Nat) /\ Len(CleanupMarks(hs)) = Len(hs)
  BY <1>1, HandlerLists, FrameLists
<1>3. /\ Track(cs, HasHandler, Ats(hs)) /\ Track(cs, HasFrame, Ats(fs))
      /\ Track(cs, HasCleanup, cl)
      /\ Split(Ats(hs), FrameMarks(hs), Ats(fs)) /\ Split(Ats(hs), CleanupMarks(hs), cl)
      /\ Cover(cs, HasHandler, Ats(hs)) /\ Cover(cs, HasCleanup, cl)
      /\ CoverOrUnwound(cs, Ats(hs), Ats(fs)) /\ Caught(cs, Ats(hs)) /\ Based(cs)
  BY DEF Shape
<1>4. n \in Nat
  BY <1>1, LenProperties
<1>5. ds \in Seq(Entries) /\ gs \in Seq(HEntries) /\ es \in Seq(FEntries) /\ dl \in Seq(Nat)
  BY <1>1, Cut
<1>6. /\ Ats(gs) = SubSeq(Ats(hs), 1, a) /\ Ats(es) = SubSeq(Ats(fs), 1, b)
      /\ FrameMarks(gs) = SubSeq(FrameMarks(hs), 1, a)
      /\ CleanupMarks(gs) = SubSeq(CleanupMarks(hs), 1, a)
  BY <1>1, HandlerListsCut, FrameListsCut
<1> HIDE DEF ds, gs, es, dl
<1>7. /\ \A i \in 1 .. Len(Ats(hs)) : i <= a <=> Ats(hs)[i] <= n
      /\ \A i \in 1 .. Len(Ats(fs)) : i <= b <=> Ats(fs)[i] <= n
      /\ a \in 0 .. Len(Ats(hs)) /\ b \in 0 .. Len(Ats(fs))
  BY <1>2
<1>8. Track(ds, HasHandler, Ats(gs)) /\ Track(ds, HasFrame, Ats(es)) /\ Track(ds, HasCleanup, dl)
  BY <1>1, <1>3, <1>6, <1>7, TrackCut DEF ds, dl
<1>9. Cover(ds, HasHandler, Ats(gs)) /\ Cover(ds, HasCleanup, dl)
  BY <1>1, <1>2, <1>3, <1>6, <1>7, CoverCut DEF ds, dl
<1>10. Split(Ats(gs), FrameMarks(gs), Ats(es))
  BY <1>2, <1>3, <1>4, <1>6, <1>7, SplitCut
<1>11. Split(Ats(gs), CleanupMarks(gs), dl)
  BY <1>1, <1>2, <1>3, <1>4, <1>6, <1>7, SplitCut DEF dl
<1>12. CoverOrUnwound(ds, Ats(gs), Ats(es))
  BY <1>1, <1>2, <1>3, <1>6, <1>7, CoverOrUnwoundCut DEF ds
<1>13. Caught(ds, Ats(gs)) /\ Based(ds)
  BY <1>1, <1>2, <1>3, <1>6, <1>7, CaughtCut, BasedCut DEF ds
<1>14. Shape(ds, gs, es, dl)
  BY <1>5, <1>8, <1>9, <1>10, <1>11, <1>12, <1>13 DEF Shape, Typed
<1> QED BY <1>14 DEF ds, gs, es, dl

LEMMA TopTracked ==
  ASSUME NEW cs \in Seq(Entries), NEW K, NEW p, Track(cs, K, p), Len(cs) > 0,
         \E i \in 1 .. Len(p) : p[i] = Len(cs)
  PROVE  /\ Len(p) - 1 \in 0 .. Len(p) /\ Len(p) \in 1 .. Len(p) /\ p[Len(p)] = Len(cs)
         /\ \A i \in 1 .. Len(p) : i <= Len(p) - 1 <=> p[i] <= Len(cs) - 1
<1>1. p \in Seq(Nat) /\ Len(p) \in Nat /\ Len(cs) \in Nat
  BY LenProperties DEF Track
<1>2. /\ \A i, j \in 1 .. Len(p) : i < j => p[i] < p[j]
      /\ \A i \in 1 .. Len(p) : p[i] \in 1 .. Len(cs)
  BY DEF Track
<1>3. PICK i \in 1 .. Len(p) : p[i] = Len(cs)
  OBVIOUS
<1>4. i = Len(p)
  BY <1>1, <1>2, <1>3
<1>5. ASSUME NEW j \in 1 .. Len(p) PROVE j <= Len(p) - 1 <=> p[j] <= Len(cs) - 1
  <2>1. CASE j = Len(p)
    BY <1>1, <1>3, <1>4, <2>1
  <2>2. CASE j < Len(p)
    <3>1. p[j] < p[Len(p)] /\ p[j] \in 1 .. Len(cs)
      BY <1>1, <1>2, <2>2
    <3> QED BY <1>1, <1>3, <1>4, <2>2, <3>1
  <2> QED BY <1>1, <2>1, <2>2
<1> QED BY <1>1, <1>3, <1>4, <1>5

LEMMA TopUntracked ==
  ASSUME NEW cs \in Seq(Entries), NEW K, NEW p, Track(cs, K, p), Len(cs) > 0,
         cs[Len(cs)].kind \notin K
  PROVE  /\ Len(p) \in 0 .. Len(p)
         /\ \A i \in 1 .. Len(p) : i <= Len(p) <=> p[i] <= Len(cs) - 1
<1>1. p \in Seq(Nat) /\ Len(p) \in Nat /\ Len(cs) \in Nat
  BY LenProperties DEF Track
<1>2. ASSUME NEW i \in 1 .. Len(p) PROVE i <= Len(p) /\ p[i] <= Len(cs) - 1
  <2>1. p[i] \in 1 .. Len(cs) /\ p[i] # Len(cs)
    BY DEF Track
  <2> QED BY <1>1, <2>1
<1> QED BY <1>1, <1>2

LEMMA TopIsTracked ==
  ASSUME NEW cs, NEW hs, NEW fs, NEW cl, Shape(cs, hs, fs, cl), Len(cs) > 0
  PROVE  /\ Len(cs) \in Nat /\ Len(cs) - 1 \in 0 .. Len(cs) /\ Len(cs) \in 1 .. Len(cs)
         /\ cs[Len(cs)].kind \in HasHandler => \E i \in 1 .. Len(Ats(hs)) : Ats(hs)[i] = Len(cs)
         /\ cs[Len(cs)].kind \in HasCleanup => \E i \in 1 .. Len(cl) : cl[i] = Len(cs)
         /\ cs[Len(cs)].kind \in HasFrame => \E i \in 1 .. Len(Ats(fs)) : Ats(fs)[i] = Len(cs)
<1>1. cs \in Seq(Entries) /\ Len(cs) \in Nat /\ Len(cs) \in 1 .. Len(cs)
  BY LenProperties DEF Shape, Typed
<1>2. ~Unwound(Len(cs), cs, Ats(hs))
  BY <1>1 DEF Unwound
<1>3. Cover(cs, HasHandler, Ats(hs)) /\ Cover(cs, HasCleanup, cl) /\ CoverOrUnwound(cs, Ats(hs), Ats(fs))
  BY DEF Shape
<1>4. cs[Len(cs)].kind \in HasHandler => \E i \in 1 .. Len(Ats(hs)) : Ats(hs)[i] = Len(cs)
  BY <1>1, <1>3 DEF Cover
<1>5. cs[Len(cs)].kind \in HasCleanup => \E i \in 1 .. Len(cl) : cl[i] = Len(cs)
  BY <1>1, <1>3 DEF Cover
<1>6. cs[Len(cs)].kind \in HasFrame => \E i \in 1 .. Len(Ats(fs)) : Ats(fs)[i] = Len(cs)
  BY <1>1, <1>2, <1>3 DEF CoverOrUnwound
<1> QED BY <1>1, <1>4, <1>5, <1>6

LEMMA PopPlain ==
  ASSUME NEW cs, NEW hs, NEW fs, NEW cl, Shape(cs, hs, fs, cl), Len(cs) > 0,
         cs[Len(cs)].kind \notin HasHandler \cup HasFrame \cup HasCleanup \cup {"throw"}
  PROVE  Shape(Front(cs), hs, fs, cl)
<1>1. cs \in Seq(Entries) /\ hs \in Seq(HEntries) /\ fs \in Seq(FEntries) /\ cl \in Seq(Nat)
  BY DEF Shape, Typed
<1>2. Len(Ats(hs)) = Len(hs) /\ Len(Ats(fs)) = Len(fs)
  BY <1>1, HandlerLists, FrameLists
<1>3. Len(cs) \in Nat /\ Len(cs) - 1 \in 0 .. Len(cs)
  BY TopIsTracked
<1>4. /\ cs[Len(cs)].kind \notin HasHandler /\ cs[Len(cs)].kind \notin HasFrame
      /\ cs[Len(cs)].kind \notin HasCleanup /\ cs[Len(cs)].kind # "throw"
  OBVIOUS
<1>5. /\ Len(hs) \in 0 .. Len(hs)
      /\ \A i \in 1 .. Len(hs) : i <= Len(hs) <=> Ats(hs)[i] <= Len(cs) - 1
  BY <1>1, <1>2, <1>4, TopUntracked DEF Shape
<1>6. /\ Len(fs) \in 0 .. Len(fs)
      /\ \A i \in 1 .. Len(fs) : i <= Len(fs) <=> Ats(fs)[i] <= Len(cs) - 1
  BY <1>1, <1>2, <1>4, TopUntracked DEF Shape
<1>7. /\ Len(cl) \in 0 .. Len(cl)
      /\ \A i \in 1 .. Len(cl) : i <= Len(cl) <=> cl[i] <= Len(cs) - 1
  BY <1>1, <1>4, TopUntracked DEF Shape
<1>8. \A t \in 1 .. Len(cs) : t > Len(cs) - 1 => cs[t].kind # "throw"
  BY <1>3, <1>4
<1>9. Shape(SubSeq(cs, 1, Len(cs) - 1), SubSeq(hs, 1, Len(hs)), SubSeq(fs, 1, Len(fs)),
            SubSeq(cl, 1, Len(cl)))
  BY <1>3, <1>5, <1>6, <1>7, <1>8, CutTo
<1>10. SubSeq(hs, 1, Len(hs)) = hs /\ SubSeq(fs, 1, Len(fs)) = fs /\ SubSeq(cl, 1, Len(cl)) = cl
  BY <1>1, Whole
<1> QED BY <1>9, <1>10 DEF Front

LEMMA PopHandler ==
  ASSUME NEW cs, NEW hs, NEW fs, NEW cl, Shape(cs, hs, fs, cl), Len(cs) > 0,
         cs[Len(cs)].kind \in HasHandler
  PROVE  Shape(Front(cs), Front(hs), fs, cl)
<1>1. cs \in Seq(Entries) /\ hs \in Seq(HEntries) /\ fs \in Seq(FEntries) /\ cl \in Seq(Nat)
  BY DEF Shape, Typed
<1>2. Len(Ats(hs)) = Len(hs) /\ Len(Ats(fs)) = Len(fs)
  BY <1>1, HandlerLists, FrameLists
<1>3. /\ Len(cs) \in Nat /\ Len(cs) - 1 \in 0 .. Len(cs)
      /\ \E i \in 1 .. Len(Ats(hs)) : Ats(hs)[i] = Len(cs)
  BY TopIsTracked
<1>4. /\ cs[Len(cs)].kind \notin HasFrame /\ cs[Len(cs)].kind \notin HasCleanup
      /\ cs[Len(cs)].kind # "throw"
  BY DEF HasHandler, HasFrame, HasCleanup
<1>5. /\ Len(hs) - 1 \in 0 .. Len(hs)
      /\ \A i \in 1 .. Len(hs) : i <= Len(hs) - 1 <=> Ats(hs)[i] <= Len(cs) - 1
  BY <1>1, <1>2, <1>3, TopTracked DEF Shape
<1>6. /\ Len(fs) \in 0 .. Len(fs)
      /\ \A i \in 1 .. Len(fs) : i <= Len(fs) <=> Ats(fs)[i] <= Len(cs) - 1
  BY <1>1, <1>2, <1>4, TopUntracked DEF Shape
<1>7. /\ Len(cl) \in 0 .. Len(cl)
      /\ \A i \in 1 .. Len(cl) : i <= Len(cl) <=> cl[i] <= Len(cs) - 1
  BY <1>1, <1>4, TopUntracked DEF Shape
<1>8. \A t \in 1 .. Len(cs) : t > Len(cs) - 1 => cs[t].kind # "throw"
  BY <1>3, <1>4
<1>9. Shape(SubSeq(cs, 1, Len(cs) - 1), SubSeq(hs, 1, Len(hs) - 1), SubSeq(fs, 1, Len(fs)),
            SubSeq(cl, 1, Len(cl)))
  BY <1>3, <1>5, <1>6, <1>7, <1>8, CutTo
<1>10. SubSeq(fs, 1, Len(fs)) = fs /\ SubSeq(cl, 1, Len(cl)) = cl
  BY <1>1, Whole
<1> QED BY <1>9, <1>10 DEF Front

LEMMA PopFunction ==
  ASSUME NEW cs, NEW hs, NEW fs, NEW cl, Shape(cs, hs, fs, cl), Len(cs) > 0,
         cs[Len(cs)].kind \in HasFrame
  PROVE  /\ Shape(Front(cs), hs, Front(fs), cl)
         /\ Len(fs) \in 1 .. Len(fs) /\ fs[Len(fs)].at = Len(cs)
<1>1. cs \in Seq(Entries) /\ hs \in Seq(HEntries) /\ fs \in Seq(FEntries) /\ cl \in Seq(Nat)
  BY DEF Shape, Typed
<1>2. Len(Ats(hs)) = Len(hs) /\ Len(Ats(fs)) = Len(fs)
  BY <1>1, HandlerLists, FrameLists
<1>3. /\ Len(cs) \in Nat /\ Len(cs) - 1 \in 0 .. Len(cs)
      /\ \E i \in 1 .. Len(Ats(fs)) : Ats(fs)[i] = Len(cs)
  BY TopIsTracked
<1>4. /\ cs[Len(cs)].kind \notin HasHandler /\ cs[Len(cs)].kind \notin HasCleanup
      /\ cs[Len(cs)].kind # "throw"
  BY DEF HasHandler, HasFrame, HasCleanup
<1>5. /\ Len(hs) \in 0 .. Len(hs)
      /\ \A i \in 1 .. Len(hs) : i <= Len(hs) <=> Ats(hs)[i] <= Len(cs) - 1
  BY <1>1, <1>2, <1>4, TopUntracked DEF Shape
<1>6. /\ Len(fs) - 1 \in 0 .. Len(fs) /\ Len(fs) \in 1 .. Len(fs) /\ Ats(fs)[Len(fs)] = Len(cs)
      /\ \A i \in 1 .. Len(fs) : i <= Len(fs) - 1 <=> Ats(fs)[i] <= Len(cs) - 1
  BY <1>1, <1>2, <1>3, TopTracked DEF Shape
<1>7. /\ Len(cl) \in 0 .. Len(cl)
      /\ \A i \in 1 .. Len(cl) : i <= Len(cl) <=> cl[i] <= Len(cs) - 1
  BY <1>1, <1>4, TopUntracked DEF Shape
<1>8. \A t \in 1 .. Len(cs) : t > Len(cs) - 1 => cs[t].kind # "throw"
  BY <1>3, <1>4
<1>9. Shape(SubSeq(cs, 1, Len(cs) - 1), SubSeq(hs, 1, Len(hs)), SubSeq(fs, 1, Len(fs) - 1),
            SubSeq(cl, 1, Len(cl)))
  BY <1>3, <1>5, <1>6, <1>7, <1>8, CutTo
<1>10. fs[Len(fs)].at = Len(cs)
  BY <1>6 DEF Ats
<1>11. SubSeq(hs, 1, Len(hs)) = hs /\ SubSeq(cl, 1, Len(cl)) = cl
  BY <1>1, Whole
<1> QED BY <1>6, <1>9, <1>10, <1>11 DEF Front

LEMMA PopCleanup ==
  ASSUME NEW cs, NEW hs, NEW fs, NEW cl, Shape(cs, hs, fs, cl), Len(cs) > 0,
         cs[Len(cs)].kind \in HasCleanup
  PROVE  Shape(Front(cs), hs, fs, Front(cl))
<1>1. cs \in Seq(Entries) /\ hs \in Seq(HEntries) /\ fs \in Seq(FEntries) /\ cl \in Seq(Nat)
  BY DEF Shape, Typed
<1>2. Len(Ats(hs)) = Len(hs) /\ Len(Ats(fs)) = Len(fs)
  BY <1>1, HandlerLists, FrameLists
<1>3. /\ Len(cs) \in Nat /\ Len(cs) - 1 \in 0 .. Len(cs)
      /\ \E i \in 1 .. Len(cl) : cl[i] = Len(cs)
  BY TopIsTracked
<1>4. /\ cs[Len(cs)].kind \notin HasHandler /\ cs[Len(cs)].kind \notin HasFrame
      /\ cs[Len(cs)].kind # "throw"
  BY DEF HasHandler, HasFrame, HasCleanup
<1>5. /\ Len(hs) \in 0 .. Len(hs)
      /\ \A i \in 1 .. Len(hs) : i <= Len(hs) <=> Ats(hs)[i] <= Len(cs) - 1
  BY <1>1, <1>2, <1>4, TopUntracked DEF Shape
<1>6. /\ Len(fs) \in 0 .. Len(fs)
      /\ \A i \in 1 .. Len(fs) : i <= Len(fs) <=> Ats(fs)[i] <= Len(cs) - 1
  BY <1>1, <1>2, <1>4, TopUntracked DEF Shape
<1>7. /\ Len(cl) - 1 \in 0 .. Len(cl)
      /\ \A i \in 1 .. Len(cl) : i <= Len(cl) - 1 <=> cl[i] <= Len(cs) - 1
  BY <1>1, <1>3, TopTracked DEF Shape
<1>8. \A t \in 1 .. Len(cs) : t > Len(cs) - 1 => cs[t].kind # "throw"
  BY <1>3, <1>4
<1>9. Shape(SubSeq(cs, 1, Len(cs) - 1), SubSeq(hs, 1, Len(hs)), SubSeq(fs, 1, Len(fs)),
            SubSeq(cl, 1, Len(cl) - 1))
  BY <1>3, <1>5, <1>6, <1>7, <1>8, CutTo
<1>10. SubSeq(hs, 1, Len(hs)) = hs /\ SubSeq(fs, 1, Len(fs)) = fs
  BY <1>1, Whole
<1> QED BY <1>9, <1>10 DEF Front

(* What may be taken off a frame, and put on it. *)
LEMMA DefersChange ==
  ASSUME NEW cs, NEW hs, NEW fs, NEW cl, Shape(cs, hs, fs, cl), Len(fs) \in 1 .. Len(fs), NEW d \in Nat
  PROVE  Shape(cs, hs, [fs EXCEPT ![Len(fs)].defers = d], cl)
<1> DEFINE f  == [fs[Len(fs)] EXCEPT !.defers = d]
           es == [fs EXCEPT ![Len(fs)] = f]
<1>1. fs \in Seq(FEntries) /\ fs[Len(fs)] \in FEntries
  BY ElementOfSeq DEF Shape, Typed
<1>2. f \in FEntries /\ f.at = fs[Len(fs)].at
  BY <1>1 DEF FEntries
<1> HIDE DEF f
<1>3. /\ es \in Seq(FEntries) /\ Len(es) = Len(fs)
      /\ \A j \in 1 .. Len(fs) : es[j] = IF j = Len(fs) THEN f ELSE fs[j]
  BY <1>1, <1>2, ExceptSeq
<1> HIDE DEF es
<1>4. \A j \in 1 .. Len(fs) : es[j].at = fs[j].at
  BY <1>2, <1>3
<1>5. Ats(es) = Ats(fs)
  BY <1>3, <1>4 DEF Ats
<1>6. Shape(cs, hs, es, cl)
  BY <1>3, <1>5 DEF Shape, Typed
<1>7. es = [fs EXCEPT ![Len(fs)].defers = d]
  BY DEF es, f
<1> QED BY <1>6, <1>7

(* A throw that is going on has a handler to go to, the last, and what is   *)
(* above it can be unwound.                                                 *)
LEMMA HasTarget ==
  ASSUME NEW cs, NEW hs, NEW fs, NEW cl, Shape(cs, hs, fs, cl), Len(cs) > 0,
         cs[Len(cs)].kind = "throw"
  PROVE  /\ Len(hs) \in 1 .. Len(hs) /\ hs[Len(hs)] \in HEntries
         /\ hs[Len(hs)].at \in 1 .. Len(cs) /\ cs[hs[Len(hs)].at].kind \in HasHandler
         /\ \A i \in 1 .. Len(hs) : i < Len(hs) => Ats(hs)[i] < hs[Len(hs)].at
         /\ Ats(hs)[Len(hs)] = hs[Len(hs)].at
         /\ hs[Len(hs)].frames \in 0 .. Len(fs)
         /\ \A j \in 1 .. Len(fs) : j <= hs[Len(hs)].frames <=> Ats(fs)[j] < hs[Len(hs)].at
         /\ hs[Len(hs)].cleanups \in 0 .. Len(cl)
         /\ \A j \in 1 .. Len(cl) : j <= hs[Len(hs)].cleanups <=> cl[j] < hs[Len(hs)].at
<1>1. cs \in Seq(Entries) /\ hs \in Seq(HEntries) /\ fs \in Seq(FEntries) /\ cl \in Seq(Nat)
  BY DEF Shape, Typed
<1>2. /\ Len(Ats(hs)) = Len(hs) /\ Len(Ats(fs)) = Len(fs) /\ Len(hs) \in Nat
      /\ Len(FrameMarks(hs)) = Len(hs) /\ Len(CleanupMarks(hs)) = Len(hs)
  BY <1>1, HandlerLists, FrameLists, LenProperties
<1>3. Len(cs) \in 1 .. Len(cs)
  BY TopIsTracked
<1>4. PICK i \in 1 .. Len(hs) : Ats(hs)[i] < Len(cs)
  BY <1>2, <1>3 DEF Shape, Caught
<1>5. Len(hs) \in 1 .. Len(hs)
  BY <1>2, <1>4
<1>6. hs[Len(hs)] \in HEntries
  BY <1>1, <1>5, ElementOfSeq
<1>7. /\ Ats(hs)[Len(hs)] = hs[Len(hs)].at /\ FrameMarks(hs)[Len(hs)] = hs[Len(hs)].frames
      /\ CleanupMarks(hs)[Len(hs)] = hs[Len(hs)].cleanups
  BY <1>5 DEF Ats, FrameMarks, CleanupMarks
<1>8. /\ \A k, j \in 1 .. Len(hs) : k < j => Ats(hs)[k] < Ats(hs)[j]
      /\ \A k \in 1 .. Len(hs) : Ats(hs)[k] \in 1 .. Len(cs) /\ cs[Ats(hs)[k]].kind \in HasHandler
  BY <1>2 DEF Shape, Track
<1>9. /\ hs[Len(hs)].frames \in 0 .. Len(fs)
      /\ \A j \in 1 .. Len(fs) : j <= hs[Len(hs)].frames <=> Ats(fs)[j] < hs[Len(hs)].at
  BY <1>2, <1>5, <1>7 DEF Shape, Split
<1>10. /\ hs[Len(hs)].cleanups \in 0 .. Len(cl)
       /\ \A j \in 1 .. Len(cl) : j <= hs[Len(hs)].cleanups <=> cl[j] < hs[Len(hs)].at
  BY <1>2, <1>5, <1>7 DEF Shape, Split
<1> QED BY <1>5, <1>6, <1>7, <1>8, <1>9, <1>10

LEMMA DeliverCuts ==
  ASSUME NEW cs, NEW hs, NEW fs, NEW cl, Shape(cs, hs, fs, cl), Len(cs) > 0,
         cs[Len(cs)].kind = "throw", ~(Len(fs) > Last(hs).frames)
  PROVE  /\ Shape(SubSeq(cs, 1, Last(hs).at - 1), Front(hs), fs, SubSeq(cl, 1, Last(hs).cleanups))
         /\ Last(hs).at - 1 \in 1 .. Len(cs)
<1> DEFINE g == hs[Len(hs)]
           n == g.at - 1
<1>1. cs \in Seq(Entries) /\ hs \in Seq(HEntries) /\ fs \in Seq(FEntries) /\ cl \in Seq(Nat)
  BY DEF Shape, Typed
<1>2. /\ Len(Ats(hs)) = Len(hs) /\ Len(Ats(fs)) = Len(fs) /\ Len(hs) \in Nat /\ Len(fs) \in Nat
      /\ Ats(hs) \in Seq(Nat) /\ Ats(fs) \in Seq(Nat) /\ Len(cs) \in Nat /\ Len(cl) \in Nat
  BY <1>1, HandlerLists, FrameLists, LenProperties
<1>3. /\ Len(hs) \in 1 .. Len(hs) /\ g \in HEntries
      /\ g.at \in 1 .. Len(cs) /\ cs[g.at].kind \in HasHandler
      /\ \A i \in 1 .. Len(hs) : i < Len(hs) => Ats(hs)[i] < g.at
      /\ Ats(hs)[Len(hs)] = g.at
      /\ g.frames \in 0 .. Len(fs)
      /\ \A j \in 1 .. Len(fs) : j <= g.frames <=> Ats(fs)[j] < g.at
      /\ g.cleanups \in 0 .. Len(cl)
      /\ \A j \in 1 .. Len(cl) : j <= g.cleanups <=> cl[j] < g.at
  BY HasTarget
<1>4. ~(Len(fs) > g.frames)
  BY DEF Last
<1> HIDE DEF g
<1>5. (\A i \in 1 .. Len(hs) : Ats(hs)[i] \in Nat) /\ (\A i \in 1 .. Len(fs) : Ats(fs)[i] \in Nat)
      /\ \A i \in 1 .. Len(cl) : cl[i] \in Nat
  BY <1>1, <1>2, ElementOfSeq
<1>6. n \in 1 .. Len(cs)
  <2>1. cs[1].kind \in HasFrame
    BY DEF Shape, Based
  <2>2. g.at # 1
    BY <1>3, <2>1 DEF HasHandler, HasFrame
  <2> QED BY <1>2, <1>3, <2>2
<1>7. /\ Len(hs) - 1 \in 0 .. Len(hs)
      /\ \A i \in 1 .. Len(hs) : i <= Len(hs) - 1 <=> Ats(hs)[i] <= n
  <2>1. ASSUME NEW i \in 1 .. Len(hs) PROVE i <= Len(hs) - 1 <=> Ats(hs)[i] <= n
    <3>1. CASE i = Len(hs)
      BY <1>2, <1>3, <3>1
    <3>2. CASE i < Len(hs)
      <4>1. Ats(hs)[i] < g.at /\ Ats(hs)[i] \in Nat
        BY <1>3, <1>5, <3>2
      <4> QED BY <1>2, <1>3, <3>2, <4>1
    <3> QED BY <1>2, <3>1, <3>2
  <2> QED BY <1>2, <1>3, <2>1
<1>8. /\ Len(fs) \in 0 .. Len(fs)
      /\ \A i \in 1 .. Len(fs) : i <= Len(fs) <=> Ats(fs)[i] <= n
  <2>1. ASSUME NEW i \in 1 .. Len(fs) PROVE i <= Len(fs) <=> Ats(fs)[i] <= n
    <3>1. i <= g.frames
      BY <1>2, <1>3, <1>4
    <3>2. Ats(fs)[i] < g.at /\ Ats(fs)[i] \in Nat
      BY <1>3, <1>5, <3>1
    <3> QED BY <1>2, <1>3, <3>2
  <2> QED BY <1>2, <2>1
<1>9. ASSUME NEW i \in 1 .. Len(cl) PROVE i <= g.cleanups <=> cl[i] <= n
  <2>1. (i <= g.cleanups <=> cl[i] < g.at) /\ cl[i] \in Nat
    BY <1>3, <1>5
  <2> QED BY <1>2, <1>3, <2>1
<1>10. \E i \in 1 .. Len(hs) : Ats(hs)[i] = n + 1
  BY <1>2, <1>3
<1>11. n \in 0 .. Len(cs)
  BY <1>6
<1> HIDE DEF n
<1>12. Shape(SubSeq(cs, 1, n), SubSeq(hs, 1, Len(hs) - 1), SubSeq(fs, 1, Len(fs)),
             SubSeq(cl, 1, g.cleanups))
  BY <1>3, <1>7, <1>8, <1>9, <1>10, <1>11, CutTo
<1>13. SubSeq(fs, 1, Len(fs)) = fs
  BY <1>1, Whole
<1> QED BY <1>6, <1>12, <1>13 DEF Front, Last, g, n

LEMMA UnwindPopsFrame ==
  ASSUME NEW cs, NEW hs, NEW fs, NEW cl, Shape(cs, hs, fs, cl), Len(cs) > 0,
         cs[Len(cs)].kind = "throw", Len(fs) > Last(hs).frames
  PROVE  Shape(cs, hs, Front(fs), cl)
<1> DEFINE g == hs[Len(hs)]
           h == Ats(hs)
           p == Ats(fs)
           q == SubSeq(p, 1, Len(p) - 1)
<1>1. cs \in Seq(Entries) /\ hs \in Seq(HEntries) /\ fs \in Seq(FEntries) /\ cl \in Seq(Nat)
  BY DEF Shape, Typed
<1>2. /\ Len(h) = Len(hs) /\ Len(p) = Len(fs) /\ Len(hs) \in Nat /\ Len(fs) \in Nat
      /\ h \in Seq(Nat) /\ p \in Seq(Nat) /\ Len(cs) \in Nat
  BY <1>1, HandlerLists, FrameLists, LenProperties
<1>3. /\ Len(h) \in 1 .. Len(h) /\ h[Len(h)] = g.at
      /\ \A i \in 1 .. Len(h) : i < Len(h) => h[i] < g.at
      /\ g.at \in 1 .. Len(cs) /\ cs[g.at].kind \in HasHandler
      /\ g.frames \in 0 .. Len(p)
      /\ \A j \in 1 .. Len(p) : j <= g.frames <=> p[j] < g.at
  BY <1>2, HasTarget
<1>4. Len(p) > g.frames
  BY <1>2 DEF Last
<1>5. Len(p) \in 1 .. Len(p) /\ Len(p) - 1 \in 0 .. Len(p)
  BY <1>2, <1>3, <1>4
<1>6. /\ q \in Seq(Nat) /\ Len(q) = Len(p) - 1 /\ \A i \in 1 .. Len(p) - 1 : q[i] = p[i]
  BY <1>2, <1>5, Cut
<1>7. Ats(Front(fs)) = q /\ Front(fs) \in Seq(FEntries)
  <2>1. Len(fs) - 1 \in 0 .. Len(fs)
    BY <1>2, <1>5
  <2> QED BY <1>1, <1>2, <2>1, FrameListsCut, Cut DEF Front
<1>8. /\ \A i, j \in 1 .. Len(p) : i < j => p[i] < p[j]
      /\ \A i \in 1 .. Len(p) : p[i] \in 1 .. Len(cs) /\ cs[p[i]].kind \in HasFrame
  BY DEF Shape, Track
<1>9. p[Len(p)] > g.at
  <2>1. p[Len(p)] \in 1 .. Len(cs) /\ cs[p[Len(p)]].kind \in HasFrame
    BY <1>5, <1>8
  <2>2. p[Len(p)] # g.at
    BY <1>3, <2>1 DEF HasHandler, HasFrame
  <2>3. ~(p[Len(p)] < g.at)
    BY <1>2, <1>3, <1>4, <1>5
  <2> QED BY <1>2, <1>3, <2>1, <2>2, <2>3
<1>10. \A i \in 1 .. Len(h) : h[i] \in Nat /\ h[i] < p[Len(p)]
  <2>1. \A i \in 1 .. Len(h) : h[i] \in Nat
    BY <1>2, ElementOfSeq
  <2>2. p[Len(p)] \in Nat
    BY <1>5, <1>8
  <2> QED BY <1>2, <1>3, <1>9, <2>1, <2>2
<1> HIDE DEF g, h, p, q
<1>11. Track(cs, HasFrame, q)
  <2> \A i \in 1 .. Len(q) : i \in 1 .. Len(p) /\ q[i] = p[i]
    BY <1>2, <1>6
  <2>1. ASSUME NEW i \in 1 .. Len(q), NEW j \in 1 .. Len(q), i < j PROVE q[i] < q[j]
    <3>1. i \in 1 .. Len(p) /\ j \in 1 .. Len(p) /\ q[i] = p[i] /\ q[j] = p[j]
      OBVIOUS
    <3> QED BY <1>8, <2>1, <3>1
  <2>2. ASSUME NEW i \in 1 .. Len(q) PROVE q[i] \in 1 .. Len(cs) /\ cs[q[i]].kind \in HasFrame
    <3>1. i \in 1 .. Len(p) /\ q[i] = p[i]
      BY <1>2, <1>6
    <3> QED BY <1>8, <3>1
  <2> QED BY <1>6, <2>1, <2>2 DEF Track
<1>12. CoverOrUnwound(cs, h, q)
  <2>1. CoverOrUnwound(cs, h, p)
    BY DEF Shape, h, p
  <2>2. ASSUME NEW k \in 1 .. Len(cs), cs[k].kind \in HasFrame
        PROVE  (\E i \in 1 .. Len(q) : q[i] = k) \/ Unwound(k, cs, h)
    <3>1. CASE k = p[Len(p)]
      <4>1. k # Len(cs)
        BY <2>2 DEF HasFrame
      <4>2. Len(cs) \in 1 .. Len(cs) /\ k < Len(cs)
        BY <1>2, <4>1
      <4>3. \A i \in 1 .. Len(h) : h[i] < k
        BY <1>10, <3>1
      <4> QED BY <4>2, <4>3 DEF Unwound
    <3>2. CASE k # p[Len(p)]
      <4>1. ASSUME NEW i \in 1 .. Len(p), p[i] = k PROVE i \in 1 .. Len(q) /\ q[i] = k
        <5>1. i # Len(p)
          BY <3>2, <4>1
        <5>2. i \in 1 .. Len(p) - 1
          BY <1>2, <5>1
        <5> QED BY <1>6, <4>1, <5>2
      <4>2. (\E i \in 1 .. Len(p) : p[i] = k) \/ Unwound(k, cs, h)
        BY <2>1, <2>2 DEF CoverOrUnwound
      <4> QED BY <4>1, <4>2
    <3> QED BY <3>1, <3>2
  <2> QED BY <2>2 DEF CoverOrUnwound
<1>13. Split(h, FrameMarks(hs), q)
  <2> DEFINE m == FrameMarks(hs)
  <2>1. Split(h, m, p)
    BY DEF Shape, h, p
  <2> HIDE DEF m
  <2>2. ASSUME NEW i \in 1 .. Len(h)
        PROVE  m[i] \in 0 .. Len(q) /\ \A j \in 1 .. Len(q) : j <= m[i] <=> q[j] < h[i]
    <3>1. m[i] \in 0 .. Len(p) /\ \A j \in 1 .. Len(p) : j <= m[i] <=> p[j] < h[i]
      BY <2>1 DEF Split
    <3>2. ~(Len(p) <= m[i])
      <4>1. p[Len(p)] \in Nat /\ ~(p[Len(p)] < h[i])
        BY <1>5, <1>8, <1>10
      <4> QED BY <1>5, <3>1, <4>1
    <3>3. m[i] \in 0 .. Len(q)
      BY <1>2, <1>6, <3>1, <3>2
    <3>4. ASSUME NEW j \in 1 .. Len(q) PROVE j <= m[i] <=> q[j] < h[i]
      <4>1. j \in 1 .. Len(p) /\ q[j] = p[j]
        BY <1>2, <1>6
      <4> QED BY <3>1, <4>1
    <3> QED BY <3>3, <3>4
  <2> QED BY <2>2 DEF Split, m
<1>14. Typed(cs, hs, Front(fs), cl)
  BY <1>1, <1>7 DEF Typed
<1> QED BY <1>7, <1>11, <1>12, <1>13, <1>14 DEF Shape, h

-----------------------------------------------------------------------------
(* How many entries of some kinds the C stack has. *)
Places(cs, K) == {k \in 1 .. Len(cs) : cs[k].kind \in K}
Count(cs, K)  == Cardinality(Places(cs, K))

LEMMA PlacesFinite ==
  ASSUME NEW cs \in Seq(Entries), NEW K
  PROVE  IsFiniteSet(Places(cs, K)) /\ Count(cs, K) \in Nat
<1>1. Len(cs) \in Nat
  BY LenProperties
<1>2. IsFiniteSet(1 .. Len(cs))
  BY <1>1, FS_Interval
<1>3. IsFiniteSet(Places(cs, K))
  BY <1>2, FS_Subset DEF Places
<1> QED BY <1>3, FS_CardinalityType DEF Count

LEMMA CountPushed ==
  ASSUME NEW cs \in Seq(Entries), NEW e \in Entries, NEW K
  PROVE  Count(Append(cs, e), K) = IF e.kind \in K THEN Count(cs, K) + 1 ELSE Count(cs, K)
<1> DEFINE ds == Append(cs, e)
<1>1. /\ Len(cs) \in Nat /\ Len(ds) = Len(cs) + 1 /\ \A i \in 1 .. Len(cs) : ds[i] = cs[i]
      /\ ds[Len(cs) + 1] = e /\ \A i \in 1 .. Len(cs) + 1 : i \in 1 .. Len(cs) \/ i = Len(cs) + 1
  BY Pushed
<1> HIDE DEF ds
<1>2. CASE e.kind \in K
  <2>1. Places(ds, K) = Places(cs, K) \cup {Len(cs) + 1}
    BY <1>1, <1>2 DEF Places
  <2>2. Len(cs) + 1 \notin Places(cs, K)
    BY <1>1 DEF Places
  <2>3. Count(ds, K) = Count(cs, K) + 1
    BY <2>1, <2>2, PlacesFinite, FS_AddElement DEF Count
  <2> QED BY <1>2, <2>3 DEF ds
<1>3. CASE e.kind \notin K
  <2>1. Places(ds, K) = Places(cs, K)
    BY <1>1, <1>3 DEF Places
  <2> QED BY <1>3, <2>1 DEF Count, ds
<1> QED BY <1>2, <1>3

LEMMA CountCut ==
  ASSUME NEW cs \in Seq(Entries), NEW K, NEW n \in 0 .. Len(cs), n + 1 \in 1 .. Len(cs),
         \A k \in 1 .. Len(cs) : k > n + 1 => cs[k].kind \notin K
  PROVE  Count(cs, K) = IF cs[n + 1].kind \in K THEN Count(SubSeq(cs, 1, n), K) + 1
                                                ELSE Count(SubSeq(cs, 1, n), K)
<1> DEFINE ds == SubSeq(cs, 1, n)
<1>1. /\ Len(cs) \in Nat /\ Len(ds) = n /\ (\A i \in 1 .. n : ds[i] = cs[i])
      /\ ds \in Seq(Entries)
  BY Cut
<1> HIDE DEF ds
<1>2. CASE cs[n + 1].kind \in K
  <2>1. Places(cs, K) = Places(ds, K) \cup {n + 1}
    BY <1>1, <1>2 DEF Places
  <2>2. n + 1 \notin Places(ds, K)
    BY <1>1 DEF Places
  <2>3. Count(cs, K) = Count(ds, K) + 1
    BY <1>1, <2>1, <2>2, PlacesFinite, FS_AddElement DEF Count
  <2> QED BY <1>2, <2>3 DEF ds
<1>3. CASE cs[n + 1].kind \notin K
  <2>1. Places(cs, K) = Places(ds, K)
    BY <1>1, <1>3 DEF Places
  <2> QED BY <1>3, <2>1 DEF Count, ds
<1> QED BY <1>2, <1>3

LEMMA CountTop ==
  ASSUME NEW cs \in Seq(Entries), NEW K, Len(cs) > 0
  PROVE  Count(cs, K) = IF cs[Len(cs)].kind \in K THEN Count(Front(cs), K) + 1
                                                  ELSE Count(Front(cs), K)
<1>1. Len(cs) \in Nat
  BY LenProperties
<1>2. Len(cs) - 1 \in 0 .. Len(cs) /\ (Len(cs) - 1) + 1 = Len(cs) /\ Len(cs) \in 1 .. Len(cs)
  BY <1>1
<1>3. \A k \in 1 .. Len(cs) : k > (Len(cs) - 1) + 1 => cs[k].kind \notin K
  BY <1>1
<1> QED BY <1>2, <1>3, CountCut DEF Front

LEMMA PopLength ==
  ASSUME NEW cs \in Seq(Entries), Based(cs), Len(cs) > 0
  PROVE  /\ Front(cs) \in Seq(Entries) /\ Len(Front(cs)) = Len(cs) - 1 /\ Len(cs) \in Nat
         /\ cs[Len(cs)].kind \notin HasFrame => Len(Front(cs)) > 0
<1>1. Len(cs) \in Nat
  BY LenProperties
<1>2. Len(cs) - 1 \in 0 .. Len(cs)
  BY <1>1
<1>3. Front(cs) \in Seq(Entries) /\ Len(Front(cs)) = Len(cs) - 1
  BY <1>2, Cut DEF Front
<1>4. ASSUME cs[Len(cs)].kind \notin HasFrame PROVE Len(cs) # 1
  BY <1>4 DEF Based
<1> QED BY <1>1, <1>3, <1>4

LEMMA PushedTwo ==
  ASSUME NEW cs \in Seq(Entries), NEW e \in Entries, NEW f \in Entries
  PROVE  /\ cs \o <<>> \o <<e>> = Append(cs, e)
         /\ cs \o <<e>> \o <<f>> = Append(Append(cs, e), f)
         /\ cs \o <<e, f>> = Append(Append(cs, e), f)
<1>1. cs \o <<>> = cs
  BY ConcatEmptySeq
<1>2. cs \o <<e>> = Append(cs, e) /\ Append(cs, e) \in Seq(Entries)
  BY AppendIsConcat, Pushed
<1>3. Append(cs, e) \o <<f>> = Append(Append(cs, e), f)
  BY <1>2, AppendIsConcat
<1>4. cs \o <<e, f>> = cs \o <<e>> \o <<f>>
  <2>1. <<e>> \in Seq(Entries) /\ <<f>> \in Seq(Entries)
    OBVIOUS
  <2>2. <<e>> \o <<f>> = <<e, f>>
    <3>1. Append(<<e>>, f) = <<e, f>>
      <4>1. /\ Append(<<e>>, f) \in Seq(Entries) /\ Len(Append(<<e>>, f)) = 2
            /\ Append(<<e>>, f)[1] = e /\ Append(<<e>>, f)[2] = f
        BY <2>1, AppendProperties
      <4>2. <<e, f>> \in Seq(Entries) /\ Len(<<e, f>>) = 2 /\ <<e, f>>[1] = e /\ <<e, f>>[2] = f
        OBVIOUS
      <4>3. \A i \in 1 .. 2 : i = 1 \/ i = 2
        OBVIOUS
      <4> QED BY <4>1, <4>2, <4>3, SeqEqual
    <3> QED BY <2>1, <3>1, AppendIsConcat
  <2>3. cs \o <<e>> \o <<f>> = cs \o (<<e>> \o <<f>>)
    BY <2>1, ConcatAssociative
  <2> QED BY <2>2, <2>3
<1> QED BY <1>1, <1>2, <1>3, <1>4

-----------------------------------------------------------------------------
(* The invariant. *)
Data ==
  /\ pending \in Excs \cup {None}
  /\ ended \in {"no", "returned", "uncaught", "fatal"}
  /\ {entered, raised, deferred, ran} \subseteq Nat
  /\ handled \in BOOLEAN

UnwindInv ==
  /\ Data
  /\ Shape(cstack, handlers, frames, cleanups)
  /\ recover = Count(cstack, {"contain"})
  /\ ended = "no" => Len(cstack) > 0

LEMMA EntriesTyped ==
  /\ \A kind \in Kinds : Entry(kind) \in Entries /\ Entry(kind).kind = kind
  /\ \A exc \in Excs \cup {None} :
       /\ Throwing(exc) \in Entries /\ Throwing(exc).kind = "throw"
       /\ Finally(exc) \in Entries /\ Finally(exc).kind = "finally"
  /\ \A i \in Nat : NewFrame(i) \in FEntries /\ NewFrame(i).at = i
  /\ Kinds = HasHandler \cup HasFrame \cup HasCleanup \cup {"clause", "finally", "throw"}
BY DEF Entry, Throwing, Finally, NewFrame, Entries, FEntries, Kinds, HasHandler, HasFrame, HasCleanup

LEMMA StackTyped ==
  ASSUME UnwindInv
  PROVE  /\ cstack \in Seq(Entries) /\ handlers \in Seq(HEntries) /\ frames \in Seq(FEntries)
         /\ cleanups \in Seq(Nat)
         /\ Len(cstack) \in Nat /\ Len(handlers) \in Nat /\ Len(frames) \in Nat /\ Len(cleanups) \in Nat
         /\ Based(cstack) /\ Count(cstack, {"contain"}) \in Nat
<1>1. /\ cstack \in Seq(Entries) /\ handlers \in Seq(HEntries) /\ frames \in Seq(FEntries)
      /\ cleanups \in Seq(Nat) /\ Based(cstack)
  BY DEF UnwindInv, Shape, Typed
<1>2. Len(cstack) \in Nat /\ Len(handlers) \in Nat /\ Len(frames) \in Nat /\ Len(cleanups) \in Nat
  BY <1>1, LenProperties
<1> QED BY <1>1, <1>2, PlacesFinite

(* A throw is put on the C stack if there is a handler for it. *)
LEMMA RaiseKeeps ==
  ASSUME NEW cs, NEW hs, NEW fs, NEW cl, Shape(cs, hs, fs, cl), Len(cs) > 0,
         NEW exc \in Excs \cup {None}, ended = "no", Raise(exc, hs, cs)
  PROVE  /\ Shape(cstack', hs, fs, cl) /\ Len(cstack') > 0
         /\ pending' \in Excs \cup {None}
         /\ ended' \in {"no", "returned", "uncaught", "fatal"}
         /\ Count(cstack', {"contain"}) = Count(cs, {"contain"})
<1>1. CASE hs = <<>>
  BY <1>1 DEF Raise
<1>2. CASE hs # <<>>
  <2>1. cstack' = Append(cs, Throwing(exc)) /\ pending' = exc /\ ended' = "no"
    BY <1>2 DEF Raise
  <2>2. /\ Throwing(exc) \in Entries /\ Throwing(exc).kind = "throw"
        /\ cs \in Seq(Entries)
    BY EntriesTyped DEF Shape, Typed
  <2>3. Throwing(exc).kind \notin HasHandler \cup HasFrame \cup HasCleanup
    BY <2>2 DEF HasHandler, HasFrame, HasCleanup
  <2>4. Shape(cstack', hs, fs, cl)
    BY <1>2, <2>1, <2>2, <2>3, PushPlain
  <2>5. Count(cstack', {"contain"}) = Count(cs, {"contain"})
    BY <2>1, <2>2, CountPushed
  <2>6. Len(cstack') > 0
    <3>1. Len(cs) \in Nat /\ Len(cstack') = Len(cs) + 1
      BY <2>1, <2>2, Pushed
    <3> QED BY <3>1
  <2> QED BY <2>1, <2>4, <2>5, <2>6
<1> QED BY <1>1, <1>2

LEMMA CallKeeps ==
  ASSUME UnwindInv, Call
  PROVE  UnwindInv'
<1> DEFINE e == Entry("fn")
           f == NewFrame(Len(cstack) + 1)
<1>1. e \in Entries /\ e.kind = "fn" /\ f \in FEntries /\ f.at = Len(cstack) + 1
  BY EntriesTyped, StackTyped DEF Kinds
<1>2. cstack' = Append(cstack, e)
  BY <1>1, StackTyped, PushedTwo DEF Call, CallFrom
<1>3. frames' = Append(frames, f)
  <2>1. Len(cstack) + Len(<<>>) + 1 = Len(cstack) + 1
    BY StackTyped
  <2> QED BY <2>1 DEF Call, PushFrame
<1>4. handlers' = handlers /\ cleanups' = cleanups /\ recover' = recover
  BY DEF Call
<1> HIDE DEF e, f
<1>5. Shape(cstack', handlers', frames', cleanups')
  BY <1>1, <1>2, <1>3, <1>4, PushFunction DEF UnwindInv, HasFrame
<1>6. Count(cstack', {"contain"}) = Count(cstack, {"contain"})
  BY <1>1, <1>2, StackTyped, CountPushed
<1>7. Len(cstack') > 0
  BY <1>1, <1>2, StackTyped, Pushed
<1>8. Data'
  BY DEF UnwindInv, Data, Call, CallFrom
<1> QED BY <1>4, <1>5, <1>6, <1>7, <1>8 DEF UnwindInv

LEMMA CallBackKeeps ==
  ASSUME UnwindInv, CallBack
  PROVE  UnwindInv'
<1> DEFINE e  == Entry("native")
           f  == Entry("fn")
           cs == Append(cstack, e)
           g  == NewFrame(Len(cs) + 1)
<1>1. e \in Entries /\ e.kind = "native" /\ f \in Entries /\ f.kind = "fn"
  BY EntriesTyped DEF Kinds
<1>2. cs \in Seq(Entries) /\ Len(cs) = Len(cstack) + 1 /\ Len(cstack) \in Nat /\ Len(cs) > 0
  BY <1>1, StackTyped, Pushed
<1>3. g \in FEntries /\ g.at = Len(cs) + 1
  BY <1>2, EntriesTyped
<1>4. cstack' = Append(cs, f)
  BY <1>1, StackTyped, PushedTwo DEF CallBack, CallFrom
<1>5. frames' = Append(frames, g)
  <2>1. Len(cstack) + Len(<<1>>) + 1 = Len(cs) + 1
    BY <1>2
  <2> QED BY <2>1 DEF CallBack, PushFrame
<1>6. handlers' = handlers /\ cleanups' = Append(cleanups, Len(cstack) + 1) /\ recover' = recover
  BY DEF CallBack
<1>7. ended = "no" /\ Len(cstack) > 0
  BY DEF CallBack, Code, UnwindInv
<1>8. Shape(cs, handlers, frames, Append(cleanups, Len(cstack) + 1))
  BY <1>1, <1>7, PushCleanup DEF UnwindInv, HasCleanup
<1> HIDE DEF g
<1>9. Shape(cstack', handlers', frames', cleanups')
  BY <1>1, <1>3, <1>4, <1>5, <1>6, <1>8, PushFunction DEF HasFrame
<1>10. Count(cstack', {"contain"}) = Count(cstack, {"contain"})
  <2>1. Count(cs, {"contain"}) = Count(cstack, {"contain"})
    BY <1>1, StackTyped, CountPushed
  <2> HIDE DEF cs, e, f
  <2>2. f.kind \notin {"contain"}
    BY <1>1
  <2> QED BY <1>1, <1>2, <1>4, <2>1, <2>2, CountPushed
<1>11. Len(cstack') > 0
  BY <1>1, <1>2, <1>4, Pushed
<1>12. Data'
  BY DEF UnwindInv, Data, CallBack, CallFrom
<1> QED BY <1>6, <1>9, <1>10, <1>11, <1>12 DEF UnwindInv

LEMMA CallContainedKeeps ==
  ASSUME UnwindInv, CallContained
  PROVE  UnwindInv'
<1> DEFINE e  == Entry("contain")
           f  == Entry("fn")
           cs == Append(cstack, e)
           h  == [at |-> Len(cstack) + 1, frames |-> Len(frames), cleanups |-> Len(cleanups)]
           g  == NewFrame(Len(cs) + 1)
<1>1. e \in Entries /\ e.kind = "contain" /\ f \in Entries /\ f.kind = "fn"
  BY EntriesTyped DEF Kinds
<1>2. cs \in Seq(Entries) /\ Len(cs) = Len(cstack) + 1 /\ Len(cstack) \in Nat /\ Len(cs) > 0
  BY <1>1, StackTyped, Pushed
<1>3. g \in FEntries /\ g.at = Len(cs) + 1 /\ h \in HEntries
  BY <1>2, EntriesTyped, StackTyped DEF HEntries
<1>4. cstack' = Append(cs, f)
  BY <1>1, StackTyped, PushedTwo DEF CallContained, CallFrom
<1>5. frames' = Append(frames, g)
  <2>1. Len(cstack) + Len(<<1>>) + 1 = Len(cs) + 1
    BY <1>2
  <2> QED BY <2>1 DEF CallContained, PushFrame
<1>6. handlers' = Append(handlers, h) /\ cleanups' = cleanups /\ recover' = recover + 1
  BY DEF CallContained, Prepared
<1>7. ended = "no" /\ Len(cstack) > 0
  BY DEF CallContained, Code, UnwindInv
<1>8. Shape(cs, Append(handlers, h), frames, cleanups)
  BY <1>1, <1>3, <1>7, PushHandler DEF UnwindInv, HasHandler
<1> HIDE DEF g, h
<1>9. Shape(cstack', handlers', frames', cleanups')
  BY <1>1, <1>3, <1>4, <1>5, <1>6, <1>8, PushFunction DEF HasFrame
<1>10. Count(cstack', {"contain"}) = Count(cstack, {"contain"}) + 1
  <2>1. Count(cs, {"contain"}) = Count(cstack, {"contain"}) + 1
    BY <1>1, StackTyped, CountPushed
  <2> HIDE DEF cs, e, f
  <2>2. f.kind \notin {"contain"}
    BY <1>1
  <2> QED BY <1>1, <1>2, <1>4, <2>1, <2>2, CountPushed
<1>11. Len(cstack') > 0
  BY <1>1, <1>2, <1>4, Pushed
<1>12. Data'
  BY DEF UnwindInv, Data, CallContained, CallFrom
<1> QED BY <1>6, <1>9, <1>10, <1>11, <1>12 DEF UnwindInv

(* The first function of the thread has its frame as long as it is there. *)
LEMMA FirstFrame ==
  ASSUME NEW cs, NEW hs, NEW fs, NEW cl, Shape(cs, hs, fs, cl), Len(cs) > 0
  PROVE  Len(fs) \in 1 .. Len(fs)
<1>1. cs \in Seq(Entries) /\ hs \in Seq(HEntries) /\ fs \in Seq(FEntries)
  BY DEF Shape, Typed
<1>2. /\ Len(Ats(fs)) = Len(fs) /\ Len(fs) \in Nat
      /\ \A i \in 1 .. Len(Ats(hs)) : Ats(hs)[i] \in 1 .. Len(cs)
  <2>1. \A i \in 1 .. Len(Ats(hs)) : Ats(hs)[i] \in 1 .. Len(cs)
    BY DEF Shape, Track
  <2> QED BY <1>1, <2>1, FrameLists, LenProperties
<1>3. 1 \in 1 .. Len(cs) /\ cs[1].kind \in HasFrame
  <2>1. Len(cs) \in Nat
    BY <1>1, LenProperties
  <2> QED BY <2>1 DEF Shape, Based
<1>4. ~Unwound(1, cs, Ats(hs))
  <2>1. SUFFICES ASSUME Unwound(1, cs, Ats(hs)) PROVE FALSE
    OBVIOUS
  <2>2. PICK t \in 1 .. Len(cs) :
          cs[t].kind = "throw" /\ \A i \in 1 .. Len(Ats(hs)) : Ats(hs)[i] < 1 \/ Ats(hs)[i] > t
    BY <2>1 DEF Unwound
  <2>3. PICK i \in 1 .. Len(Ats(hs)) : Ats(hs)[i] < t
    BY <2>2 DEF Shape, Caught
  <2> QED BY <1>2, <2>2, <2>3
<1>5. \E i \in 1 .. Len(Ats(fs)) : Ats(fs)[i] = 1
  BY <1>3, <1>4 DEF Shape, CoverOrUnwound
<1> QED BY <1>2, <1>5

LEMMA DeferKeeps ==
  ASSUME UnwindInv, Defer
  PROVE  UnwindInv'
<1>1. Len(frames) \in 1 .. Len(frames)
  BY FirstFrame DEF UnwindInv, Defer, Code
<1>2. frames[Len(frames)].defers + 1 \in Nat
  <2>1. frames[Len(frames)] \in FEntries
    BY <1>1, StackTyped, ElementOfSeq
  <2> QED BY <2>1 DEF FEntries
<1>3. frames' = [frames EXCEPT ![Len(frames)].defers = frames[Len(frames)].defers + 1]
  BY DEF Defer
<1>4. /\ cstack' = cstack /\ handlers' = handlers /\ cleanups' = cleanups /\ recover' = recover
      /\ ended' = ended
  BY DEF Defer
<1>5. Shape(cstack', handlers', frames', cleanups')
  BY <1>1, <1>2, <1>3, <1>4, DefersChange DEF UnwindInv
<1>6. Data'
  BY DEF UnwindInv, Data, Defer
<1> QED BY <1>4, <1>5, <1>6 DEF UnwindInv

LEMMA EnterTryKeeps ==
  ASSUME UnwindInv, NEW kind \in {"try", "tryf"}, EnterTry(kind)
  PROVE  UnwindInv'
<1> DEFINE e == Entry(kind)
           h == [at |-> Len(cstack) + 1, frames |-> Len(frames), cleanups |-> Len(cleanups)]
<1>1. e \in Entries /\ e.kind = kind /\ h \in HEntries
  BY EntriesTyped, StackTyped DEF Kinds, HEntries
<1>2. /\ cstack' = Append(cstack, e) /\ handlers' = Append(handlers, h) /\ frames' = frames
      /\ cleanups' = cleanups /\ recover' = recover
  BY DEF EnterTry, Prepared
<1>3. Len(cstack) > 0
  BY DEF EnterTry, Code, UnwindInv
<1>4. Shape(cstack', handlers', frames', cleanups')
  BY <1>1, <1>2, <1>3, PushHandler DEF UnwindInv, HasHandler
<1> HIDE DEF e, h
<1>5. Count(cstack', {"contain"}) = Count(cstack, {"contain"})
  <2>1. e.kind \notin {"contain"}
    BY <1>1
  <2> QED BY <1>1, <1>2, <2>1, StackTyped, CountPushed
<1>6. Len(cstack') > 0
  BY <1>1, <1>2, StackTyped, Pushed
<1>7. Data'
  BY DEF UnwindInv, Data, EnterTry
<1> QED BY <1>2, <1>4, <1>5, <1>6, <1>7 DEF UnwindInv

(* What the top of the C stack was when it is taken off. *)
LEMMA TopOff ==
  ASSUME UnwindInv, ended = "no"
  PROVE  /\ Len(cstack) > 0 /\ Top = cstack[Len(cstack)] /\ Top \in Entries /\ Below = Front(cstack)
         /\ Below \in Seq(Entries) /\ Len(Below) = Len(cstack) - 1
         /\ Top.kind \notin HasFrame => Len(Below) > 0
         /\ Count(Below, {"contain"}) \in Nat
         /\ Count(cstack, {"contain"}) = IF Top.kind = "contain" THEN Count(Below, {"contain"}) + 1
                                                                 ELSE Count(Below, {"contain"})
<1>1. Len(cstack) > 0 /\ Len(cstack) \in 1 .. Len(cstack)
  BY StackTyped DEF UnwindInv
<1>2. Top = cstack[Len(cstack)] /\ Below = Front(cstack)
  BY DEF Top, Last, Below
<1>3. Top \in Entries
  BY <1>1, <1>2, StackTyped, ElementOfSeq
<1>4. /\ Below \in Seq(Entries) /\ Len(Below) = Len(cstack) - 1
      /\ Top.kind \notin HasFrame => Len(Below) > 0
  BY <1>1, <1>2, StackTyped, PopLength
<1>5. Count(cstack, {"contain"}) = IF Top.kind \in {"contain"} THEN Count(Below, {"contain"}) + 1
                                                               ELSE Count(Below, {"contain"})
  BY <1>1, <1>2, StackTyped, CountTop
<1>6. Count(Below, {"contain"}) \in Nat
  BY <1>4, PlacesFinite
<1> QED BY <1>1, <1>2, <1>3, <1>4, <1>5, <1>6

LEMMA PutPlain ==
  ASSUME NEW cs, NEW hs, NEW fs, NEW cl, Shape(cs, hs, fs, cl), Len(cs) > 0,
         NEW e \in Entries, e.kind \in {"clause", "finally"}
  PROVE  /\ Shape(Append(cs, e), hs, fs, cl) /\ Len(Append(cs, e)) > 0
         /\ Count(Append(cs, e), {"contain"}) = Count(cs, {"contain"})
<1>1. cs \in Seq(Entries) /\ Len(cs) \in Nat
  BY LenProperties DEF Shape, Typed
<1>2. e.kind \notin HasHandler \cup HasFrame \cup HasCleanup /\ e.kind # "throw"
  BY DEF HasHandler, HasFrame, HasCleanup
<1>3. Shape(Append(cs, e), hs, fs, cl)
  BY <1>2, PushPlain
<1>4. Count(Append(cs, e), {"contain"}) = Count(cs, {"contain"})
  <2>1. e.kind \notin {"contain"}
    OBVIOUS
  <2> QED BY <1>1, <2>1, CountPushed
<1>5. Len(Append(cs, e)) > 0
  BY <1>1, Pushed
<1> QED BY <1>3, <1>4, <1>5

LEMMA LeaveTryKeeps ==
  ASSUME UnwindInv, LeaveTry
  PROVE  UnwindInv'
<1>1. ended = "no" /\ Top.kind \in {"try", "tryf"}
  BY DEF LeaveTry
<1>2. Top.kind \in HasHandler /\ Top.kind \notin HasFrame /\ Top.kind # "contain"
  BY <1>1 DEF HasHandler, HasFrame
<1>3. /\ handlers' = Front(handlers) /\ frames' = frames /\ cleanups' = cleanups
      /\ recover' = recover
  BY DEF LeaveTry
<1>4. Shape(Below, handlers', frames', cleanups')
  BY <1>1, <1>2, <1>3, TopOff, PopHandler DEF UnwindInv
<1>5. Len(Below) > 0 /\ Count(Below, {"contain"}) = recover
  BY <1>1, <1>2, TopOff DEF UnwindInv
<1>6. /\ Shape(cstack', handlers', frames', cleanups') /\ Len(cstack') > 0
      /\ Count(cstack', {"contain"}) = recover
  <2>1. CASE Top.kind = "try"
    BY <1>4, <1>5, <2>1 DEF LeaveTry
  <2>2. CASE Top.kind # "try"
    <3>1. cstack' = Append(Below, Finally(None))
      BY <2>2 DEF LeaveTry
    <3> QED BY <1>4, <1>5, <3>1, EntriesTyped, PutPlain
  <2> QED BY <2>1, <2>2
<1>7. Data'
  BY DEF UnwindInv, Data, LeaveTry
<1> QED BY <1>3, <1>6, <1>7 DEF UnwindInv

LEMMA LeaveClauseKeeps ==
  ASSUME UnwindInv, LeaveClause
  PROVE  UnwindInv'
<1>1. ended = "no" /\ Top.kind = "clause"
  BY DEF LeaveClause
<1>2. /\ Top.kind \notin HasHandler \cup HasFrame \cup HasCleanup \cup {"throw"}
      /\ Top.kind \notin HasFrame /\ Top.kind # "contain"
  BY <1>1 DEF HasHandler, HasFrame, HasCleanup
<1>3. /\ handlers' = handlers /\ frames' = frames /\ cleanups' = cleanups /\ recover' = recover
      /\ cstack' = Append(Below, Finally(None))
  BY DEF LeaveClause
<1>4. Shape(Below, handlers', frames', cleanups')
  BY <1>1, <1>2, <1>3, TopOff, PopPlain DEF UnwindInv
<1>5. Len(Below) > 0 /\ Count(Below, {"contain"}) = recover
  BY <1>1, <1>2, TopOff DEF UnwindInv
<1>6. /\ Shape(cstack', handlers', frames', cleanups') /\ Len(cstack') > 0
      /\ Count(cstack', {"contain"}) = recover
  BY <1>3, <1>4, <1>5, EntriesTyped, PutPlain
<1>7. Data'
  BY DEF UnwindInv, Data, LeaveClause
<1> QED BY <1>3, <1>6, <1>7 DEF UnwindInv

LEMMA LeaveFinallyKeeps ==
  ASSUME UnwindInv, LeaveFinally
  PROVE  UnwindInv'
<1>1. ended = "no" /\ Top.kind = "finally"
  BY DEF LeaveFinally
<1>2. /\ Top.kind \notin HasHandler \cup HasFrame \cup HasCleanup \cup {"throw"}
      /\ Top.kind \notin HasFrame /\ Top.kind # "contain"
  BY <1>1 DEF HasHandler, HasFrame, HasCleanup
<1>3. /\ handlers' = handlers /\ frames' = frames /\ cleanups' = cleanups /\ recover' = recover
  BY DEF LeaveFinally
<1>4. Shape(Below, handlers, frames, cleanups)
  BY <1>1, <1>2, TopOff, PopPlain DEF UnwindInv
<1>5. Len(Below) > 0 /\ Count(Below, {"contain"}) = recover
  BY <1>1, <1>2, TopOff DEF UnwindInv
<1>6. /\ Shape(cstack', handlers, frames, cleanups) /\ Len(cstack') > 0
      /\ Count(cstack', {"contain"}) = recover
      /\ pending' \in Excs \cup {None} /\ ended' \in {"no", "returned", "uncaught", "fatal"}
  <2>1. CASE Top.exc = None
    BY <1>1, <1>4, <1>5, <2>1 DEF LeaveFinally, UnwindInv, Data
  <2>2. CASE Top.exc # None
    <3>1. Raise(Top.exc, handlers, Below)
      BY <2>2 DEF LeaveFinally
    <3>2. Top.exc \in Excs \cup {None}
      BY <1>1, TopOff DEF Entries
    <3> QED BY <1>1, <1>4, <1>5, <3>1, <3>2, RaiseKeeps
  <2> QED BY <2>1, <2>2
<1>7. Data'
  BY <1>6 DEF UnwindInv, Data, LeaveFinally
<1> QED BY <1>3, <1>6, <1>7 DEF UnwindInv

LEMMA RaisedTyped ==
  ASSUME UnwindInv, raised < MaxThrows, NEW fault \in BOOLEAN
  PROVE  [n |-> raised + 1, fault |-> fault] \in Excs \cup {None}
<1>1. raised \in Nat /\ MaxThrows \in Nat
  BY BoundAssumption DEF UnwindInv, Data
<1> QED BY <1>1 DEF Excs

LEMMA ThrowKeeps ==
  ASSUME UnwindInv, Throw
  PROVE  UnwindInv'
<1>1. ended = "no" /\ raised < MaxThrows /\ Len(cstack) > 0
  BY DEF Throw, MayRaise, Code, UnwindInv
<1>2. Raise([n |-> raised + 1, fault |-> FALSE], handlers, cstack)
  BY DEF Throw
<1>3. /\ handlers' = handlers /\ frames' = frames /\ cleanups' = cleanups /\ recover' = recover
  BY DEF Throw
<1>4. /\ Shape(cstack', handlers, frames, cleanups) /\ Len(cstack') > 0
      /\ Count(cstack', {"contain"}) = Count(cstack, {"contain"})
      /\ pending' \in Excs \cup {None} /\ ended' \in {"no", "returned", "uncaught", "fatal"}
  BY <1>1, <1>2, RaisedTyped, RaiseKeeps DEF UnwindInv
<1>5. Data'
  BY <1>4 DEF UnwindInv, Data, Throw
<1> QED BY <1>3, <1>4, <1>5 DEF UnwindInv

LEMMA FaultKeeps ==
  ASSUME UnwindInv, Fault
  PROVE  UnwindInv'
<1>1. ended = "no" /\ raised < MaxThrows /\ Len(cstack) > 0
  BY DEF Fault, MayRaise, Code, UnwindInv
<1>2. /\ handlers' = handlers /\ frames' = frames /\ cleanups' = cleanups /\ recover' = recover
  BY DEF Fault
<1>3. /\ Shape(cstack', handlers, frames, cleanups) /\ Len(cstack') > 0
      /\ Count(cstack', {"contain"}) = Count(cstack, {"contain"})
      /\ pending' \in Excs \cup {None} /\ ended' \in {"no", "returned", "uncaught", "fatal"}
  <2>1. CASE recover > 0 /\ handlers # <<>>
    <3>1. Raise([n |-> raised + 1, fault |-> TRUE], handlers, cstack)
      BY <2>1 DEF Fault
    <3> QED BY <1>1, <3>1, RaisedTyped, RaiseKeeps DEF UnwindInv
  <2>2. CASE ~(recover > 0 /\ handlers # <<>>)
    BY <1>1, <2>2 DEF Fault, UnwindInv, Data
  <2> QED BY <2>1, <2>2
<1>4. Data'
  BY <1>3 DEF UnwindInv, Data, Fault
<1> QED BY <1>2, <1>3, <1>4 DEF UnwindInv

LEMMA RunDeferKeeps ==
  ASSUME UnwindInv, ended = "no", RunDefer
  PROVE  UnwindInv'
<1> DEFINE e  == Entry("defer")
           f  == Entry("fn")
           cs == Append(cstack, e)
           g  == NewFrame(Len(cs) + 1)
           fs == [frames EXCEPT ![Len(frames)].defers = frames[Len(frames)].defers - 1]
<1>1. e \in Entries /\ e.kind = "defer" /\ f \in Entries /\ f.kind = "fn"
  BY EntriesTyped DEF Kinds
<1>2. /\ cs \in Seq(Entries) /\ Len(cs) = Len(cstack) + 1 /\ Len(cstack) \in Nat /\ Len(cs) > 0
      /\ Len(cstack) > 0
  BY <1>1, StackTyped, Pushed DEF UnwindInv
<1>3. g \in FEntries /\ g.at = Len(cs) + 1
  BY <1>2, EntriesTyped
<1>4. cstack' = Append(cs, f)
  BY <1>1, StackTyped, PushedTwo DEF RunDefer
<1>5. frames' = Append(fs, g)
  <2>1. Len(cstack) + 2 = Len(cs) + 1
    BY <1>2
  <2> QED BY <2>1 DEF RunDefer
<1>6. /\ handlers' = handlers /\ cleanups' = Append(cleanups, Len(cstack) + 1)
      /\ recover' = recover /\ ended' = ended
  BY DEF RunDefer
<1>7. Len(frames) \in 1 .. Len(frames)
  BY <1>2, FirstFrame DEF UnwindInv
<1>8. frames[Len(frames)].defers - 1 \in Nat
  <2>1. frames[Len(frames)] \in FEntries
    BY <1>7, StackTyped, ElementOfSeq
  <2>2. frames[Len(frames)].defers > 0
    BY DEF RunDefer, Last
  <2> QED BY <2>1, <2>2 DEF FEntries
<1>9. Shape(cstack, handlers, fs, cleanups)
  BY <1>7, <1>8, DefersChange DEF UnwindInv
<1> HIDE DEF fs, g
<1>10. Shape(cs, handlers, fs, Append(cleanups, Len(cstack) + 1))
  BY <1>1, <1>2, <1>9, PushCleanup DEF HasCleanup
<1>11. Shape(cstack', handlers', frames', cleanups')
  BY <1>1, <1>3, <1>4, <1>5, <1>6, <1>10, PushFunction DEF HasFrame
<1>12. Count(cstack', {"contain"}) = Count(cstack, {"contain"})
  <2>1. Count(cs, {"contain"}) = Count(cstack, {"contain"})
    BY <1>1, StackTyped, CountPushed
  <2> HIDE DEF cs, e, f
  <2>2. f.kind \notin {"contain"}
    BY <1>1
  <2> QED BY <1>1, <1>2, <1>4, <2>1, <2>2, CountPushed
<1>13. Len(cstack') > 0
  BY <1>1, <1>2, <1>4, Pushed
<1>14. Data'
  BY DEF UnwindInv, Data, RunDefer
<1> QED BY <1>6, <1>11, <1>12, <1>13, <1>14 DEF UnwindInv

LEMMA StartReturnKeeps ==
  ASSUME UnwindInv, StartReturn
  PROVE  UnwindInv'
<1> DEFINE e == Entry("exit")
           f == frames[Len(frames)]
<1>1. ended = "no" /\ Top.kind = "fn"
  BY DEF StartReturn
<1>2. e \in Entries /\ e.kind = "exit"
  BY EntriesTyped DEF Kinds
<1>3. /\ Shape(Below, handlers, Front(frames), cleanups)
      /\ Len(frames) \in 1 .. Len(frames) /\ f.at = Len(cstack)
  BY <1>1, TopOff, PopFunction DEF UnwindInv, HasFrame
<1>4. f \in FEntries /\ Append(Front(frames), f) = frames
  <2>1. f \in FEntries
    BY <1>3, StackTyped, ElementOfSeq
  <2>2. Len(frames) \in Nat /\ Len(frames) - 1 \in 0 .. Len(frames)
    BY <1>3, StackTyped
  <2>3. /\ Front(frames) \in Seq(FEntries) /\ Len(Front(frames)) = Len(frames) - 1
        /\ \A i \in 1 .. Len(frames) - 1 : Front(frames)[i] = frames[i]
    BY <2>2, StackTyped, Cut DEF Front
  <2> HIDE DEF f
  <2>4. /\ Append(Front(frames), f) \in Seq(FEntries)
        /\ Len(Append(Front(frames), f)) = Len(frames)
        /\ Append(Front(frames), f)[Len(frames)] = f
        /\ \A i \in 1 .. Len(frames) - 1 : Append(Front(frames), f)[i] = frames[i]
    <3>1. /\ Append(Front(frames), f) \in Seq(FEntries)
          /\ Len(Append(Front(frames), f)) = Len(Front(frames)) + 1
          /\ Append(Front(frames), f)[Len(Front(frames)) + 1] = f
          /\ \A i \in 1 .. Len(Front(frames)) : Append(Front(frames), f)[i] = Front(frames)[i]
      BY <2>1, <2>3, Pushed
    <3> QED BY <2>2, <2>3, <3>1
  <2>5. \A i \in 1 .. Len(frames) : i \in 1 .. Len(frames) - 1 \/ i = Len(frames)
    BY <2>2
  <2>6. f = frames[Len(frames)]
    BY DEF f
  <2>7. \A i \in 1 .. Len(frames) : Append(Front(frames), f)[i] = frames[i]
    BY <2>4, <2>5, <2>6
  <2>8. Append(Front(frames), f) = frames
    BY <2>4, <2>7, StackTyped, SeqEqual
  <2> QED BY <2>1, <2>8
<1>5. /\ handlers' = handlers /\ frames' = frames /\ cleanups' = cleanups /\ recover' = recover
      /\ cstack' = Append(Below, e)
  BY DEF StartReturn
<1> HIDE DEF e, f
<1>6. f.at = Len(Below) + 1 /\ Below \in Seq(Entries)
  BY <1>1, <1>3, StackTyped, TopOff
<1>7. Shape(cstack', handlers', frames', cleanups')
  <2>1. Shape(Append(Below, e), handlers, Append(Front(frames), f), cleanups)
    BY <1>2, <1>3, <1>4, <1>6, PushFunction DEF HasFrame
  <2> QED BY <1>4, <1>5, <2>1
<1>8. Count(cstack', {"contain"}) = recover
  <2>1. Count(Below, {"contain"}) = recover
    BY <1>1, TopOff DEF UnwindInv
  <2>2. e.kind \notin {"contain"}
    BY <1>2
  <2> QED BY <1>2, <1>5, <1>6, <2>1, <2>2, CountPushed
<1>9. Len(cstack') > 0
  BY <1>2, <1>5, <1>6, Pushed
<1>10. Data'
  BY DEF UnwindInv, Data, StartReturn
<1> QED BY <1>5, <1>7, <1>8, <1>9, <1>10 DEF UnwindInv

LEMMA ReturnKeeps ==
  ASSUME UnwindInv, Return
  PROVE  UnwindInv'
<1>1. ended = "no" /\ Top.kind = "exit"
  BY DEF Return
<1>2. /\ handlers' = handlers /\ frames' = Front(frames) /\ cleanups' = cleanups
      /\ recover' = recover /\ cstack' = Below
      /\ ended' = IF Below = <<>> THEN "returned" ELSE "no"
  BY DEF Return
<1>3. Shape(cstack', handlers', frames', cleanups')
  BY <1>1, <1>2, TopOff, PopFunction DEF UnwindInv, HasFrame
<1>4. Count(cstack', {"contain"}) = recover
  BY <1>1, <1>2, TopOff DEF UnwindInv
<1>5. ended' = "no" => Len(cstack') > 0
  <2>1. Below # <<>> => Len(Below) > 0
    BY <1>1, TopOff, NotEmpty
  <2> QED BY <1>2, <2>1
<1>6. Data'
  BY <1>2 DEF UnwindInv, Data, Return
<1> QED BY <1>2, <1>3, <1>4, <1>5, <1>6 DEF UnwindInv

LEMMA CallBackReturnedKeeps ==
  ASSUME UnwindInv, CallBackReturned
  PROVE  UnwindInv'
<1>1. ended = "no" /\ Top.kind \in {"native", "defer"}
  BY DEF CallBackReturned
<1>2. Top.kind \in HasCleanup /\ Top.kind \notin HasFrame /\ Top.kind # "contain"
  BY <1>1 DEF HasCleanup, HasFrame
<1>3. /\ handlers' = handlers /\ frames' = frames /\ cleanups' = Front(cleanups)
      /\ recover' = recover /\ cstack' = Below
  BY DEF CallBackReturned
<1>4. Shape(cstack', handlers', frames', cleanups')
  BY <1>1, <1>2, <1>3, TopOff, PopCleanup DEF UnwindInv
<1>5. Count(cstack', {"contain"}) = recover /\ Len(cstack') > 0
  BY <1>1, <1>2, <1>3, TopOff DEF UnwindInv
<1>6. Data'
  BY DEF UnwindInv, Data, CallBackReturned
<1> QED BY <1>3, <1>4, <1>5, <1>6 DEF UnwindInv

LEMMA ContainedReturnedKeeps ==
  ASSUME UnwindInv, ContainedReturned
  PROVE  UnwindInv'
<1>1. ended = "no" /\ Top.kind = "contain"
  BY DEF ContainedReturned
<1>2. Top.kind \in HasHandler /\ Top.kind \notin HasFrame
  BY <1>1 DEF HasHandler, HasFrame
<1>3. /\ handlers' = Front(handlers) /\ frames' = frames /\ cleanups' = cleanups
      /\ recover' = recover - 1 /\ cstack' = Below
  BY DEF ContainedReturned
<1>4. Shape(cstack', handlers', frames', cleanups')
  BY <1>1, <1>2, <1>3, TopOff, PopHandler DEF UnwindInv
<1>5. Count(cstack', {"contain"}) = recover - 1 /\ Len(cstack') > 0
  BY <1>1, <1>2, <1>3, TopOff DEF UnwindInv
<1>6. Data'
  BY DEF UnwindInv, Data, ContainedReturned
<1> QED BY <1>3, <1>4, <1>5, <1>6 DEF UnwindInv

-----------------------------------------------------------------------------
LEMMA UnwindPopsKeeps ==
  ASSUME UnwindInv, UnwindPops
  PROVE  UnwindInv'
<1>1. ended = "no" /\ Top.kind = "throw" /\ Len(frames) > Last(handlers).frames
  BY DEF UnwindPops, Unwinding, FramesAbove, Target
<1>2. /\ handlers' = handlers /\ frames' = Front(frames) /\ cleanups' = cleanups
      /\ recover' = recover /\ cstack' = cstack /\ ended' = ended
  BY DEF UnwindPops
<1>3. Shape(cstack', handlers', frames', cleanups')
  BY <1>1, <1>2, TopOff, UnwindPopsFrame DEF UnwindInv
<1>4. Data'
  BY DEF UnwindInv, Data, UnwindPops
<1> QED BY <1>2, <1>3, <1>4 DEF UnwindInv

(* What is left when a throw arrives at its handler. *)
LEMMA DeliverKeeps ==
  ASSUME UnwindInv, NEW kind \in {"try", "tryf", "contain"}, Deliver(kind)
  PROVE  /\ Shape(StackLeft, handlers', frames', cleanups') /\ Len(StackLeft) > 0
         /\ handlers' = Front(handlers)
         /\ Count(StackLeft, {"contain"}) = IF kind = "contain" THEN recover - 1 ELSE recover
         /\ ended = "no" /\ pending \in Excs \cup {None}
         /\ {entered', raised', deferred', ran'} \subseteq Nat /\ handled' \in BOOLEAN
<1> DEFINE n == Last(handlers).at - 1
<1>1. /\ ended = "no" /\ Top.kind = "throw" /\ ~(Len(frames) > Last(handlers).frames)
      /\ cstack[Last(handlers).at].kind = kind
  BY DEF Deliver, Unwinding, FramesAbove, Target
<1>2. /\ handlers' = Front(handlers) /\ frames' = frames
      /\ cleanups' = SubSeq(cleanups, 1, Last(handlers).cleanups)
      /\ StackLeft = SubSeq(cstack, 1, n)
  BY DEF Deliver, CleanupsLeft, StackLeft, Target
<1>3. Len(cstack) > 0 /\ cstack[Len(cstack)].kind = "throw" /\ Len(cstack) \in Nat
  BY <1>1, StackTyped, TopOff
<1>4. Shape(StackLeft, handlers', frames', cleanups') /\ n \in 1 .. Len(cstack)
  BY <1>1, <1>2, <1>3, DeliverCuts DEF UnwindInv
<1>5. Last(handlers).at \in 1 .. Len(cstack) /\ Last(handlers) = handlers[Len(handlers)]
  BY <1>3, HasTarget DEF UnwindInv, Last
<1>6. Len(StackLeft) > 0 /\ n \in 0 .. Len(cstack) /\ n + 1 = Last(handlers).at
  <2>1. n \in 0 .. Len(cstack) /\ n > 0 /\ n + 1 = Last(handlers).at
    BY <1>3, <1>4, <1>5
  <2>2. Len(SubSeq(cstack, 1, n)) = n
    BY <2>1, StackTyped, Cut
  <2> QED BY <1>2, <2>1, <2>2
<1>7. ASSUME NEW k \in 1 .. Len(cstack), k > n + 1 PROVE cstack[k].kind \notin {"contain"}
  <2>1. SUFFICES ASSUME cstack[k].kind = "contain" PROVE FALSE
    OBVIOUS
  <2>2. PICK i \in 1 .. Len(Ats(handlers)) : Ats(handlers)[i] = k
    BY <2>1 DEF UnwindInv, Shape, Cover, HasHandler
  <2>3. Len(Ats(handlers)) = Len(handlers) /\ Len(handlers) \in Nat
    BY StackTyped, HandlerLists
  <2>4. /\ Ats(handlers)[Len(handlers)] = Last(handlers).at
        /\ \A j \in 1 .. Len(handlers) : j < Len(handlers) => Ats(handlers)[j] < Last(handlers).at
    BY <1>3, <1>5, HasTarget DEF UnwindInv
  <2>5. k <= Last(handlers).at
    BY <1>5, <2>2, <2>3, <2>4
  <2> QED BY <1>3, <1>5, <1>6, <1>7, <2>5
<1>8. Count(cstack, {"contain"}) = IF kind \in {"contain"} THEN Count(StackLeft, {"contain"}) + 1
                                                         ELSE Count(StackLeft, {"contain"})
  <2>1. n + 1 \in 1 .. Len(cstack) /\ cstack[n + 1].kind = kind
    BY <1>1, <1>5, <1>6
  <2> HIDE DEF n
  <2> QED BY <1>2, <1>6, <1>7, <2>1, StackTyped, CountCut
<1>9. Count(StackLeft, {"contain"}) \in Nat
  BY <1>4, PlacesFinite DEF Shape, Typed
<1>10. Count(StackLeft, {"contain"}) = IF kind = "contain" THEN recover - 1 ELSE recover
  BY <1>8, <1>9 DEF UnwindInv
<1>11. {entered', raised', deferred', ran'} \subseteq Nat
  BY DEF UnwindInv, Data, Deliver
<1>12. handled' \in BOOLEAN
  BY DEF UnwindInv, Data, Deliver, HandledInside
<1> QED BY <1>1, <1>2, <1>4, <1>6, <1>10, <1>11, <1>12 DEF UnwindInv, Data

LEMMA DeliverToTryKeeps ==
  ASSUME UnwindInv, DeliverToTry
  PROVE  UnwindInv'
<1>1. Deliver("try") /\ recover' = recover
  BY DEF DeliverToTry
<1>2. /\ Shape(StackLeft, handlers', frames', cleanups') /\ Len(StackLeft) > 0
      /\ handlers' = Front(handlers) /\ Count(StackLeft, {"contain"}) = recover
      /\ ended = "no" /\ pending \in Excs \cup {None}
      /\ {entered', raised', deferred', ran'} \subseteq Nat /\ handled' \in BOOLEAN
  BY <1>1, DeliverKeeps
<1>3. /\ Shape(cstack', handlers', frames', cleanups') /\ Len(cstack') > 0
      /\ Count(cstack', {"contain"}) = recover
      /\ pending' \in Excs \cup {None} /\ ended' \in {"no", "returned", "uncaught", "fatal"}
  <2>1. CASE cstack' = StackLeft /\ UNCHANGED <<pending, ended>>
    BY <1>2, <2>1
  <2>2. CASE Raise(pending, Front(handlers), StackLeft)
    BY <1>2, <2>2, RaiseKeeps
  <2> QED BY <2>1, <2>2 DEF DeliverToTry
<1> QED BY <1>1, <1>2, <1>3 DEF UnwindInv, Data

LEMMA DeliverToTryFinallyKeeps ==
  ASSUME UnwindInv, DeliverToTryFinally
  PROVE  UnwindInv'
<1>1. Deliver("tryf") /\ recover' = recover /\ pending' = pending /\ ended' = ended
  BY DEF DeliverToTryFinally
<1>2. /\ Shape(StackLeft, handlers', frames', cleanups') /\ Len(StackLeft) > 0
      /\ Count(StackLeft, {"contain"}) = recover
      /\ ended = "no" /\ pending \in Excs \cup {None}
      /\ {entered', raised', deferred', ran'} \subseteq Nat /\ handled' \in BOOLEAN
  BY <1>1, DeliverKeeps
<1>3. PICK e \in Entries : e.kind \in {"clause", "finally"} /\ cstack' = Append(StackLeft, e)
  <2>1. Entry("clause") \in Entries /\ Entry("clause").kind = "clause"
    BY EntriesTyped DEF Kinds
  <2>2. Finally(pending) \in Entries /\ Finally(pending).kind = "finally"
    BY <1>2, EntriesTyped
  <2> QED BY <2>1, <2>2 DEF DeliverToTryFinally
<1>4. /\ Shape(cstack', handlers', frames', cleanups') /\ Len(cstack') > 0
      /\ Count(cstack', {"contain"}) = recover
  BY <1>2, <1>3, PutPlain
<1> QED BY <1>1, <1>2, <1>4 DEF UnwindInv, Data

LEMMA DeliverToRecoveryPointKeeps ==
  ASSUME UnwindInv, DeliverToRecoveryPoint
  PROVE  UnwindInv'
<1>1. Deliver("contain") /\ recover' = recover - 1
  BY DEF DeliverToRecoveryPoint, PointLeft
<1>2. /\ Shape(StackLeft, handlers', frames', cleanups') /\ Len(StackLeft) > 0
      /\ handlers' = Front(handlers) /\ Count(StackLeft, {"contain"}) = recover - 1
      /\ ended = "no" /\ pending \in Excs \cup {None}
      /\ {entered', raised', deferred', ran'} \subseteq Nat /\ handled' \in BOOLEAN
  BY <1>1, DeliverKeeps
<1>3. /\ Shape(cstack', handlers', frames', cleanups') /\ Len(cstack') > 0
      /\ Count(cstack', {"contain"}) = recover - 1
      /\ pending' \in Excs \cup {None} /\ ended' \in {"no", "returned", "uncaught", "fatal"}
  <2>1. CASE pending.fault
    BY <1>2, <2>1 DEF DeliverToRecoveryPoint
  <2>2. CASE ~pending.fault
    <3>1. Raise(pending, Front(handlers), StackLeft)
      BY <2>2 DEF DeliverToRecoveryPoint
    <3> QED BY <1>2, <3>1, RaiseKeeps
  <2> QED BY <2>1, <2>2
<1> QED BY <1>1, <1>2, <1>3 DEF UnwindInv, Data

-----------------------------------------------------------------------------
LEMMA InitUnwind == Init => UnwindInv
<1> SUFFICES ASSUME Init PROVE UnwindInv
  OBVIOUS
<1> DEFINE e == Entry("fn")
           f == NewFrame(1)
<1>1. e \in Entries /\ e.kind = "fn" /\ f \in FEntries /\ f.at = 1
  BY EntriesTyped DEF Kinds
<1>2. /\ <<>> \in Seq(Entries) /\ <<>> \in Seq(HEntries) /\ <<>> \in Seq(FEntries)
      /\ <<>> \in Seq(Nat) /\ Len(<<>>) = 0
  OBVIOUS
<1>3. Len(Ats(<<>>)) = 0 /\ Ats(<<>>) \in Seq(Nat)
  BY <1>2, FrameLists
<1>4. Shape(<<>>, <<>>, <<>>, <<>>)
  <2>1. 1 .. 0 = {}
    OBVIOUS
  <2> QED BY <1>2, <1>3, <2>1
      DEF Shape, Typed, Track, Cover, CoverOrUnwound, Split, Caught, Based
<1>5. Append(<<>>, e) = <<e>> /\ Append(<<>>, f) = <<f>>
  <2>1. Append(<<>>, e) = <<>> \o <<e>> /\ Append(<<>>, f) = <<>> \o <<f>>
    BY <1>1, <1>2, AppendIsConcat
  <2>2. <<e>> \in Seq(Entries) /\ <<f>> \in Seq(FEntries)
    BY <1>1
  <2> QED BY <2>1, <2>2, ConcatEmptySeq
<1>6. cstack = <<e>> /\ handlers = <<>> /\ frames = <<f>> /\ cleanups = <<>>
  BY DEF Init
<1> HIDE DEF e, f
<1>7. Shape(cstack, handlers, frames, cleanups)
  <2>1. e.kind \in HasFrame /\ f.at = Len(<<>>) + 1
    BY <1>1, <1>2 DEF HasFrame
  <2>2. Shape(Append(<<>>, e), <<>>, Append(<<>>, f), <<>>)
    BY <1>1, <1>4, <2>1, PushFunction
  <2> QED BY <1>5, <1>6, <2>2
<1>8. recover = Count(cstack, {"contain"})
  <2>1. Places(<<>>, {"contain"}) = {}
    BY DEF Places
  <2>2. Count(<<>>, {"contain"}) = 0
    BY <2>1, FS_EmptySet DEF Count
  <2>3. e.kind \notin {"contain"}
    BY <1>1
  <2>4. Count(Append(<<>>, e), {"contain"}) = 0
    <3>1. Count(Append(<<>>, e), {"contain"}) =
            IF e.kind \in {"contain"} THEN Count(<<>>, {"contain"}) + 1 ELSE Count(<<>>, {"contain"})
      BY <1>1, <1>2, CountPushed
    <3> QED BY <2>2, <2>3, <3>1
  <2>5. recover = 0
    BY DEF Init
  <2> QED BY <1>5, <1>6, <2>4, <2>5
<1>9. Len(cstack) > 0
  BY <1>6
<1>10. Data
  <2>1. entered = 0 /\ raised = 0 /\ deferred = 0 /\ ran = 0 /\ handled = FALSE
    BY DEF Init
  <2>2. pending = None /\ ended = "no"
    BY DEF Init
  <2>3. {entered, raised, deferred, ran} \subseteq Nat
    BY <2>1
  <2>4. handled \in BOOLEAN
    BY <2>1
  <2>5. pending \in Excs \cup {None} /\ ended \in {"no", "returned", "uncaught", "fatal"}
    BY <2>2
  <2> QED BY <2>3, <2>4, <2>5 DEF Data
<1> QED BY <1>7, <1>8, <1>9, <1>10 DEF UnwindInv

LEMMA StepUnwind == UnwindInv /\ [Next]_vars => UnwindInv'
<1> SUFFICES ASSUME UnwindInv, [Next]_vars PROVE UnwindInv'
  OBVIOUS
<1>1. CASE Next
  <2>1. CASE Call \/ CallBack \/ CallContained \/ Defer
    BY <2>1, CallKeeps, CallBackKeeps, CallContainedKeeps, DeferKeeps
  <2>2. CASE \E kind \in {"try", "tryf"} : EnterTry(kind)
    BY <2>2, EnterTryKeeps
  <2>3. CASE LeaveTry \/ LeaveClause \/ LeaveFinally \/ Throw \/ Fault
    BY <2>3, LeaveTryKeeps, LeaveClauseKeeps, LeaveFinallyKeeps, ThrowKeeps, FaultKeeps
  <2>4. CASE StartReturn \/ Return \/ CallBackReturned \/ ContainedReturned
    BY <2>4, StartReturnKeeps, ReturnKeeps, CallBackReturnedKeeps, ContainedReturnedKeeps
  <2>5. CASE ReturnRunsDefer \/ UnwindRunsDefer
    BY <2>5, RunDeferKeeps DEF ReturnRunsDefer, UnwindRunsDefer, Unwinding
  <2>6. CASE UnwindPops \/ DeliverToTry \/ DeliverToTryFinally \/ DeliverToRecoveryPoint
    BY <2>6, UnwindPopsKeeps, DeliverToTryKeeps, DeliverToTryFinallyKeeps,
       DeliverToRecoveryPointKeeps
  <2> QED BY <1>1, <2>1, <2>2, <2>3, <2>4, <2>5, <2>6 DEF Next, Unwinds
<1>2. CASE UNCHANGED vars
  BY <1>2 DEF vars, UnwindInv, Data, Shape, Typed, Count, Places
<1> QED BY <1>1, <1>2

LEMMA UnwindInvariant == Spec => []UnwindInv
<1> QED BY InitUnwind, StepUnwind, PTL DEF Spec

-----------------------------------------------------------------------------
(* What Shape says of the properties. *)
LEMMA ListsAll ==
  ASSUME NEW cs \in Seq(Entries), NEW K, NEW p, Track(cs, K, p), Cover(cs, K, p)
  PROVE  Len(p) = Count(cs, K)
<1> DEFINE f == [i \in 1 .. Len(p) |-> p[i]]
           S == 1 .. Len(p)
           T == Places(cs, K)
<1>1. Len(p) \in Nat /\ Len(cs) \in Nat
  BY LenProperties DEF Track
<1>2. /\ \A i, j \in S : i < j => p[i] < p[j]
      /\ \A i \in S : p[i] \in 1 .. Len(cs) /\ cs[p[i]].kind \in K
  BY DEF Track
<1>3. f \in [S -> T]
  BY <1>2 DEF Places
<1>4. ASSUME NEW a \in S, NEW b \in S, f[a] = f[b] PROVE a = b
  <2>1. p[a] = p[b] /\ p[a] \in Nat /\ p[b] \in Nat
    BY <1>2, <1>4
  <2>2. ~(a < b) /\ ~(b < a)
    BY <1>2, <2>1
  <2> QED BY <1>1, <2>2
<1>5. ASSUME NEW t \in T PROVE \E i \in S : f[i] = t
  BY <1>5 DEF Places, Cover
<1> HIDE DEF f, S, T
<1>6. f \in Bijection(S, T)
  BY <1>3, <1>4, <1>5, Fun_IsBij
<1>7. ExistsBijection(S, T)
  BY <1>6, Fun_ExistsBij
<1>8. Cardinality(T) = Len(p)
  BY <1>1, <1>7, FS_CountingElements DEF S
<1> QED BY <1>8 DEF T, Count

LEMMA AllFrames ==
  ASSUME NEW cs, NEW hs, NEW fs, NEW cl, Shape(cs, hs, fs, cl), Count(cs, {"throw"}) = 0
  PROVE  Cover(cs, HasFrame, Ats(fs))
<1>1. cs \in Seq(Entries) /\ CoverOrUnwound(cs, Ats(hs), Ats(fs))
  BY DEF Shape, Typed
<1>2. Places(cs, {"throw"}) = {}
  BY <1>1, PlacesFinite, FS_EmptySet DEF Count
<1>3. \A k : ~Unwound(k, cs, Ats(hs))
  BY <1>2 DEF Unwound, Places
<1> QED BY <1>1, <1>3 DEF CoverOrUnwound, Cover

(* The state is of its types: in particular recover never becomes negative, *)
(* and no handler, frame or cleanup is taken off an empty stack.            *)
THEOREM TypeCorrect == Spec => []TypeOK
<1>1. UnwindInv => TypeOK
  <2> SUFFICES ASSUME UnwindInv PROVE TypeOK
    OBVIOUS
  <2>1. recover \in Nat
    BY StackTyped DEF UnwindInv
  <2> QED BY <2>1, StackTyped DEF TypeOK, UnwindInv, Data, Entries, HEntries, FEntries
<1> QED BY <1>1, UnwindInvariant, PTL

(* Every handler, frame and cleanup points to the entry of the C stack that *)
(* installed it, in the order of the stack, whatever has thrown, returned   *)
(* or been abandoned (err.c: vl_unwind_to, throw_to, vl_cleanup_to).        *)
THEOREM NothingDanglesEver == Spec => []NothingDangles
<1>1. UnwindInv => NothingDangles
  <2> SUFFICES ASSUME UnwindInv PROVE NothingDangles
    OBVIOUS
  <2>1. /\ Len(Ats(handlers)) = Len(handlers) /\ Len(Ats(frames)) = Len(frames)
        /\ Len(FrameMarks(handlers)) = Len(handlers) /\ Len(CleanupMarks(handlers)) = Len(handlers)
        /\ Len(cstack) \in Nat /\ Len(frames) \in Nat /\ Len(cleanups) \in Nat
    BY StackTyped, HandlerLists, FrameLists
  <2>2. /\ Track(cstack, HasHandler, Ats(handlers)) /\ Track(cstack, HasFrame, Ats(frames))
        /\ Track(cstack, HasCleanup, cleanups)
        /\ Split(Ats(handlers), FrameMarks(handlers), Ats(frames))
        /\ Split(Ats(handlers), CleanupMarks(handlers), cleanups)
    BY DEF UnwindInv, Shape
  <2>3. Increasing(Ats(handlers)) /\ Increasing(Ats(frames)) /\ Increasing(cleanups)
    BY <2>2 DEF Track, Increasing
  <2>4. ASSUME NEW i \in 1 .. Len(handlers)
        PROVE  /\ handlers[i].at <= Len(cstack)
               /\ cstack[handlers[i].at].kind \in {"try", "tryf", "contain"}
               /\ handlers[i].frames <= Len(frames) /\ handlers[i].cleanups <= Len(cleanups)
    <3>1. /\ Ats(handlers)[i] = handlers[i].at /\ FrameMarks(handlers)[i] = handlers[i].frames
          /\ CleanupMarks(handlers)[i] = handlers[i].cleanups
      BY DEF Ats, FrameMarks, CleanupMarks
    <3>2. Ats(handlers)[i] \in 1 .. Len(cstack) /\ cstack[Ats(handlers)[i]].kind \in HasHandler
      BY <2>1, <2>2 DEF Track
    <3>3. FrameMarks(handlers)[i] \in 0 .. Len(frames) /\ CleanupMarks(handlers)[i] \in 0 .. Len(cleanups)
      BY <2>1, <2>2 DEF Split
    <3> QED BY <2>1, <3>1, <3>2, <3>3 DEF HasHandler
  <2>5. ASSUME NEW i \in 1 .. Len(frames)
        PROVE  frames[i].at <= Len(cstack) /\ cstack[frames[i].at].kind \in {"fn", "exit"}
    <3>1. Ats(frames)[i] = frames[i].at
      BY DEF Ats
    <3>2. Ats(frames)[i] \in 1 .. Len(cstack) /\ cstack[Ats(frames)[i]].kind \in HasFrame
      BY <2>1, <2>2 DEF Track
    <3> QED BY <2>1, <3>1, <3>2 DEF HasFrame
  <2>6. ASSUME NEW i \in 1 .. Len(cleanups)
        PROVE  cleanups[i] <= Len(cstack) /\ cstack[cleanups[i]].kind \in {"native", "defer"}
    <3>1. cleanups[i] \in 1 .. Len(cstack) /\ cstack[cleanups[i]].kind \in HasCleanup
      BY <2>2 DEF Track
    <3> QED BY <2>1, <3>1 DEF HasCleanup
  <2> QED BY <2>3, <2>4, <2>5, <2>6 DEF NothingDangles
<1> QED BY <1>1, UnwindInvariant, PTL

(* While nothing is thrown there is exactly one handler, frame or cleanup   *)
(* for each entry of the C stack that has one (err.c: vl_unwind_to,         *)
(* vl_eh_current, vl_cleanup_to).                                           *)
THEOREM StacksAlwaysAgree == Spec => []StacksAgree
<1>1. UnwindInv => StacksAgree
  <2> SUFFICES ASSUME UnwindInv, Count(cstack, {"throw"}) = 0
               PROVE  /\ Len(frames) = Count(cstack, {"fn", "exit"})
                      /\ Len(handlers) = Count(cstack, {"try", "tryf", "contain"})
                      /\ Len(cleanups) = Count(cstack, {"native", "defer"})
    BY DEF StacksAgree, CountOf, Count, Places
  <2>1. /\ Len(Ats(handlers)) = Len(handlers) /\ Len(Ats(frames)) = Len(frames)
        /\ cstack \in Seq(Entries)
    BY StackTyped, HandlerLists, FrameLists
  <2>2. Len(frames) = Count(cstack, HasFrame)
    <3>1. Track(cstack, HasFrame, Ats(frames)) /\ Cover(cstack, HasFrame, Ats(frames))
      BY AllFrames DEF UnwindInv, Shape
    <3> QED BY <2>1, <3>1, ListsAll
  <2>3. Len(handlers) = Count(cstack, HasHandler)
    <3>1. Track(cstack, HasHandler, Ats(handlers)) /\ Cover(cstack, HasHandler, Ats(handlers))
      BY DEF UnwindInv, Shape
    <3> QED BY <2>1, <3>1, ListsAll
  <2>4. Len(cleanups) = Count(cstack, HasCleanup)
    <3>1. Track(cstack, HasCleanup, cleanups) /\ Cover(cstack, HasCleanup, cleanups)
      BY DEF UnwindInv, Shape
    <3> QED BY <2>1, <3>1, ListsAll
  <2> QED BY <2>2, <2>3, <2>4 DEF HasHandler, HasFrame, HasCleanup
<1> QED BY <1>1, UnwindInvariant, PTL

(* recover is the number of recovery points on the C stack, whether a call  *)
(* under one returned or threw (value.c: vl_call_contained).                *)
THEOREM RecoverIsExact == Spec => []RecoverExact
<1>1. UnwindInv => RecoverExact
  BY DEF UnwindInv, RecoverExact, CountOf, Count, Places
<1> QED BY <1>1, UnwindInvariant, PTL

-----------------------------------------------------------------------------
(* Defers.  *)

(* The defers pending on the frames fs. *)
Pend(fs) == UNION {{i} \X (1 .. fs[i].defers) : i \in 1 .. Len(fs)}

(* Each executed defer statement is in that set or has been run. *)
DeferInv == IsFiniteSet(Pend(frames)) /\ deferred = ran + Cardinality(Pend(frames))

LEMMA PendPair ==
  ASSUME NEW fs, NEW i, NEW k
  PROVE  <<i, k>> \in Pend(fs) <=> i \in 1 .. Len(fs) /\ k \in 1 .. fs[i].defers
BY DEF Pend

LEMMA PendEqual ==
  ASSUME NEW fs, NEW gs,
         \A i, k : (i \in 1 .. Len(fs) /\ k \in 1 .. fs[i].defers)
                   <=> (i \in 1 .. Len(gs) /\ k \in 1 .. gs[i].defers)
  PROVE  Pend(fs) = Pend(gs)
<1>1. \A p \in Pend(fs) : p \in Pend(gs)
  <2>1. SUFFICES ASSUME NEW p \in Pend(fs) PROVE p \in Pend(gs)
    OBVIOUS
  <2>2. PICK i, k : p = <<i, k>> /\ i \in 1 .. Len(fs) /\ k \in 1 .. fs[i].defers
    BY DEF Pend
  <2> QED BY <2>2, PendPair
<1>2. \A p \in Pend(gs) : p \in Pend(fs)
  <2>1. SUFFICES ASSUME NEW p \in Pend(gs) PROVE p \in Pend(fs)
    OBVIOUS
  <2>2. PICK i, k : p = <<i, k>> /\ i \in 1 .. Len(gs) /\ k \in 1 .. gs[i].defers
    BY DEF Pend
  <2> QED BY <2>2, PendPair
<1> QED BY <1>1, <1>2

(* A frame without defers, pushed or popped, changes nothing. *)
LEMMA PendPushed ==
  ASSUME NEW fs \in Seq(FEntries), NEW g \in FEntries, g.defers = 0
  PROVE  Pend(Append(fs, g)) = Pend(fs)
<1> DEFINE gs == Append(fs, g)
<1>1. /\ Len(fs) \in Nat /\ Len(gs) = Len(fs) + 1 /\ gs[Len(fs) + 1] = g
      /\ \A i \in 1 .. Len(fs) : gs[i] = fs[i]
      /\ \A i \in 1 .. Len(fs) + 1 : i \in 1 .. Len(fs) \/ i = Len(fs) + 1
  BY Pushed
<1> HIDE DEF gs
<1>2. \A i, k : (i \in 1 .. Len(gs) /\ k \in 1 .. gs[i].defers)
                <=> (i \in 1 .. Len(fs) /\ k \in 1 .. fs[i].defers)
  BY <1>1
<1>3. Pend(gs) = Pend(fs)
  BY <1>2, PendEqual
<1> QED BY <1>3 DEF gs

LEMMA PendPopped ==
  ASSUME NEW fs \in Seq(FEntries), Len(fs) \in 1 .. Len(fs), fs[Len(fs)].defers = 0
  PROVE  Pend(Front(fs)) = Pend(fs)
<1> DEFINE gs == Front(fs)
<1>1. Len(fs) \in Nat /\ Len(fs) - 1 \in 0 .. Len(fs)
  BY LenProperties
<1>2. Len(gs) = Len(fs) - 1 /\ \A i \in 1 .. Len(fs) - 1 : gs[i] = fs[i]
  BY <1>1, Cut DEF Front
<1> HIDE DEF gs
<1>3. \A i \in 1 .. Len(fs) : i \in 1 .. Len(fs) - 1 \/ i = Len(fs)
  BY <1>1
<1>4. \A i, k : (i \in 1 .. Len(gs) /\ k \in 1 .. gs[i].defers)
                <=> (i \in 1 .. Len(fs) /\ k \in 1 .. fs[i].defers)
  BY <1>1, <1>2, <1>3
<1>5. Pend(gs) = Pend(fs)
  BY <1>4, PendEqual
<1> QED BY <1>5 DEF gs

(* The newest defer of the top frame, put on or taken off. *)
LEMMA PendTop ==
  ASSUME NEW fs \in Seq(FEntries), Len(fs) \in 1 .. Len(fs), NEW d \in Nat, fs[Len(fs)].defers = d
  PROVE  LET more == [fs EXCEPT ![Len(fs)].defers = d + 1]
         IN  /\ more \in Seq(FEntries) /\ Len(more) = Len(fs) /\ more[Len(fs)].defers = d + 1
             /\ Pend(more) = Pend(fs) \cup {<<Len(fs), d + 1>>}
             /\ <<Len(fs), d + 1>> \notin Pend(fs)
<1> DEFINE f    == [fs[Len(fs)] EXCEPT !.defers = d + 1]
           more == [fs EXCEPT ![Len(fs)] = f]
<1>1. fs[Len(fs)] \in FEntries
  BY ElementOfSeq
<1>2. f \in FEntries /\ f.defers = d + 1
  BY <1>1 DEF FEntries
<1> HIDE DEF f
<1>3. /\ more \in Seq(FEntries) /\ Len(more) = Len(fs)
      /\ \A j \in 1 .. Len(fs) : more[j] = IF j = Len(fs) THEN f ELSE fs[j]
  BY <1>2, ExceptSeq
<1> HIDE DEF more
<1>4. \A k : k \in 1 .. d + 1 <=> k \in 1 .. d \/ k = d + 1
  OBVIOUS
<1>5. \A p \in Pend(more) : p \in Pend(fs) \cup {<<Len(fs), d + 1>>}
  <2>1. SUFFICES ASSUME NEW p \in Pend(more) PROVE p \in Pend(fs) \cup {<<Len(fs), d + 1>>}
    OBVIOUS
  <2>2. PICK i, k : p = <<i, k>> /\ i \in 1 .. Len(more) /\ k \in 1 .. more[i].defers
    BY DEF Pend
  <2>3. CASE i = Len(fs)
    BY <1>2, <1>3, <1>4, <2>2, <2>3, PendPair
  <2>4. CASE i # Len(fs)
    BY <1>3, <2>2, <2>4, PendPair
  <2> QED BY <2>3, <2>4
<1>6. \A p \in Pend(fs) : p \in Pend(more)
  <2>1. SUFFICES ASSUME NEW p \in Pend(fs) PROVE p \in Pend(more)
    OBVIOUS
  <2>2. PICK i, k : p = <<i, k>> /\ i \in 1 .. Len(fs) /\ k \in 1 .. fs[i].defers
    BY DEF Pend
  <2>3. k \in 1 .. more[i].defers
    BY <1>2, <1>3, <1>4, <2>2
  <2> QED BY <1>3, <2>2, <2>3, PendPair
<1>7. <<Len(fs), d + 1>> \in Pend(more)
  BY <1>2, <1>3, <1>4, PendPair
<1>8. <<Len(fs), d + 1>> \notin Pend(fs)
  <2>1. d + 1 \notin 1 .. d
    OBVIOUS
  <2> QED BY <2>1, PendPair
<1>9. Pend(more) = Pend(fs) \cup {<<Len(fs), d + 1>>}
  BY <1>5, <1>6, <1>7
<1>10. more = [fs EXCEPT ![Len(fs)].defers = d + 1]
  BY DEF more, f
<1> QED BY <1>2, <1>3, <1>8, <1>9, <1>10

(* A frame is pushed without defers. *)
LEMMA PendFrame ==
  ASSUME UnwindInv, NEW es, frames' = PushFrame(frames, es), Len(es) \in Nat
  PROVE  Pend(frames') = Pend(frames)
<1>1. PICK g : g = NewFrame(Len(cstack) + Len(es) + 1)
  OBVIOUS
<1>2. g \in FEntries /\ g.defers = 0
  BY <1>1, StackTyped, EntriesTyped DEF NewFrame
<1>3. frames' = Append(frames, g)
  BY <1>1 DEF PushFrame
<1> QED BY <1>2, <1>3, StackTyped, PendPushed

(* vl_defer puts one on the top frame. *)
LEMMA DeferCounts ==
  ASSUME UnwindInv, DeferInv, Defer
  PROVE  DeferInv'
<1>1. Len(frames) \in 1 .. Len(frames) /\ frames \in Seq(FEntries)
  BY FirstFrame, StackTyped DEF UnwindInv, Defer, Code
<1>2. PICK d \in Nat : frames[Len(frames)].defers = d
  <2>1. frames[Len(frames)] \in FEntries
    BY <1>1, ElementOfSeq
  <2> QED BY <2>1 DEF FEntries
<1>3. frames' = [frames EXCEPT ![Len(frames)].defers = d + 1] /\ deferred' = deferred + 1 /\ ran' = ran
  BY <1>2 DEF Defer
<1>4. /\ Pend(frames') = Pend(frames) \cup {<<Len(frames), d + 1>>}
      /\ <<Len(frames), d + 1>> \notin Pend(frames)
  BY <1>1, <1>2, <1>3, PendTop
<1>5. IsFiniteSet(Pend(frames')) /\ Cardinality(Pend(frames')) = Cardinality(Pend(frames)) + 1
  BY <1>4, FS_AddElement DEF DeferInv
<1>6. Cardinality(Pend(frames)) \in Nat /\ ran \in Nat
  BY FS_CardinalityType DEF DeferInv, UnwindInv, Data
<1>7. deferred = ran + Cardinality(Pend(frames))
  BY DEF DeferInv
<1> QED BY <1>3, <1>5, <1>6, <1>7 DEF DeferInv

(* run_defers and vl_unwind_to take it off, once, before they run it. *)
LEMMA RunDeferCounts ==
  ASSUME UnwindInv, DeferInv, ended = "no", RunDefer
  PROVE  DeferInv'
<1> DEFINE n  == Len(frames)
           fs == [frames EXCEPT ![n].defers = frames[n].defers - 1]
           g  == NewFrame(Len(cstack) + 2)
<1>1. n \in 1 .. n /\ frames \in Seq(FEntries) /\ Len(cstack) \in Nat
  BY FirstFrame, StackTyped DEF UnwindInv
<1>2. PICK d \in Nat : frames[n].defers = d + 1
  <2>1. frames[n] \in FEntries
    BY <1>1, ElementOfSeq
  <2>2. frames[n].defers > 0
    BY DEF RunDefer, Last
  <2>3. frames[n].defers - 1 \in Nat /\ frames[n].defers = (frames[n].defers - 1) + 1
    BY <2>1, <2>2 DEF FEntries
  <2> QED BY <2>3
<1>3. frames' = Append(fs, g) /\ deferred' = deferred /\ ran' = ran + 1
  BY DEF RunDefer
<1>4. g \in FEntries /\ g.defers = 0
  BY <1>1, EntriesTyped DEF NewFrame
<1> DEFINE f == [frames[n] EXCEPT !.defers = d]
<1>5. f \in FEntries /\ f.defers = d /\ frames[n] \in FEntries /\ [f EXCEPT !.defers = d + 1] = frames[n]
  <2>1. frames[n] \in FEntries
    BY <1>1, ElementOfSeq
  <2> QED BY <1>2, <2>1 DEF FEntries
<1>6. fs = [frames EXCEPT ![n] = f]
  <2>1. frames[n].defers - 1 = d
    BY <1>2
  <2> QED BY <2>1
<1> HIDE DEF f, g, fs
<1>7. /\ fs \in Seq(FEntries) /\ Len(fs) = n
      /\ \A j \in 1 .. n : fs[j] = IF j = n THEN f ELSE frames[j]
  BY <1>1, <1>5, <1>6, ExceptSeq
<1>8. [fs EXCEPT ![Len(fs)].defers = d + 1] = frames
  <2> DEFINE m == [fs EXCEPT ![n] = [f EXCEPT !.defers = d + 1]]
  <2>1. /\ m \in Seq(FEntries) /\ Len(m) = Len(frames)
        /\ \A j \in 1 .. n : m[j] = IF j = n THEN frames[n] ELSE fs[j]
    BY <1>1, <1>5, <1>7, ExceptSeq
  <2>2. \A j \in 1 .. Len(m) : m[j] = frames[j]
    BY <1>7, <2>1
  <2>3. m = frames
    <3> HIDE DEF m
    <3> QED BY <1>1, <2>1, <2>2, SeqEqual
  <2>4. [fs EXCEPT ![Len(fs)].defers = d + 1] = m
    BY <1>1, <1>7
  <2> QED BY <2>3, <2>4
<1>9. /\ Pend(frames) = Pend(fs) \cup {<<n, d + 1>>}
      /\ <<n, d + 1>> \notin Pend(fs)
  <2>1. Len(fs) \in 1 .. Len(fs) /\ fs[Len(fs)].defers = d
    BY <1>1, <1>5, <1>7
  <2>2. /\ Pend([fs EXCEPT ![Len(fs)].defers = d + 1]) = Pend(fs) \cup {<<Len(fs), d + 1>>}
        /\ <<Len(fs), d + 1>> \notin Pend(fs)
    BY <1>7, <2>1, PendTop
  <2> QED BY <1>7, <1>8, <2>2
<1>10. IsFiniteSet(Pend(fs)) /\ Cardinality(Pend(frames)) = Cardinality(Pend(fs)) + 1
  <2>1. IsFiniteSet(Pend(fs))
    BY <1>9, FS_Subset DEF DeferInv
  <2> QED BY <1>9, <2>1, FS_AddElement
<1>11. Pend(frames') = Pend(fs)
  BY <1>3, <1>4, <1>7, PendPushed
<1>12. Cardinality(Pend(fs)) \in Nat /\ ran \in Nat
  BY <1>10, FS_CardinalityType DEF UnwindInv, Data
<1>13. deferred = ran + Cardinality(Pend(frames))
  BY DEF DeferInv
<1> QED BY <1>3, <1>10, <1>11, <1>12, <1>13 DEF DeferInv

LEMMA StepCounts == UnwindInv /\ DeferInv /\ [Next]_vars => DeferInv'
<1> SUFFICES ASSUME UnwindInv, DeferInv, [Next]_vars PROVE DeferInv'
  OBVIOUS
<1>1. ASSUME Pend(frames') = Pend(frames), UNCHANGED <<deferred, ran>> PROVE DeferInv'
  BY <1>1 DEF DeferInv
<1>2. CASE Call \/ CallBack \/ CallContained
  <2>1. Len(<<>>) \in Nat /\ Len(<<1>>) \in Nat
    OBVIOUS
  <2> QED BY <1>1, <1>2, <2>1, PendFrame DEF Call, CallBack, CallContained
<1>3. CASE Defer
  BY <1>3, DeferCounts
<1>4. CASE ReturnRunsDefer \/ UnwindRunsDefer
  BY <1>4, RunDeferCounts DEF ReturnRunsDefer, UnwindRunsDefer, Unwinding
<1>5. CASE Return \/ UnwindPops
  <2>1. Len(frames) \in 1 .. Len(frames)
    BY <1>5, FirstFrame DEF UnwindInv, Return, UnwindPops, Unwinding
  <2>2. frames' = Front(frames) /\ frames[Len(frames)].defers = 0 /\ UNCHANGED <<deferred, ran>>
    BY <1>5 DEF Return, UnwindPops, FrameLeft, Last
  <2> QED BY <1>1, <2>1, <2>2, StackTyped, PendPopped
<1>6. CASE (\E kind \in {"try", "tryf"} : EnterTry(kind)) \/ LeaveTry \/ LeaveClause \/ LeaveFinally
           \/ Throw \/ Fault \/ StartReturn \/ CallBackReturned \/ ContainedReturned
           \/ DeliverToTry \/ DeliverToTryFinally \/ DeliverToRecoveryPoint \/ UNCHANGED vars
  <2>1. UNCHANGED <<frames, deferred, ran>>
    BY <1>6 DEF EnterTry, LeaveTry, LeaveClause, LeaveFinally, Throw, Fault, StartReturn,
                CallBackReturned, ContainedReturned, DeliverToTry, DeliverToTryFinally,
                DeliverToRecoveryPoint, Deliver, vars
  <2> QED BY <1>1, <2>1
<1> QED BY <1>2, <1>3, <1>4, <1>5, <1>6 DEF Next, Unwinds

LEMMA InitCounts == Init => DeferInv
<1>1. SUFFICES ASSUME Init PROVE DeferInv
  OBVIOUS
<1>2. frames = Append(<<>>, NewFrame(1)) /\ <<>> \in Seq(FEntries) /\ Len(<<>>) = 0
  BY <1>1 DEF Init
<1>3. NewFrame(1) \in FEntries /\ NewFrame(1).defers = 0
  BY EntriesTyped DEF NewFrame
<1>4. Pend(<<>>) = {}
  BY DEF Pend
<1>5. Pend(frames) = {}
  <2>1. Pend(Append(<<>>, NewFrame(1))) = Pend(<<>>)
    BY <1>2, <1>3, PendPushed
  <2> QED BY <1>2, <1>4, <2>1
<1> QED BY <1>1, <1>5, FS_EmptySet DEF Init, DeferInv

(* A defer statement executed is pending on a frame or has been run, never  *)
(* both, also when defers throw, are unwound, and run others on the way     *)
(* (err.c: vl_unwind_to; value.c: run_defers, vl_defer).                    *)
THEOREM EachDeferOnce == Spec => []DefersRunOnce
<1>1. DeferInv => DefersRunOnce
  BY DEF DeferInv, DefersRunOnce, PendingDefers, Pend
<1> QED BY <1>1, InitCounts, StepCounts, UnwindInvariant, PTL DEF Spec
=============================================================================
