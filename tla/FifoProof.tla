----------------------------- MODULE FifoProof -----------------------------
(***************************************************************************)
(* Channels.tla implements FifoChannels.tla for any threads, channels,     *)
(* capacities, timers and select statements.                               *)
(*                                                                         *)
(* FifoInv is inductive.  It adds to the monitor's invariant of            *)
(* ChannelsProof what the ring and the moving of values rest on: every     *)
(* slot the head and count name holds a value; a thread owns a value just  *)
(* as long as a call of it has one to send; a call in progress has         *)
(* reported nothing yet.                                                   *)
(***************************************************************************)
EXTENDS ChannelsProof, SequenceTheorems

(* The slots from the head on, count many, hold values. *)
Ring ==
  /\ slot = [c \in Chans |-> slot[c]]
  /\ \A c \in Chans : slot[c] \in [0 .. Slots(c) - 1 -> Values \cup {None}]
  /\ head \in [Chans -> Int]
  /\ \A c \in Chans : IF Cap[c] = 0 THEN head[c] = -1 ELSE head[c] \in 0 .. Slots(c) - 1
  /\ count \in [Chans -> Int]
  /\ \A c \in Chans : count[c] \in 0 .. Slots(c)
  /\ \A c \in Chans : \A i \in 1 .. count[c] : Contents(c)[i] \in Values

Records ==
  /\ held \in [Sources -> Values \cup {None}]
  /\ made \in [Sources -> Nat]
  /\ ret \in [Threads -> Returns \cup {None}]
  /\ due \in [Threads -> BOOLEAN]
  /\ timer \in [Timers -> {"unset", "armed", "done"}]

(* Who owns a value, and when a call has reported. *)
Ownership(th) ==
  /\ call[th] # "idle" => ret[th] = None
  /\ call[th] \in {"send", "try"} => held[th] # None
  /\ call[th] = "select" /\ Offers(arg[th]) => held[th] # None
  /\ call[th] \in {"idle", "handoff", "recv", "close", "sleep"} => held[th] = None
  /\ call[th] \in {"send", "handoff"} => made[th] > 0

TimerOwnership(c) ==
  /\ timer[c] = "unset" => made[c] = 0 /\ held[c] = None
  /\ timer[c] = "armed" => held[c] # None

Owners ==
  /\ Records
  /\ \A th \in Threads : Ownership(th)
  /\ \A c \in Timers : TimerOwnership(c)

FifoInv == Monitor /\ Ring /\ Owners

-----------------------------------------------------------------------------
(* Index arithmetic: the i-th place of a ring of S slots with head h. *)
LEMMA ModSmall ==
  ASSUME NEW S \in Nat \ {0}, NEW a \in 0 .. S - 1
  PROVE  a % S = a
  OBVIOUS

LEMMA ModOver ==
  ASSUME NEW S \in Nat \ {0}, NEW a \in S .. 2 * S - 1
  PROVE  a % S = a - S
  OBVIOUS

LEMMA PlaceValue ==
  ASSUME NEW S \in Nat \ {0}, NEW h \in 0 .. S - 1, NEW i \in 1 .. S
  PROVE  (h + i - 1) % S = IF h + i - 1 < S THEN h + i - 1 ELSE h + i - 1 - S
<1>1. CASE h + i - 1 < S
  BY <1>1, h + i - 1 \in 0 .. S - 1, ModSmall
<1>2. CASE ~(h + i - 1 < S)
  BY <1>2, h + i - 1 \in S .. 2 * S - 1, ModOver
<1> QED BY <1>1, <1>2

LEMMA PlacesApart ==
  ASSUME NEW S \in Nat \ {0}, NEW h \in 0 .. S - 1,
         NEW i \in 1 .. S, NEW j \in 1 .. S, i # j
  PROVE  (h + i - 1) % S # (h + j - 1) % S
  BY PlaceValue

LEMMA PlaceAfterHead ==
  ASSUME NEW S \in Nat \ {0}, NEW h \in 0 .. S - 1, NEW i \in 1 .. S - 1
  PROVE  (((h + 1) % S) + i - 1) % S = (h + (i + 1) - 1) % S
<1>1. CASE h + 1 < S
  <2>1. (h + 1) % S = h + 1
    BY <1>1, h + 1 \in 0 .. S - 1, ModSmall
  <2> QED BY <2>1
<1>2. CASE h + 1 = S
  <2>1. (h + 1) % S = 0
    BY <1>2, h + 1 \in S .. 2 * S - 1, ModOver
  <2>2. (0 + i - 1) % S = i - 1
    BY i - 1 \in 0 .. S - 1, ModSmall
  <2>3. (h + (i + 1) - 1) % S = i - 1
    BY <1>2, i + 1 \in 1 .. S, PlaceValue
  <2> QED BY <2>1, <2>2, <2>3
<1> QED BY <1>1, <1>2

-----------------------------------------------------------------------------
(* The ring as a queue. *)
LEMMA Geometry ==
  ASSUME Ring, NEW c \in Chans
  PROVE  /\ Slots(c) \in Nat \ {0}
         /\ RingHead(c) \in 0 .. Slots(c) - 1
         /\ count[c] \in 0 .. Slots(c)
         /\ Rendezvous(c) => Slots(c) = 1
         /\ Contents(c) \in Seq(Values)
         /\ Len(Contents(c)) = count[c]
         /\ \A i \in 1 .. count[c] : Contents(c)[i] \in Values
         /\ \A i \in 1 .. count[c] :
              Contents(c)[i] = slot[c][(RingHead(c) + i - 1) % Slots(c)]
<1>1. Slots(c) \in Nat \ {0} /\ (Cap[c] # 0 => Slots(c) = Cap[c]) /\ (Cap[c] = 0 => Slots(c) = 1)
  BY ChanAssumption DEF Slots
<1>2. RingHead(c) \in 0 .. Slots(c) - 1
  BY <1>1 DEF Ring, RingHead, Rendezvous
<1>3. Rendezvous(c) => Slots(c) = 1
  BY <1>1 DEF Ring, Rendezvous
<1>4. count[c] \in 0 .. Slots(c) /\ count[c] \in Nat
  BY <1>1 DEF Ring
<1>5. Contents(c) \in [1 .. count[c] -> Values]
  BY <1>4 DEF Ring, Contents
<1>6. Contents(c) \in Seq(Values) /\ Len(Contents(c)) = count[c]
  BY <1>4, <1>5
<1> QED BY <1>1, <1>2, <1>3, <1>4, <1>6 DEF Contents, Ring

(* The place the next value goes to is not one that is taken. *)
LEMMA FreePlace ==
  ASSUME Ring, NEW c \in Chans, HasRoom(c)
  PROVE  /\ NextFree(c) = (RingHead(c) + (count[c] + 1) - 1) % Slots(c)
         /\ NextFree(c) \in 0 .. Slots(c) - 1
         /\ \A i \in 1 .. count[c] : (RingHead(c) + i - 1) % Slots(c) # NextFree(c)
<1> Slots(c) \in Nat \ {0} /\ RingHead(c) \in 0 .. Slots(c) - 1 /\ count[c] \in 0 .. Slots(c)
  BY Geometry
<1>1. count[c] + 1 \in 1 .. Slots(c)
  BY DEF HasRoom
<1>2. NextFree(c) = (RingHead(c) + (count[c] + 1) - 1) % Slots(c)
  BY DEF NextFree
<1>3. NextFree(c) \in 0 .. Slots(c) - 1
  <2>1. NextFree(c) = IF RingHead(c) + (count[c] + 1) - 1 < Slots(c)
                      THEN RingHead(c) + (count[c] + 1) - 1
                      ELSE RingHead(c) + (count[c] + 1) - 1 - Slots(c)
    BY <1>1, <1>2, PlaceValue
  <2> QED BY <2>1
<1>4. ASSUME NEW i \in 1 .. count[c]
      PROVE  (RingHead(c) + i - 1) % Slots(c) # (RingHead(c) + (count[c] + 1) - 1) % Slots(c)
  <2>1. i \in 1 .. Slots(c) /\ i # count[c] + 1
    OBVIOUS
  <2> QED BY <1>1, <2>1, PlacesApart
<1> QED BY <1>2, <1>3, <1>4

-----------------------------------------------------------------------------
(* What a change of one ring does to its queue. *)
LEMMA SameQueues ==
  ASSUME Ring, UNCHANGED <<slot, head, count>>
  PROVE  Ring' /\ Queue' = Queue
<1>1. \A c \in Chans : Contents(c)' = Contents(c) /\ Slots(c)' = Slots(c)
  BY DEF Contents, RingHead, Rendezvous, Slots
<1> QED BY <1>1 DEF Ring, Queue

LEMMA OtherContents ==
  ASSUME NEW d \in Chans, slot'[d] = slot[d], head'[d] = head[d], count'[d] = count[d]
  PROVE  Contents(d)' = Contents(d)
  BY DEF Contents, RingHead, Rendezvous, Slots

LEMMA PutAppends ==
  ASSUME Ring, NEW c \in Chans, NEW v \in Values, HasRoom(c), PutValue(c, v)
  PROVE  /\ Ring'
         /\ Len(Queue[c]) < Slots(c)
         /\ Queue' = [Queue EXCEPT ![c] = Append(@, v)]
<1> DEFINE n == count[c]
<1>1. /\ head' = head
      /\ count' = [count EXCEPT ![c] = n + 1]
      /\ slot' = [slot EXCEPT ![c][NextFree(c)] = v]
      /\ n \in Nat /\ n < Slots(c) /\ n + 1 \in 0 .. Slots(c)
  BY Geometry DEF PutValue, HasRoom
<1>2. /\ count' \in [Chans -> Int] /\ count'[c] = n + 1
      /\ \A d \in Chans \ {c} : count'[d] = count[d]
  BY <1>1 DEF Ring
<1>3. /\ slot' = [d \in Chans |-> slot'[d]]
      /\ slot'[c] = [slot[c] EXCEPT ![NextFree(c)] = v]
      /\ \A d \in Chans \ {c} : slot'[d] = slot[d]
  BY <1>1 DEF Ring
<1>4. /\ slot'[c] \in [0 .. Slots(c) - 1 -> Values \cup {None}]
      /\ slot'[c][NextFree(c)] = v
      /\ \A k \in 0 .. Slots(c) - 1 : k # NextFree(c) => slot'[c][k] = slot[c][k]
  <2>1. slot[c] \in [0 .. Slots(c) - 1 -> Values \cup {None}]
    BY DEF Ring
  <2>2. NextFree(c) \in 0 .. Slots(c) - 1
    BY FreePlace
  <2> QED BY <1>3, <2>1, <2>2
<1>5. RingHead(c)' = RingHead(c)
  BY <1>1 DEF RingHead, Rendezvous
<1>6. Contents(c)' = [i \in 1 .. n + 1 |-> slot'[c][(RingHead(c) + i - 1) % Slots(c)]]
  BY <1>2, <1>5 DEF Contents, Slots
<1>7. Contents(c)'[n + 1] = v
  BY <1>1, <1>4, <1>6, FreePlace
<1>8. ASSUME NEW i \in 1 .. n PROVE Contents(c)'[i] = Contents(c)[i]
  <2>1. (RingHead(c) + i - 1) % Slots(c) \in 0 .. Slots(c) - 1
    BY <1>1, Geometry, PlaceValue, i \in 1 .. Slots(c)
  <2>2. slot'[c][(RingHead(c) + i - 1) % Slots(c)] = slot[c][(RingHead(c) + i - 1) % Slots(c)]
    BY <2>1, <1>4, FreePlace
  <2>3. Contents(c)'[i] = slot'[c][(RingHead(c) + i - 1) % Slots(c)]
    BY <1>1, <1>6, i \in 1 .. n + 1
  <2> QED BY <2>2, <2>3, Geometry
<1>9. Contents(c)' = Append(Contents(c), v)
  <2>1. Contents(c) \in Seq(Values) /\ Len(Contents(c)) = n
    BY Geometry
  <2>2. DOMAIN Append(Contents(c), v) = 1 .. n + 1
    BY <1>1, <2>1, LenProperties, AppendProperties
  <2>3. \A i \in 1 .. n + 1 : Append(Contents(c), v)[i] = Contents(c)'[i]
    BY <1>1, <1>7, <1>8, <2>1, AppendProperties
  <2>4. Append(Contents(c), v) = [i \in 1 .. n + 1 |-> Append(Contents(c), v)[i]]
    BY <1>1, <2>1, <2>2, AppendProperties, LenProperties
  <2> QED BY <1>6, <2>3, <2>4
<1>10. \A d \in Chans \ {c} : Contents(d)' = Contents(d)
  BY <1>1, <1>2, <1>3, OtherContents
<1>11. Queue' = [Queue EXCEPT ![c] = Append(@, v)]
  BY <1>9, <1>10 DEF Queue
<1>12. \A d \in Chans : \A i \in 1 .. count'[d] : Contents(d)'[i] \in Values
  <2>1. \A i \in 1 .. n + 1 : Contents(c)'[i] \in Values
    <3> SUFFICES ASSUME NEW i \in 1 .. n + 1 PROVE Contents(c)'[i] \in Values
      OBVIOUS
    <3>1. CASE i = n + 1
      BY <1>7, <3>1
    <3>2. CASE i \in 1 .. n
      BY <1>8, <3>2, Geometry
    <3> QED BY <1>1, <3>1, <3>2
  <2> QED BY <1>2, <1>10, <2>1 DEF Ring
<1>13. Ring'
  BY <1>1, <1>2, <1>3, <1>4, <1>12 DEF Ring, Slots
<1> QED BY <1>1, <1>11, <1>13, Geometry DEF Queue

LEMMA TakeRemoves ==
  ASSUME Ring, NEW c \in Chans, count[c] > 0, TakeValue(c)
  PROVE  /\ Ring'
         /\ Queue[c] # <<>>
         /\ Front(c) = Head(Queue[c])
         /\ Front(c) \in Values
         /\ Queue' = [Queue EXCEPT ![c] = Tail(@)]
<1> DEFINE n == count[c]
<1>1. /\ slot' = slot
      /\ count' = [count EXCEPT ![c] = n - 1]
      /\ head' = [head EXCEPT ![c] = NextHead(c)]
      /\ n \in Nat \ {0} /\ n \in 1 .. Slots(c) /\ n - 1 \in 0 .. Slots(c)
  BY Geometry DEF TakeValue
<1>2. /\ count' \in [Chans -> Int] /\ count'[c] = n - 1
      /\ \A d \in Chans \ {c} : count'[d] = count[d]
  BY <1>1 DEF Ring
<1>3. /\ Rendezvous(c) => NextHead(c) = -1
      /\ ~Rendezvous(c) => NextHead(c) \in 0 .. Slots(c) - 1
  <2>1. ASSUME ~Rendezvous(c) PROVE (head[c] + 1) % Slots(c) \in 0 .. Slots(c) - 1
    BY <2>1, Geometry DEF RingHead
  <2> QED BY <2>1 DEF NextHead
<1>4. /\ head' \in [Chans -> Int] /\ head'[c] = NextHead(c)
      /\ \A d \in Chans \ {c} : head'[d] = head[d]
  BY <1>1, <1>3 DEF Ring
<1>5. Contents(c) \in Seq(Values) /\ Len(Contents(c)) = n /\ Contents(c) # <<>>
  BY <1>1, Geometry
<1>6. Front(c) = Contents(c)[1]
  BY <1>1, Geometry, RingHead(c) + 1 - 1 = RingHead(c) DEF Front
<1>7. Contents(c)' = [i \in 1 .. n - 1 |-> slot[c][(RingHead(c)' + i - 1) % Slots(c)]]
  BY <1>1, <1>2 DEF Contents, Slots
<1>8. ASSUME NEW i \in 1 .. n - 1 PROVE Contents(c)'[i] = Contents(c)[i + 1]
  <2>1. ~Rendezvous(c)
    BY <1>1, Geometry
  <2>2. RingHead(c)' = (RingHead(c) + 1) % Slots(c) /\ RingHead(c)' \in Int
    BY <1>3, <1>4, <2>1 DEF RingHead, Rendezvous, NextHead
  <2>3. (RingHead(c)' + i - 1) % Slots(c) = (RingHead(c) + (i + 1) - 1) % Slots(c)
    <3>1. i \in 1 .. Slots(c) - 1
      BY <1>1, Geometry
    <3>2. (((RingHead(c) + 1) % Slots(c)) + i - 1) % Slots(c)
            = (RingHead(c) + (i + 1) - 1) % Slots(c)
      BY <3>1, Geometry, PlaceAfterHead
    <3> QED BY <2>2, <3>2
  <2>4. i + 1 \in 1 .. n
    BY <1>1
  <2>5. Contents(c)[i + 1] = slot[c][(RingHead(c) + (i + 1) - 1) % Slots(c)]
    BY <2>4, Geometry
  <2> QED BY <1>7, <2>3, <2>5
<1>9. Contents(c)' = Tail(Contents(c))
  <2>1. /\ Tail(Contents(c)) \in Seq(Values) /\ Len(Tail(Contents(c))) = n - 1
        /\ \A i \in 1 .. n - 1 : Tail(Contents(c))[i] = Contents(c)[i + 1]
    BY <1>5, HeadTailProperties
  <2>2. Tail(Contents(c)) = [i \in 1 .. n - 1 |-> Tail(Contents(c))[i]]
    BY <2>1, LenProperties
  <2> QED BY <1>7, <1>8, <2>1, <2>2
<1>10. \A d \in Chans \ {c} : Contents(d)' = Contents(d)
  BY <1>1, <1>2, <1>4, OtherContents
<1>11. Queue' = [Queue EXCEPT ![c] = Tail(@)]
  BY <1>9, <1>10 DEF Queue
<1>12. \A d \in Chans : \A i \in 1 .. count'[d] : Contents(d)'[i] \in Values
  <2>1. \A i \in 1 .. n - 1 : Contents(c)'[i] \in Values
    <3> SUFFICES ASSUME NEW i \in 1 .. n - 1 PROVE Contents(c)'[i] \in Values
      OBVIOUS
    <3>1. i + 1 \in 1 .. n
      BY <1>1
    <3> QED BY <1>8, <3>1, Geometry
  <2> QED BY <1>2, <1>10, <2>1 DEF Ring
<1>13. \A d \in Chans : IF Cap[d] = 0 THEN head'[d] = -1 ELSE head'[d] \in 0 .. Slots(d) - 1
  BY <1>3, <1>4 DEF Ring, Rendezvous
<1>14. Ring'
  BY <1>1, <1>2, <1>4, <1>12, <1>13 DEF Ring, Slots
<1>15. Front(c) = Head(Contents(c)) /\ Front(c) \in Values
  BY <1>1, <1>5, <1>6 DEF Ring
<1> QED BY <1>5, <1>11, <1>14, <1>15 DEF Queue

-----------------------------------------------------------------------------
(* A step of Channels is one of FifoChannels, or changes nothing there. *)
Mapped == [Fifo!Next]_(Fifo!vars)

LEMMA MappedStutter ==
  ASSUME Ring, UNCHANGED <<slot, head, count, closed, held, made, ret>>
  PROVE  Ring' /\ Mapped
<1>1. Ring' /\ Queue' = Queue
  BY SameQueues
<1>2. Got' = Got
  BY DEF Got
<1> QED BY <1>1, <1>2 DEF Mapped, Fifo!vars

LEMMA MappedPut ==
  ASSUME Ring, Records, NEW s \in Sources, NEW c \in Chans,
         ~closed[c], HasRoom(c), held[s] # None, PutValue(c, held[s]), Release(s),
         made' = made, Got' = Got
  PROVE  Ring' /\ Mapped
<1>1. held[s] \in Values
  BY DEF Records
<1>2. Ring' /\ Len(Queue[c]) < Slots(c) /\ Queue' = [Queue EXCEPT ![c] = Append(@, held[s])]
  BY <1>1, PutAppends
<1>3. Fifo!Put(s, c)
  BY <1>2 DEF Fifo!Put, Release, PutValue
<1> QED BY <1>2, <1>3 DEF Mapped, Fifo!Next

LEMMA MappedTake ==
  ASSUME Ring, NEW th \in Threads, NEW c \in Chans, count[c] > 0, TakeValue(c),
         held' = held \/ Release(th), made' = made,
         Got' = [Got EXCEPT ![th] = [chan |-> c, value |-> Front(c)]]
  PROVE  Ring' /\ Mapped
<1>1. /\ Ring' /\ Queue[c] # <<>> /\ Front(c) = Head(Queue[c])
      /\ Queue' = [Queue EXCEPT ![c] = Tail(@)]
  BY TakeRemoves
<1>2. Fifo!Take(th, c)
  BY <1>1 DEF Fifo!Take, TakeValue
<1>3. Fifo!KeepOrDrop(th)
  BY DEF Fifo!KeepOrDrop, Release
<1> QED BY <1>1, <1>2, <1>3 DEF Mapped, Fifo!Next

(* A value given up: by a refused send, a select that took another case, a  *)
(* timer whose channel is closed or full.                                   *)
LEMMA MappedDrop ==
  ASSUME Ring, NEW s \in Sources, Release(s), UNCHANGED <<slot, head, count, closed, made, ret>>,
         Records
  PROVE  Ring' /\ Mapped
<1>1. Ring' /\ Queue' = Queue
  BY SameQueues
<1>2. Got' = Got
  BY DEF Got
<1>3. CASE held[s] = None
  <2>1. held' = held
    BY <1>3 DEF Release, Records
  <2> QED BY <1>1, <1>2, <2>1 DEF Mapped, Fifo!vars
<1>4. CASE held[s] # None
  <2>1. Fifo!Drop(s)
    BY <1>1, <1>2, <1>4 DEF Fifo!Drop, Release
  <2> QED BY <1>1, <2>1 DEF Mapped, Fifo!Next
<1> QED BY <1>3, <1>4

-----------------------------------------------------------------------------
(* What a call reports. *)
LEMMA Reports ==
  ASSUME Records, NEW th \in Threads, ret[th] = None,
         NEW c \in Chans, NEW v \in Values,
         Report(th, "sent", c, v) \/ Report(th, "received", c, v)
  PROVE  /\ ret' \in [Threads -> Returns \cup {None}]
         /\ \A u \in Threads \ {th} : ret'[u] = ret[u]
         /\ Report(th, "sent", c, v) => Got' = Got
         /\ Report(th, "received", c, v) =>
              Got' = [Got EXCEPT ![th] = [chan |-> c, value |-> v]]
<1>1. ASSUME NEW how \in {"sent", "received"}
      PROVE  [how |-> how, chan |-> c, value |-> v] \in Returns
  BY <1>1 DEF Returns
<1>2. /\ ret' \in [Threads -> Returns \cup {None}]
      /\ \A u \in Threads \ {th} : ret'[u] = ret[u]
  BY <1>1 DEF Report, Records
<1>3. [how |-> "received", chan |-> c, value |-> v] # None
  BY NoneAssumption DEF Values, Sources
<1>4. ASSUME Report(th, "sent", c, v) PROVE Got' = Got
  <2>1. ret'[th] = [how |-> "sent", chan |-> c, value |-> v]
    BY <1>4 DEF Report, Records
  <2> QED BY <1>2, <2>1 DEF Got
<1>5. ASSUME Report(th, "received", c, v)
      PROVE  Got' = [Got EXCEPT ![th] = [chan |-> c, value |-> v]]
  <2>1. ret'[th] = [how |-> "received", chan |-> c, value |-> v]
    BY <1>5 DEF Report, Records
  <2>2. ret'[th] # None /\ ret'[th].how = "received" /\ ret'[th].chan = c /\ ret'[th].value = v
    BY <1>3, <2>1
  <2>3. Got'[th] = [chan |-> c, value |-> v]
    BY <2>2 DEF Got
  <2>4. \A u \in Threads \ {th} : Got'[u] = Got[u]
    BY <1>2 DEF Got
  <2>5. Got' = [u \in Threads |-> Got'[u]] /\ Got = [u \in Threads |-> Got[u]]
    BY DEF Got
  <2> QED BY <2>3, <2>4, <2>5
<1> QED BY <1>2, <1>4, <1>5

(* A call that ends leaves its thread without a value. *)
LEMMA OwnersEnd ==
  ASSUME Monitor, Owners, NEW th \in Threads, Done(th), UNCHANGED <<arg, made, due, timer>>,
         \/ Release(th)
         \/ held' = held /\ held[th] = None,
         ret' \in [Threads -> Returns \cup {None}],
         \A u \in Threads \ {th} : ret'[u] = ret[u]
  PROVE  Owners'
<1>1. /\ held' \in [Sources -> Values \cup {None}]
      /\ held'[th] = None
      /\ \A s \in Sources \ {th} : held'[s] = held[s]
  BY DEF Owners, Records, Release, Sources
<1>2. call'[th] = "idle" /\ \A u \in Threads \ {th} : call'[u] = call[u]
  BY DEF Done, Monitor, Ranges
<1>3. Records'
  BY <1>1 DEF Owners, Records
<1>4. ASSUME NEW u \in Threads PROVE Ownership(u)'
  <2>1. CASE u = th
    BY <1>1, <1>2, <2>1 DEF Ownership
  <2>2. CASE u # th
    BY <1>1, <1>2, <2>2 DEF Owners, Ownership, Offers, Sources
  <2> QED BY <2>1, <2>2
<1>5. ASSUME NEW c \in Timers PROVE TimerOwnership(c)'
  <2>1. c # th /\ c \in Sources
    BY ChanAssumption DEF Sources
  <2> QED BY <1>1, <2>1 DEF Owners, TimerOwnership
<1> QED BY <1>3, <1>4, <1>5 DEF Owners

LEMMA OwnersKept ==
  ASSUME Owners, UNCHANGED <<callVars, timer>>
  PROVE  Owners'
  BY DEF Owners, Records, Ownership, TimerOwnership, callVars, Offers

-----------------------------------------------------------------------------
(* Each step: the ring and the ownership of values are kept, and the step   *)
(* is one of FifoChannels.                                                  *)
Implements == Ring' /\ Owners' /\ Mapped

(* A call that waits changes nothing but the monitor. *)
LEMMA WaitImplements ==
  ASSUME FifoInv, UNCHANGED <<chanVars, callVars, timer>>
  PROVE  Implements
  BY MappedStutter, OwnersKept DEF FifoInv, Implements, chanVars, callVars

(* A call that ends without a result. *)
LEMMA EndImplements ==
  ASSUME FifoInv, NEW th \in Threads, Done(th), UNCHANGED <<chanVars, arg, made, ret, due, timer>>,
         Release(th) \/ (held' = held /\ held[th] = None)
  PROVE  Implements
<1>1. Owners'
  BY OwnersEnd DEF FifoInv, Owners, Records
<1>2. th \in Sources
  BY DEF Sources
<1>3. Ring' /\ Mapped
  BY <1>2, MappedDrop, MappedStutter DEF FifoInv, Owners, chanVars
<1> QED BY <1>1, <1>3 DEF Implements

(* A call that has put its value. *)
LEMMA PutImplements ==
  ASSUME FifoInv, NEW th \in Threads, NEW c \in Chans, ~closed[c], HasRoom(c),
         call[th] # "idle", held[th] # None, PutValue(c, held[th]), Release(th),
         Report(th, "sent", c, held[th]), Done(th), UNCHANGED <<arg, made, due, timer>>
  PROVE  Implements
<1>1. held[th] \in Values /\ ret[th] = None /\ th \in Sources
  BY DEF FifoInv, Owners, Records, Ownership, Sources
<1>2. /\ ret' \in [Threads -> Returns \cup {None}] /\ Got' = Got
      /\ \A u \in Threads \ {th} : ret'[u] = ret[u]
  BY <1>1, Reports DEF FifoInv, Owners
<1>3. Owners'
  BY <1>2, OwnersEnd DEF FifoInv
<1>4. Ring' /\ Mapped
  BY <1>1, <1>2, MappedPut DEF FifoInv, Owners
<1> QED BY <1>3, <1>4 DEF Implements

(* A call that has taken a value. *)
LEMMA TakeImplements ==
  ASSUME FifoInv, NEW th \in Threads, NEW c \in Chans, count[c] > 0,
         call[th] # "idle", TakeValue(c), Release(th) \/ (held' = held /\ held[th] = None),
         Report(th, "received", c, Front(c)), Done(th), UNCHANGED <<arg, made, due, timer>>
  PROVE  Implements
<1>1. Front(c) \in Values /\ ret[th] = None
  BY TakeRemoves DEF FifoInv, Owners, Ownership
<1>2. /\ ret' \in [Threads -> Returns \cup {None}]
      /\ \A u \in Threads \ {th} : ret'[u] = ret[u]
      /\ Got' = [Got EXCEPT ![th] = [chan |-> c, value |-> Front(c)]]
  BY <1>1, Reports DEF FifoInv, Owners
<1>3. Owners'
  BY <1>2, OwnersEnd DEF FifoInv
<1>4. Ring' /\ Mapped
  BY <1>2, MappedTake DEF FifoInv
<1> QED BY <1>3, <1>4 DEF Implements

(* vl_chan_send *)
LEMMA SendImplements ==
  ASSUME FifoInv, NEW th \in Threads,
         \/ SendRefused(th) \/ SendWaits(th) \/ SendPuts(th)
         \/ HandoffReturns(th) \/ HandoffWaits(th) \/ TrySend(th)
  PROVE  Implements
<1>1. CASE SendRefused(th)
  BY <1>1, EndImplements DEF SendRefused
<1>2. CASE SendWaits(th) \/ HandoffWaits(th)
  BY <1>2, WaitImplements DEF SendWaits, HandoffWaits
<1>3. CASE SendPuts(th)
  <2> DEFINE c == arg[th]
  <2>1. /\ call[th] = "send" /\ ~closed[c] /\ HasRoom(c) /\ PutValue(c, held[th]) /\ Release(th)
        /\ UNCHANGED <<arg, made, due, timer>>
    BY <1>3 DEF SendPuts, In
  <2>2. c \in Chans /\ held[th] # None /\ held[th] \in Values /\ made[th] > 0
        /\ th \in Sources /\ ret[th] = None
    BY <2>1 DEF FifoInv, Monitor, Arguments, Owners, Records, Ownership, Sources
  <2>3. CASE ~Rendezvous(c)
    BY <1>3, <2>1, <2>2, <2>3, PutImplements DEF SendPuts
  <2>4. CASE Rendezvous(c)
    <3>1. call' = [call EXCEPT ![th] = "handoff"] /\ ret' = ret
      BY <1>3, <2>4 DEF SendPuts
    <3>2. Got' = Got
      BY <3>1 DEF Got
    <3>3. Ring' /\ Mapped
      BY <2>1, <2>2, <3>2, MappedPut DEF FifoInv, Owners
    <3>4. /\ held' \in [Sources -> Values \cup {None}]
          /\ held'[th] = None
          /\ \A s \in Sources \ {th} : held'[s] = held[s]
      BY <2>1, <2>2 DEF FifoInv, Owners, Records, Release
    <3>5. call'[th] = "handoff" /\ \A u \in Threads \ {th} : call'[u] = call[u]
      BY <3>1 DEF FifoInv, Monitor, Ranges
    <3>6. Records'
      BY <2>1, <3>1, <3>4 DEF FifoInv, Owners, Records
    <3>7. ASSUME NEW u \in Threads PROVE Ownership(u)'
      <4>1. CASE u = th
        BY <2>1, <2>2, <3>1, <3>4, <3>5, <4>1 DEF Ownership
      <4>2. CASE u # th
        BY <2>1, <3>1, <3>4, <3>5, <4>2
           DEF FifoInv, Owners, Ownership, Offers, Sources
      <4> QED BY <4>1, <4>2
    <3>8. ASSUME NEW d \in Timers PROVE TimerOwnership(d)'
      <4>1. d # th /\ d \in Sources
        BY ChanAssumption DEF Sources
      <4> QED BY <2>1, <3>4, <4>1 DEF FifoInv, Owners, TimerOwnership
    <3> QED BY <3>3, <3>6, <3>7, <3>8 DEF Owners, Implements
  <2> QED BY <2>3, <2>4
<1>4. CASE HandoffReturns(th)
  <2> DEFINE c == arg[th]
             v == <<th, made[th]>>
  <2>1. /\ call[th] = "handoff" /\ Done(th) /\ Report(th, "sent", c, v)
        /\ UNCHANGED <<chanVars, arg, held, made, due, timer>>
    BY <1>4 DEF HandoffReturns, In
  <2>2. /\ c \in Chans /\ v \in Values /\ held[th] = None /\ ret[th] = None
    BY <2>1 DEF FifoInv, Monitor, Arguments, Owners, Records, Ownership, Values, Sources
  <2>3. /\ ret' \in [Threads -> Returns \cup {None}] /\ Got' = Got
        /\ \A u \in Threads \ {th} : ret'[u] = ret[u]
    BY <2>1, <2>2, Reports DEF FifoInv, Owners
  <2>4. Owners'
    BY <2>1, <2>2, <2>3, OwnersEnd DEF FifoInv
  <2>5. Ring' /\ Queue' = Queue
    BY <2>1, SameQueues DEF FifoInv, chanVars
  <2>6. Mapped
    BY <2>1, <2>3, <2>5 DEF Mapped, Fifo!vars, chanVars
  <2> QED BY <2>4, <2>5, <2>6 DEF Implements
<1>5. CASE TrySend(th)
  <2> DEFINE c == arg[th]
  <2>1. /\ call[th] = "try" /\ Done(th) /\ Release(th) /\ UNCHANGED <<arg, made, due, timer>>
    BY <1>5 DEF TrySend, In
  <2>2. c \in Chans /\ held[th] # None
    BY <2>1 DEF FifoInv, Monitor, Arguments, Owners, Ownership
  <2>3. CASE closed[c] \/ Rendezvous(c) \/ ~HasRoom(c)
    BY <1>5, <2>1, <2>3, EndImplements DEF TrySend
  <2>4. CASE ~(closed[c] \/ Rendezvous(c) \/ ~HasRoom(c))
    BY <1>5, <2>1, <2>2, <2>4, PutImplements DEF TrySend
  <2> QED BY <2>3, <2>4
<1> QED BY <1>1, <1>2, <1>3, <1>4, <1>5

(* vl_chan_recv_ok and vl_chan_close *)
LEMMA RecvImplements ==
  ASSUME FifoInv, NEW th \in Threads,
         RecvTakes(th) \/ RecvEnds(th) \/ RecvWaits(th) \/ Close(th)
  PROVE  Implements
<1>1. ASSUME call[th] \in {"recv", "close"}
      PROVE  arg[th] \in Chans /\ held[th] = None
  BY <1>1 DEF FifoInv, Monitor, Arguments, Owners, Ownership
<1>2. CASE RecvTakes(th)
  BY <1>1, <1>2, TakeImplements DEF RecvTakes, In
<1>3. CASE RecvEnds(th)
  BY <1>1, <1>3, EndImplements DEF RecvEnds, In
<1>4. CASE RecvWaits(th)
  BY <1>4, WaitImplements DEF RecvWaits
<1>5. CASE Close(th)
  <2> DEFINE c == arg[th]
  <2>1. /\ c \in Chans /\ held[th] = None /\ Done(th)
        /\ UNCHANGED <<slot, head, count, arg, held, made, ret, due, timer>>
    BY <1>1, <1>5 DEF Close, In
  <2>2. CASE closed[c]
    BY <1>5, <2>1, <2>2, EndImplements DEF Close, chanVars
  <2>3. CASE ~closed[c]
    <3>1. closed' = [closed EXCEPT ![c] = TRUE]
      BY <1>5, <2>3 DEF Close
    <3>2. Owners'
      BY <2>1, OwnersEnd DEF FifoInv, Owners, Records
    <3>3. Ring' /\ Queue' = Queue /\ Got' = Got
      BY <2>1, SameQueues DEF FifoInv, Got
    <3>4. Fifo!Shut(c)
      BY <2>1, <2>3, <3>1, <3>3 DEF Fifo!Shut
    <3> QED BY <2>1, <3>2, <3>3, <3>4 DEF Implements, Mapped, Fifo!Next
  <2> QED BY <2>2, <2>3
<1> QED BY <1>2, <1>3, <1>4, <1>5

(* vl_select *)
LEMMA SelectImplements ==
  ASSUME FifoInv, NEW th \in Threads,
         SelectCase(th) \/ SelectNone(th) \/ SelectWaits(th)
  PROVE  Implements
<1>1. CASE SelectCase(th)
  <2>1. /\ call[th] = "select" /\ Done(th) /\ Release(th) /\ UNCHANGED <<arg, made, due, timer>>
    BY <1>1 DEF SelectCase, In
  <2>2. PICK i \in ReadyCases(th) :
          LET x == arg[th].cases[i] IN
          \/ /\ x.dir = "recv" /\ count[x.chan] > 0 /\ TakeValue(x.chan)
             /\ Report(th, "received", x.chan, Front(x.chan))
          \/ UNCHANGED <<chanVars, ret>>
          \/ /\ x.dir = "send" /\ PutValue(x.chan, held[th])
             /\ Report(th, "sent", x.chan, held[th])
    BY <1>1 DEF SelectCase
  <2> DEFINE x == arg[th].cases[i]
  <2>3. arg[th] \in Selects /\ i \in DOMAIN arg[th].cases
    BY <2>1, <2>2 DEF FifoInv, Monitor, Arguments, ReadyCases
  <2>4. x \in [dir : {"recv", "send"}, chan : Chans]
    BY <2>3, SelectAssumption, InSequence
  <2>5. x.chan \in Chans
    BY <2>4
  <2>6. CASE x.dir = "recv" /\ count[x.chan] > 0 /\ TakeValue(x.chan)
             /\ Report(th, "received", x.chan, Front(x.chan))
    BY <2>1, <2>5, <2>6, TakeImplements
  <2>7. CASE UNCHANGED <<chanVars, ret>>
    BY <2>1, <2>7, EndImplements
  <2>8. CASE /\ x.dir = "send" /\ PutValue(x.chan, held[th])
             /\ Report(th, "sent", x.chan, held[th])
    <3>1. ~closed[x.chan] /\ HasRoom(x.chan)
      BY <2>2, <2>8 DEF ReadyCases, CaseReady
    <3>2. held[th] # None
      BY <2>1, <2>3, <2>8 DEF FifoInv, Owners, Ownership, Offers
    <3> QED BY <2>1, <2>5, <2>8, <3>1, <3>2, PutImplements
  <2> QED BY <2>2, <2>6, <2>7, <2>8
<1>2. CASE SelectNone(th)
  BY <1>2, EndImplements DEF SelectNone
<1>3. CASE SelectWaits(th)
  BY <1>3, WaitImplements DEF SelectWaits
<1> QED BY <1>1, <1>2, <1>3

(* vl_sleep_ns and the clock *)
LEMMA SleepImplements ==
  ASSUME FifoInv, NEW th \in Threads, SleepEnds(th) \/ SleepWaits(th) \/ Clock(th)
  PROVE  Implements
<1>1. CASE SleepEnds(th)
  <2>1. held[th] = None
    BY <1>1 DEF SleepEnds, In, FifoInv, Owners, Ownership
  <2> QED BY <1>1, <2>1, EndImplements DEF SleepEnds
<1>2. CASE SleepWaits(th) \/ WaitTimesOut(th)
  BY <1>2, WaitImplements DEF SleepWaits, WaitTimesOut
<1>3. CASE DeadlinePasses(th)
  <2>1. Owners'
    BY <1>3 DEF DeadlinePasses, FifoInv, Owners, Records, Ownership, TimerOwnership, Offers
  <2>2. Ring' /\ Mapped
    BY <1>3, MappedStutter DEF DeadlinePasses, FifoInv, chanVars
  <2> QED BY <2>1, <2>2 DEF Implements
<1> QED BY <1>1, <1>2, <1>3 DEF Clock

(* The program makes a call: it has used what it last received, and may     *)
(* have made a value.                                                       *)
LEMMA StartImplements ==
  ASSUME FifoInv, NEW th \in Threads, NEW what \in Calls, NEW a, Start(th, what, a),
         timer' = timer, what # "idle", what # "handoff",
         \/ MakeValue(th)
         \/ /\ UNCHANGED <<held, made>> /\ what \notin {"send", "try"}
            /\ what = "select" => ~Offers(a),
         what \in {"recv", "close", "sleep"} => UNCHANGED <<held, made>>
  PROVE  Implements
<1>1. /\ call[th] = "idle" /\ call'[th] = what /\ arg'[th] = a
      /\ \A u \in Threads \ {th} : call'[u] = call[u] /\ arg'[u] = arg[u]
  BY DEF Start, FifoInv, Monitor, Ranges
<1>2. /\ ret' \in [Threads -> Returns \cup {None}] /\ ret'[th] = None
      /\ \A u \in Threads \ {th} : ret'[u] = ret[u]
      /\ due' \in [Threads -> BOOLEAN]
  BY DEF Start, FifoInv, Owners, Records
<1>3. Got' = [Got EXCEPT ![th] = None]
  BY <1>2 DEF Got
<1>4. Ring' /\ Queue' = Queue /\ closed' = closed
  BY SameQueues DEF Start, chanVars, FifoInv
<1>5. held[th] = None /\ th \in Sources
  BY <1>1 DEF FifoInv, Owners, Ownership, Sources
<1>6. ASSUME NEW c \in Timers, \A s \in Sources \ {th} : held'[s] = held[s] /\ made'[s] = made[s]
      PROVE  TimerOwnership(c)'
  <2>1. c # th /\ c \in Sources
    BY ChanAssumption DEF Sources
  <2> QED BY <1>6, <2>1 DEF FifoInv, Owners, TimerOwnership
<1>7. ASSUME NEW u \in Threads, u # th,
             \A s \in Sources \ {th} : held'[s] = held[s] /\ made'[s] = made[s]
      PROVE  Ownership(u)'
  BY <1>1, <1>2, <1>7 DEF FifoInv, Owners, Ownership, Offers, Sources
<1>8. CASE MakeValue(th)
  <2>1. made[th] \in Nat /\ made[th] + 1 \in Nat \ {0} /\ <<th, made[th] + 1>> \in Values
    BY <1>5 DEF FifoInv, Owners, Records, Values
  <2>2. <<th, made[th] + 1>> # None
    BY <2>1, NoneAssumption DEF Values, Sources
  <2>3. /\ held' = [held EXCEPT ![th] = <<th, made[th] + 1>>]
        /\ made' = [made EXCEPT ![th] = @ + 1]
    BY <1>8 DEF MakeValue
  <2>4. /\ held' \in [Sources -> Values \cup {None}] /\ held'[th] = <<th, made[th] + 1>>
        /\ made' \in [Sources -> Nat] /\ made'[th] = made[th] + 1
        /\ \A s \in Sources \ {th} : held'[s] = held[s] /\ made'[s] = made[s]
    BY <1>5, <2>1, <2>3 DEF FifoInv, Owners, Records
  <2>5. Fifo!Make(th)
    BY <1>3, <1>4, <1>5, <2>3, <2>4 DEF Fifo!Make
  <2>6. what \in {"send", "try", "select"}
    <3>1. what \in {"recv", "close", "sleep"} => FALSE
      BY <1>5, <2>2, <2>4
    <3> QED BY <3>1 DEF Calls
  <2>7. Ownership(th)'
    BY <1>1, <1>2, <2>1, <2>2, <2>4, <2>6 DEF Ownership
  <2>8. Owners'
    BY <1>2, <1>6, <1>7, <2>4, <2>7 DEF FifoInv, Owners, Records
  <2> QED BY <1>4, <1>5, <2>5, <2>8 DEF Implements, Mapped, Fifo!Next
<1>9. CASE ~MakeValue(th)
  <2>1. /\ UNCHANGED <<held, made>> /\ what \notin {"send", "try"}
        /\ what = "select" => ~Offers(a)
    BY <1>9
  <2>2. Fifo!Use(th)
    BY <1>3, <1>4, <2>1 DEF Fifo!Use
  <2>3. Ownership(th)'
    BY <1>1, <1>2, <1>5, <2>1 DEF Ownership, Offers
  <2>4. Owners'
    BY <1>2, <1>6, <1>7, <2>1, <2>3 DEF FifoInv, Owners, Records
  <2> QED BY <1>4, <2>2, <2>4 DEF Implements, Mapped, Fifo!Next
<1> QED BY <1>8, <1>9

LEMMA ProgramImplements ==
  ASSUME FifoInv, NEW th \in Threads, Program(th)
  PROVE  Implements
<1>1. ASSUME NEW c \in Chans, CallSend(th, c)
      PROVE  Implements
  BY <1>1, StartImplements DEF CallSend, Start, Calls
<1>2. ASSUME NEW c \in Chans, CallRecv(th, c) \/ CallClose(th, c)
      PROVE  Implements
  BY <1>2, StartImplements DEF CallRecv, CallClose, Start, Calls
<1>3. ASSUME NEW s \in Selects, CallSelect(th, s)
      PROVE  Implements
  BY <1>3, StartImplements DEF CallSelect, Start, Calls
<1>4. CASE CallSleep(th)
  BY <1>4, StartImplements DEF CallSleep, Start, Calls
<1>5. ASSUME NEW c \in Timers, CallAfter(th, c)
      PROVE  Implements
  <2>1. /\ timer[c] = "unset" /\ c \in Sources /\ held[c] = None /\ made[c] = 0
    BY <1>5 DEF CallAfter, FifoInv, Owners, TimerOwnership, Sources
  <2>2. /\ held' = [held EXCEPT ![c] = <<c, 1>>] /\ made' = [made EXCEPT ![c] = 1]
        /\ timer' = [timer EXCEPT ![c] = "armed"]
        /\ UNCHANGED <<chanVars, call, arg, ret, due>>
    BY <1>5 DEF CallAfter
  <2>3. <<c, 1>> \in Values /\ <<c, 1>> # None
    BY <2>1, NoneAssumption DEF Values, Sources
  <2>4. /\ held' \in [Sources -> Values \cup {None}] /\ held'[c] = <<c, 1>>
        /\ made' \in [Sources -> Nat] /\ made'[c] = 1
        /\ timer' \in [Timers -> {"unset", "armed", "done"}] /\ timer'[c] = "armed"
        /\ \A s \in Sources \ {c} : held'[s] = held[s] /\ made'[s] = made[s]
        /\ \A d \in Timers \ {c} : timer'[d] = timer[d]
    BY <2>1, <2>2, <2>3 DEF FifoInv, Owners, Records
  <2>5. ASSUME NEW u \in Threads PROVE Ownership(u)'
    <3>1. u # c /\ u \in Sources
      BY ChanAssumption DEF Sources
    <3> QED BY <2>2, <2>4, <3>1 DEF FifoInv, Owners, Ownership, Offers
  <2>6. ASSUME NEW d \in Timers PROVE TimerOwnership(d)'
    BY <2>3, <2>4 DEF FifoInv, Owners, TimerOwnership, Sources
  <2>7. Owners'
    BY <2>2, <2>4, <2>5, <2>6 DEF FifoInv, Owners, Records
  <2>8. Ring' /\ Queue' = Queue /\ Got' = Got
    BY <2>2, SameQueues DEF FifoInv, chanVars, Got
  <2>9. Fifo!Make(c)
    BY <2>1, <2>2, <2>4, <2>8 DEF Fifo!Make, chanVars
  <2> QED BY <2>1, <2>7, <2>8, <2>9 DEF Implements, Mapped, Fifo!Next
<1> QED BY <1>1, <1>2, <1>3, <1>4, <1>5 DEF Program

(* after_main *)
LEMMA TimerImplements ==
  ASSUME FifoInv, NEW c \in Timers, TimerFires(c)
  PROVE  Implements
<1>1. /\ c \in Chans /\ c \in Sources /\ held[c] # None
      /\ timer' = [timer EXCEPT ![c] = "done"] /\ Release(c)
      /\ UNCHANGED <<call, arg, made, ret, due>>
  BY ChanAssumption DEF TimerFires, FifoInv, Owners, TimerOwnership, Sources
<1>2. /\ held' \in [Sources -> Values \cup {None}]
      /\ \A s \in Sources \ {c} : held'[s] = held[s]
      /\ timer' \in [Timers -> {"unset", "armed", "done"}] /\ timer'[c] = "done"
      /\ \A d \in Timers \ {c} : timer'[d] = timer[d]
  BY <1>1 DEF FifoInv, Owners, Records, Release
<1>3. ASSUME NEW u \in Threads PROVE Ownership(u)'
  <2>1. u # c /\ u \in Sources
    BY ChanAssumption DEF Sources
  <2> QED BY <1>1, <1>2, <2>1 DEF FifoInv, Owners, Ownership, Offers
<1>4. ASSUME NEW d \in Timers PROVE TimerOwnership(d)'
  BY <1>1, <1>2 DEF FifoInv, Owners, TimerOwnership, Sources
<1>5. Owners'
  BY <1>1, <1>2, <1>3, <1>4 DEF FifoInv, Owners, Records
<1>6. Got' = Got
  BY <1>1 DEF Got
<1>7. CASE ~closed[c] /\ HasRoom(c)
  BY <1>1, <1>5, <1>6, <1>7, MappedPut DEF TimerFires, FifoInv, Owners, Implements
<1>8. CASE ~(~closed[c] /\ HasRoom(c))
  BY <1>1, <1>5, <1>8, MappedDrop DEF TimerFires, FifoInv, Owners, Implements, chanVars
<1> QED BY <1>7, <1>8

LEMMA InitFifo == Init => FifoInv /\ Fifo!Init
<1> SUFFICES ASSUME Init PROVE FifoInv /\ Fifo!Init
  OBVIOUS
<1>1. \A c \in Chans : Slots(c) \in Nat \ {0}
  BY ChanAssumption DEF Slots
<1>2. /\ slot = [c \in Chans |-> [i \in 0 .. Slots(c) - 1 |-> None]]
      /\ head = [c \in Chans |-> IF Cap[c] = 0 THEN -1 ELSE 0]
      /\ count = [c \in Chans |-> 0] /\ closed = [c \in Chans |-> FALSE]
      /\ call = [th \in Threads |-> "idle"] /\ arg = [th \in Threads |-> None]
      /\ held = [s \in Sources |-> None] /\ made = [s \in Sources |-> 0]
      /\ ret = [th \in Threads |-> None] /\ due = [th \in Threads |-> FALSE]
      /\ timer = [c \in Timers |-> "unset"]
  BY DEF Init
<1>3. Ring
  <2>1. slot = [c \in Chans |-> slot[c]]
        /\ \A c \in Chans : slot[c] \in [0 .. Slots(c) - 1 -> Values \cup {None}]
    BY <1>2
  <2>2. head \in [Chans -> Int]
        /\ \A c \in Chans : IF Cap[c] = 0 THEN head[c] = -1 ELSE head[c] \in 0 .. Slots(c) - 1
    BY <1>1, <1>2
  <2>3. count \in [Chans -> Int] /\ \A c \in Chans : count[c] = 0 /\ count[c] \in 0 .. Slots(c)
    BY <1>1, <1>2
  <2> QED BY <2>1, <2>2, <2>3 DEF Ring
<1>4. Owners
  BY <1>2, ChanAssumption DEF Owners, Records, Ownership, TimerOwnership, Sources
<1>5. Queue = [c \in Chans |-> <<>>]
  <2>1. ASSUME NEW c \in Chans PROVE Contents(c) = <<>>
    <3>1. count[c] = 0
      BY <1>2
    <3>2. Contents(c) \in Seq(Values) /\ Len(Contents(c)) = 0
      BY <1>3, <3>1, Geometry
    <3> QED BY <3>2, EmptySeq
  <2> QED BY <2>1 DEF Queue
<1>6. Got = [th \in Threads |-> None]
  BY <1>2 DEF Got
<1>7. Fifo!Init
  BY <1>2, <1>5, <1>6 DEF Fifo!Init
<1> QED BY <1>3, <1>4, <1>7, InitMonitor DEF FifoInv

LEMMA NextImplements == FifoInv /\ [Next]_vars => FifoInv' /\ Mapped
<1> SUFFICES ASSUME FifoInv, [Next]_vars PROVE FifoInv' /\ Mapped
  OBVIOUS
<1>1. Monitor'
  BY NextMonitor DEF FifoInv
<1>2. ASSUME NEW th \in Threads, Step(th) PROVE Implements
  BY <1>2, SendImplements, RecvImplements, SelectImplements, SleepImplements DEF Step
<1>3. ASSUME NEW th \in Threads, Program(th) \/ Clock(th) PROVE Implements
  BY <1>3, ProgramImplements, SleepImplements
<1>4. ASSUME CancelGroup \/ UNCHANGED vars PROVE Implements
  BY <1>4, WaitImplements DEF CancelGroup, vars
<1>5. Implements
  BY <1>2, <1>3, <1>4, TimerImplements DEF Next
<1> QED BY <1>1, <1>5 DEF FifoInv, Implements

-----------------------------------------------------------------------------
(* A send statement that is over has been received.                         *)
(*                                                                          *)
(* Handed is kept because a value that has left a channel is nobody's to    *)
(* send: what enters a channel is held by its maker, whose call is under    *)
(* way, and a thread that has a report is idle.                             *)
Own == \A s \in Sources : held[s] # None => held[s][1] = s

Over(th) == /\ ret[th] # None /\ ret[th].how = "sent"
            /\ arg[th] \in Chans /\ Cap[ret[th].chan] = 0

Received(th) ==
  LET r == ret[th] IN
  ~InChannel(r.chan, r.value) \/ closed[r.chan] \/ GroupCancelled(th)

Handed == \A th \in Threads : Over(th) => ret[th].value[1] = th /\ Received(th)

LEMMA OwnKept == FifoInv /\ Own /\ Mapped => Own'
<1> SUFFICES ASSUME FifoInv, Own, Mapped PROVE Own'
  OBVIOUS
<1>1. held = [s \in Sources |-> held[s]]
  BY DEF FifoInv, Owners, Records
<1>2. ASSUME NEW s \in Sources, Fifo!Make(s) PROVE Own'
  BY <1>1, <1>2 DEF Fifo!Make, Own
<1>3. ASSUME NEW s \in Sources, held' = held \/ held' = [held EXCEPT ![s] = None] PROVE Own'
  BY <1>1, <1>3 DEF Own
<1>4. ASSUME held' = held PROVE Own'
  BY <1>4 DEF Own
<1>5. ASSUME NEW th \in Threads, Fifo!KeepOrDrop(th) PROVE Own'
  BY <1>3, <1>5 DEF Fifo!KeepOrDrop, Sources
<1> QED BY <1>2, <1>3, <1>4, <1>5
        DEF Mapped, Fifo!Next, Fifo!vars, Fifo!Drop, Fifo!Put, Fifo!Shut, Fifo!Use

(* What is in a channel after a step was there before it or was held. *)
LEMMA EntersHeld ==
  ASSUME FifoInv, Ring', Mapped, NEW c \in Chans, NEW v, InChannel(c, v)'
  PROVE  InChannel(c, v) \/ \E s \in Sources : held[s] # None /\ held[s] = v
<1>1. /\ Contents(c) = Queue[c] /\ Queue[c] \in Seq(Values) /\ count[c] = Len(Queue[c])
      /\ Queue = [d \in Chans |-> Queue[d]]
  BY Geometry DEF Queue, FifoInv
<1>2. Contents(c)' = Queue'[c] /\ count'[c] = Len(Queue'[c])
  <2>1. (Len(Contents(c)) = count[c])'
    <3>1. (count[c] \in Nat)'
      BY ChanAssumption DEF Ring, Slots
    <3>2. (Contents(c) \in [1 .. count[c] -> Values])'
      BY <3>1 DEF Ring, Contents
    <3> QED BY <3>1, <3>2
  <2> QED BY <2>1 DEF Queue
<1>3. PICK i \in 1 .. Len(Queue'[c]) : Queue'[c][i] = v
  BY <1>2 DEF InChannel
<1>4. CASE Queue' = Queue
  BY <1>1, <1>3, <1>4 DEF InChannel
<1>5. ASSUME NEW s \in Sources, NEW d \in Chans, Fifo!Put(s, d)
      PROVE  InChannel(c, v) \/ \E q \in Sources : held[q] # None /\ held[q] = v
  <2>1. held[s] # None /\ held[s] \in Values /\ Queue' = [Queue EXCEPT ![d] = Append(@, held[s])]
    BY <1>5 DEF Fifo!Put, FifoInv, Owners, Records
  <2>2. CASE d # c
    BY <1>1, <1>3, <2>1, <2>2 DEF InChannel
  <2>3. CASE d = c
    <3>1. Queue'[c] = Append(Queue[c], held[s])
      BY <1>1, <2>1, <2>3
    <3>2. CASE i = Len(Queue[c]) + 1
      BY <1>1, <1>3, <2>1, <3>1, <3>2, AppendProperties
    <3>3. CASE i \in 1 .. Len(Queue[c])
      BY <1>1, <1>3, <2>1, <3>1, <3>3, AppendProperties DEF InChannel
    <3> QED BY <1>1, <2>1, <3>1, <3>2, <3>3, AppendProperties, LenProperties
  <2> QED BY <2>2, <2>3
<1>6. ASSUME NEW th \in Threads, NEW d \in Chans, Fifo!Take(th, d)
      PROVE  InChannel(c, v)
  <2>1. Queue[d] # <<>> /\ Queue' = [Queue EXCEPT ![d] = Tail(@)]
    BY <1>6 DEF Fifo!Take
  <2>2. CASE d # c
    BY <1>1, <1>3, <2>1, <2>2 DEF InChannel
  <2>3. CASE d = c
    <3>1. Queue'[c] = Tail(Queue[c])
      BY <1>1, <2>1, <2>3
    <3>2. i + 1 \in 1 .. Len(Queue[c]) /\ Queue[c][i + 1] = v
      BY <1>1, <1>3, <2>1, <2>3, <3>1, HeadTailProperties, LenProperties
    <3> QED BY <1>1, <3>2 DEF InChannel
  <2> QED BY <2>2, <2>3
<1> QED BY <1>4, <1>5, <1>6
        DEF Mapped, Fifo!Next, Fifo!vars, Fifo!Make, Fifo!Drop, Fifo!Shut, Fifo!Use

(* Closing and cancelling are for good. *)
LEMMA ForGood ==
  ASSUME FifoInv, [Next]_vars, Mapped
  PROVE  /\ \A c \in Chans : closed[c] => closed'[c]
         /\ cancelled => cancelled'
<1>1. \A c \in Chans : closed[c] => closed'[c]
  <2>1. closed \in [Chans -> BOOLEAN]
    BY DEF FifoInv, Monitor, Ranges
  <2>2. ASSUME NEW c \in Chans, Fifo!Shut(c) PROVE \A d \in Chans : closed[d] => closed'[d]
    BY <2>1, <2>2 DEF Fifo!Shut
  <2>3. closed' = closed \/ \E c \in Chans : Fifo!Shut(c)
    BY DEF Mapped, Fifo!Next, Fifo!vars, Fifo!Make, Fifo!Drop, Fifo!Put, Fifo!Take, Fifo!Use
  <2> QED BY <2>2, <2>3
<1>2. cancelled => cancelled'
  <2>1. ASSUME NEW th \in Threads, Step(th) PROVE cancelled' = cancelled
    BY <2>1 DEF Step, SendRefused, SendWaits, SendPuts, HandoffReturns, HandoffWaits, TrySend,
       RecvTakes, RecvEnds, RecvWaits, Close, SelectCase, SelectNone, SelectWaits,
       SleepEnds, SleepWaits
  <2>2. ASSUME NEW th \in Threads, Program(th) \/ Clock(th) PROVE cancelled' = cancelled
    BY <2>2 DEF Program, CallSend, CallRecv, CallClose, CallSelect, CallSleep, CallAfter, Start,
       Clock, WaitTimesOut, DeadlinePasses
  <2>3. ASSUME NEW c \in Timers, TimerFires(c) PROVE cancelled' = cancelled
    BY <2>3 DEF TimerFires
  <2> QED BY <2>1, <2>2, <2>3 DEF Next, CancelGroup, vars
<1> QED BY <1>1, <1>2

(* Only the end of a handoff makes a send statement on an unbuffered        *)
(* channel over.                                                            *)
LEMMA OnlyHandoff ==
  ASSUME FifoInv, [Next]_vars, NEW th \in Threads, Over(th)'
  PROVE  (Over(th) /\ ret'[th] = ret[th]) \/ HandoffReturns(th)
<1>1. CASE ret'[th] = ret[th] /\ arg'[th] = arg[th]
  BY <1>1 DEF Over
<1>2. ASSUME NEW u \in Threads, NEW what, NEW a, Start(u, what, a)
      PROVE  Over(th)
  <2>1. u # th
    BY <1>2 DEF Start, Over, FifoInv, Owners, Records
  <2> QED BY <1>1, <1>2, <2>1 DEF Start, FifoInv, Owners, Records, Monitor, Ranges, Over
<1>3. ASSUME NEW u \in Threads, Program(u) PROVE Over(th) /\ ret'[th] = ret[th]
  <2>1. ASSUME NEW what, NEW a, Start(u, what, a) PROVE Over(th) /\ ret'[th] = ret[th]
    <3>1. u # th
      BY <2>1 DEF Start, Over, FifoInv, Owners, Records
    <3> QED BY <1>2, <2>1, <3>1 DEF Start, FifoInv, Owners, Records
  <2>2. ASSUME NEW c \in Timers, CallAfter(u, c) PROVE Over(th) /\ ret'[th] = ret[th]
    BY <2>2 DEF CallAfter, Over
  <2> QED BY <1>3, <2>1, <2>2 DEF Program, CallSend, CallRecv, CallClose, CallSelect, CallSleep
<1>4. ASSUME ret' = ret, arg' = arg PROVE Over(th) /\ ret'[th] = ret[th]
  BY <1>4 DEF Over
<1>5. ASSUME NEW u \in Threads, NEW how, NEW c, NEW v, Report(u, how, c, v), arg' = arg,
             how = "received" \/ arg[u] \notin Chans \/ Cap[c] # 0
      PROVE  Over(th) /\ ret'[th] = ret[th]
  <2>1. u # th
    BY <1>5 DEF Report, Over, FifoInv, Owners, Records
  <2>2. ret'[th] = ret[th]
    BY <1>5, <2>1 DEF Report, FifoInv, Owners, Records
  <2> QED BY <1>5, <2>2 DEF Over
<1>6. \A c \in Chans : ~Rendezvous(c) => Cap[c] # 0
  BY DEF Rendezvous, FifoInv, Ring
<1>7. ASSUME NEW u \in Threads, Step(u)
      PROVE  (Over(th) /\ ret'[th] = ret[th]) \/ HandoffReturns(th)
  <2>1. CASE SendPuts(u) \/ TrySend(u)
    <3>1. arg[u] \in Chans
      BY <2>1 DEF SendPuts, TrySend, In, FifoInv, Monitor, Arguments
    <3> QED BY <1>4, <1>5, <1>6, <2>1, <3>1 DEF SendPuts, TrySend
  <2>2. CASE RecvTakes(u)
    BY <1>5, <2>2 DEF RecvTakes
  <2>3. CASE SelectCase(u)
    <3>1. arg[u] \notin Chans
      BY <2>3, SelectAssumption DEF SelectCase, In, FifoInv, Monitor, Arguments
    <3> QED BY <1>4, <1>5, <2>3, <3>1 DEF SelectCase
  <2>4. CASE HandoffReturns(u)
    <3>1. CASE u = th
      BY <2>4, <3>1
    <3>2. CASE u # th
      BY <1>1, <2>4, <3>2 DEF HandoffReturns, Report, FifoInv, Owners, Records
    <3> QED BY <3>1, <3>2
  <2>5. CASE ret' = ret /\ arg' = arg
    BY <1>4, <2>5
  <2> QED BY <1>7, <2>1, <2>2, <2>3, <2>4, <2>5
          DEF Step, SendRefused, SendWaits, HandoffWaits, RecvEnds, RecvWaits, Close,
              SelectNone, SelectWaits, SleepEnds, SleepWaits, callVars
<1>8. ASSUME NEW u \in Threads, Clock(u) PROVE Over(th) /\ ret'[th] = ret[th]
  BY <1>4, <1>8 DEF Clock, WaitTimesOut, DeadlinePasses, callVars
<1>9. CASE CancelGroup \/ UNCHANGED vars
  BY <1>4, <1>9 DEF CancelGroup, vars, callVars
<1>10. ASSUME NEW c \in Timers, TimerFires(c) PROVE Over(th) /\ ret'[th] = ret[th]
  BY <1>4, <1>10 DEF TimerFires
<1> QED BY <1>3, <1>7, <1>8, <1>9, <1>10 DEF Next

LEMMA HandedKept ==
  ASSUME FifoInv, FifoInv', Own, Handed, [Next]_vars, Mapped
  PROVE  Handed'
<1> SUFFICES ASSUME NEW th \in Threads, Over(th)'
             PROVE  (ret[th].value[1] = th /\ Received(th))'
  BY DEF Handed
<1>3. CASE Over(th) /\ ret'[th] = ret[th]
  <2> DEFINE r == ret[th]
             c == r.chan
             v == r.value
  <2>1. r \in Returns /\ c \in Chans
    BY <1>3 DEF FifoInv, Owners, Records, Over, Returns
  <2>2. v[1] = th /\ Received(th)
    BY <1>3 DEF Handed
  <2>3. \/ ~InChannel(c, v)'
        \/ closed'[c]
        \/ GroupCancelled(th)'
    <3>1. CASE closed[c] \/ GroupCancelled(th)
      BY <2>1, <3>1, ForGood DEF GroupCancelled
    <3>2. CASE ~InChannel(c, v)
      <4> SUFFICES ASSUME InChannel(c, v)' PROVE FALSE
        BY <1>3
      <4>1. PICK s \in Sources : held[s] # None /\ held[s] = v
        BY <1>3, <2>1, <3>2, EntersHeld DEF FifoInv
      <4>2. s = th
        BY <2>2, <4>1 DEF Own
      <4>3. call[th] = "idle"
        BY <1>3 DEF Over, FifoInv, Owners, Ownership
      <4> QED BY <4>1, <4>2, <4>3 DEF FifoInv, Owners, Ownership
    <3> QED BY <2>2, <3>1, <3>2 DEF Received
  <2> QED BY <1>3, <2>2, <2>3 DEF Received
<1>4. CASE HandoffReturns(th)
  <2> DEFINE c == arg[th]
  <2>1. /\ HandoffOver(th)
        /\ ret' = [ret EXCEPT ![th] = [how |-> "sent", chan |-> c, value |-> <<th, made[th]>>]]
        /\ UNCHANGED <<slot, head, count, closed, cancelled>>
    BY <1>4 DEF HandoffReturns, Report, chanVars
  <2>2. ret'[th].chan = c /\ ret'[th].value[1] = th
    BY <2>1 DEF FifoInv, Owners, Records
  <2>3. CASE count[c] = 0
    <3>1. ~InChannel(ret[th].chan, ret[th].value)'
      BY <2>1, <2>2, <2>3 DEF InChannel
    <3> QED BY <2>2, <3>1 DEF Received
  <2>4. CASE closed[c] \/ GroupCancelled(th)
    BY <2>1, <2>2, <2>4 DEF Received, GroupCancelled
  <2> QED BY <2>1, <2>3, <2>4 DEF HandoffOver
<1> QED BY <1>3, <1>4, OnlyHandoff

-----------------------------------------------------------------------------
(* Head and count stay inside the ring, and every variable in its range,    *)
(* however sends, receives, selects, timers and closes are interleaved.     *)
THEOREM TypeCorrect == Spec => []TypeOK
<1>1. FifoInv => TypeOK
  BY DEF FifoInv, Monitor, Ranges, Ring, Owners, Records, TypeOK
<1> QED BY <1>1, InitFifo, NextImplements, PTL DEF Spec

(* vl_chan_send, vl_chan_try_send, vl_chan_recv_ok, vl_select, vl_chan_close *)
(* and after_main together keep each channel a first-in-first-out queue that *)
(* loses and doubles nothing and admits nothing once closed or full.         *)
THEOREM RingImplementsFifo == Spec => ImplementsFifo
<1>1. Init => Fifo!Init
  BY InitFifo
<1>2. FifoInv /\ [Next]_vars => [Fifo!Next]_(Fifo!vars)
  BY NextImplements DEF Mapped
<1> QED BY <1>1, <1>2, InitFifo, NextImplements, PTL DEF Spec, ImplementsFifo, Fifo!Spec

(* A send statement on an unbuffered channel that is over has been received, *)
(* or the channel is closed, or the sender cancelled: no later value, timer  *)
(* or select brings it back.                                                 *)
THEOREM SendIsSynchronous == Spec => []SendStatementSynchronous
<1>1. Init => Own /\ Handed
  BY DEF Init, Own, Handed, Over, Sources
<1>2. FifoInv /\ FifoInv' /\ Own /\ Handed /\ [Next]_vars => Own' /\ Handed'
  BY NextImplements, OwnKept, HandedKept
<1>3. Handed => SendStatementSynchronous
  BY DEF Handed, Over, Received, SendStatementSynchronous
<1> QED BY <1>1, <1>2, <1>3, InitFifo, NextImplements, PTL DEF Spec
=============================================================================
