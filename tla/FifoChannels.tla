---------------------------- MODULE FifoChannels ----------------------------
(***************************************************************************)
(* What a channel promises (voila_specification 9.2): values come out in   *)
(* the order they went in, each exactly once; sending moves the value, so  *)
(* it is with the sender, in the channel, or with one receiver; nothing    *)
(* goes in after close; no more values are held than the channel has room  *)
(* for.  Channels.tla implements this.                                     *)
(***************************************************************************)
EXTENDS Integers, Sequences

CONSTANTS
  Sources,   \* what sends: threads and timers
  Readers,   \* what receives: threads
  Chans, Room, None

VARIABLES
  made,      \* how many values each source has made to send
  held,      \* the value a source is sending and still owns
  queue,     \* the values in each channel, oldest first
  shut,      \* is the channel closed?
  got        \* the value a reader's last receive returned, and its channel

vars == <<made, held, queue, shut, got>>

Init ==
  /\ made = [s \in Sources |-> 0]
  /\ held = [s \in Sources |-> None]
  /\ queue = [c \in Chans |-> <<>>]
  /\ shut = [c \in Chans |-> FALSE]
  /\ got = [r \in Readers |-> None]

(* A source makes a value to send, one it never made before; a reader that *)
(* does has used what it received.                                          *)
Make(s) ==
  /\ held[s] = None
  /\ made' = [made EXCEPT ![s] = @ + 1]
  /\ held' = [held EXCEPT ![s] = <<s, made'[s]>>]
  /\ got' = got \/ (s \in Readers /\ got' = [got EXCEPT ![s] = None])
  /\ UNCHANGED <<queue, shut>>

(* It may give the value up unsent. *)
Drop(s) ==
  /\ held[s] # None
  /\ held' = [held EXCEPT ![s] = None]
  /\ UNCHANGED <<made, queue, shut, got>>

Put(s, c) ==
  /\ held[s] # None
  /\ ~shut[c]
  /\ Len(queue[c]) < Room[c]
  /\ queue' = [queue EXCEPT ![c] = Append(@, held[s])]
  /\ held' = [held EXCEPT ![s] = None]
  /\ UNCHANGED <<made, shut, got>>

Take(r, c) ==
  /\ queue[c] # <<>>
  /\ queue' = [queue EXCEPT ![c] = Tail(@)]
  /\ got' = [got EXCEPT ![r] = [chan |-> c, value |-> Head(queue[c])]]
  /\ UNCHANGED <<made, shut>>

(* A receive from a select that also offered a value gives the value up. *)
KeepOrDrop(r) == held' = held \/ held' = [held EXCEPT ![r] = None]

Shut(c) ==
  /\ ~shut[c]
  /\ shut' = [shut EXCEPT ![c] = TRUE]
  /\ UNCHANGED <<made, held, queue, got>>

(* The program has used what it received. *)
Use(r) ==
  /\ got' = [got EXCEPT ![r] = None]
  /\ UNCHANGED <<made, held, queue, shut>>

Next ==
  \/ \E s \in Sources : Make(s) \/ Drop(s)
  \/ \E s \in Sources, c \in Chans : Put(s, c)
  \/ \E r \in Readers, c \in Chans : Take(r, c) /\ KeepOrDrop(r)
  \/ \E r \in Readers : Use(r)
  \/ \E c \in Chans : Shut(c)

Spec == Init /\ [][Next]_vars
=============================================================================
