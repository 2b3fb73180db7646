----------------------------- MODULE MCChannels -----------------------------
(* Two threads, a and b; ch is buffered, un is not, tm is a timer's. *)
EXTENDS Channels, TLC

CONSTANTS a, b, ch, un, tm

Caps == [c \in Chans |-> IF c = un THEN 0 ELSE IF c = tm THEN 1 ELSE 2]

TwoAndOne == [th \in Threads |-> IF th = a THEN 2 ELSE 1]
OneEach   == [th \in Threads |-> 1]

RecvFrom(c) == [dir |-> "recv", chan |-> c]
SendOn(c)   == [dir |-> "send", chan |-> c]

TwoWay == {[cases |-> <<RecvFrom(ch), SendOn(un)>>, default |-> FALSE]}
Timed  == {[cases |-> <<RecvFrom(un), RecvFrom(tm)>>, default |-> FALSE],
           [cases |-> <<SendOn(un)>>, default |-> TRUE]}
=============================================================================
