----------------------------- MODULE PacketQueue -----------------------------
(***************************************************************************)
(* What the audio path promises, whatever carries it: a bounded queue from *)
(* the mixer to the screen.  The mixer puts in the packets of one stream,  *)
(* numbered by their places in the channel-status block, and leaves none   *)
(* out; the screen hears each of them once, in that order.                 *)
(***************************************************************************)
EXTENDS Integers, Sequences

CONSTANTS Places,    \* packets in a channel-status block
          Capacity

VARIABLES queue,   \* packets on their way
          next,    \* the place of the packet that is put in next
          heard    \* the packet the screen heard last

vars == <<queue, next, heard>>

Init == queue = << >> /\ next = 0 /\ heard = Places - 1

Put ==
  /\ Len(queue) < Capacity
  /\ queue' = Append(queue, next)
  /\ next' = (next + 1) % Places
  /\ UNCHANGED heard

Take ==
  /\ queue # << >>
  /\ heard' = Head(queue)
  /\ queue' = Tail(queue)
  /\ UNCHANGED next

Next == Put \/ Take

Spec == Init /\ [][Next]_vars
=============================================================================
