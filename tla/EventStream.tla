---------------------------- MODULE EventStream ----------------------------
(***************************************************************************)
(* What one connection promises its subscriber (spec 4.6 and 8.3), with   *)
(* the handlers, the SQL and the transaction ids left out: events are     *)
(* numbered 1, 2, 3... as they are produced; the bounded channel takes    *)
(* each one when it has room and loses it only when it is full; the       *)
(* subscriber takes the oldest.                                           *)
(***************************************************************************)
EXTENDS Naturals, Sequences

CONSTANT Cap    \* capacity of the channel

VARIABLES
    n,      \* number of events produced so far
    chan    \* numbers of the events waiting on the channel, oldest first

Init == n = 0 /\ chan = << >>

(* Event n + 1 is produced; it is dropped only when the channel is full.  *)
Produce ==
    /\ n' = n + 1
    /\ \/ Len(chan) < Cap /\ chan' = Append(chan, n + 1)
       \/ Len(chan) >= Cap /\ chan' = chan

Consume ==
    /\ chan # << >>
    /\ chan' = Tail(chan)
    /\ n' = n

Next == Produce \/ Consume

Spec == Init /\ [][Next]_<<n, chan>>

=============================================================================
