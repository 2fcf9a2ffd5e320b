---------------------------- MODULE FrameChannel ----------------------------
(***************************************************************************)
(* What the transmit path promises to the network stack, without queues,   *)
(* counters, aggregation or flow control: a channel that is first-in       *)
(* first-out for each priority. Frames are numbered as they are offered.   *)
(***************************************************************************)
EXTENDS Integers, Sequences

CONSTANTS
    Prios,
    MayLose   \* whether accepted frames may be lost

VARIABLES
    chan,     \* for each priority, the frames accepted and not yet out
    last,     \* for each priority, the last frame that reached the chip
    posted    \* frames offered so far

vars == <<chan, last, posted>>

Init ==
    /\ chan = [p \in Prios |-> <<>>]
    /\ last = [p \in Prios |-> 0]
    /\ posted = 0

\* A frame is offered; the channel takes it or refuses it.
Offer(p) ==
    /\ posted' = posted + 1
    /\ chan' \in {chan, [chan EXCEPT ![p] = Append(@, posted')]}
    /\ UNCHANGED last

\* For each priority the n[p] oldest frames.
Counts == {n \in [Prios -> 0 .. posted] : \A p \in Prios : n[p] <= Len(chan[p])}

Drop(n) == chan' = [p \in Prios |-> SubSeq(chan[p], n[p] + 1, Len(chan[p]))]

\* The oldest frames reach the chip ...
Deliver ==
    \E n \in Counts :
        /\ Drop(n)
        /\ last' = [p \in Prios |-> IF n[p] = 0 THEN last[p] ELSE chan[p][n[p]]]
        /\ UNCHANGED posted

\* ... or are lost.
Lose ==
    /\ MayLose
    /\ \E n \in Counts : Drop(n)
    /\ UNCHANGED <<last, posted>>

Next == (\E p \in Prios : Offer(p)) \/ Deliver \/ Lose

Spec == Init /\ [][Next]_vars
=============================================================================
