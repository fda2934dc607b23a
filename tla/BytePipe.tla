------------------------------ MODULE BytePipe ------------------------------
(* One direction of a terminal line: the bytes 1, 2, 3, ... go in and come *)
(* out in that order, none lost, none twice and none made up.              *)
EXTENDS Naturals, Sequences

VARIABLES
    sent,    \* the bytes that went in
    queue,   \* those on their way
    last     \* those delivered last

Init == sent = 0 /\ queue = <<>> /\ last = <<>>

Send ==
    /\ sent' > sent
    /\ queue' = queue \o [i \in 1 .. (sent' - sent) |-> sent + i]
    /\ last' = last

Deliver ==
    /\ sent' = sent
    /\ \E n \in 1 .. Len(queue) :
          /\ last' = SubSeq(queue, 1, n)
          /\ queue' = SubSeq(queue, n + 1, Len(queue))

Next == Send \/ Deliver
Spec == Init /\ [][Next]_<<sent, queue, last>>
=============================================================================
