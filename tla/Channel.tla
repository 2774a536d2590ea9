------------------------------ MODULE Channel ------------------------------
(***************************************************************************)
(* What the coordinator and the workers take a TcpSocket for: a channel    *)
(* that delivers whole messages in the order in which they were sent, and  *)
(* that, when the connection is lost, loses the end of that order at most. *)
(***************************************************************************)
EXTENDS Sequences, Naturals

CONSTANT Messages

VARIABLES queue, received, open

Init == queue = <<>> /\ received = <<>> /\ open = TRUE

Send(m) ==
    /\ open
    /\ queue' = Append(queue, m)
    /\ UNCHANGED <<received, open>>

Receive ==
    /\ queue # <<>>
    /\ received' = Append(received, Head(queue))
    /\ queue' = Tail(queue)
    /\ UNCHANGED open

Lose ==
    /\ open' = FALSE
    /\ \E n \in 0..Len(queue) : queue' = SubSeq(queue, 1, n)
    /\ UNCHANGED received

Next == (\E m \in Messages : Send(m)) \/ Receive \/ Lose

Spec == Init /\ [][Next]_<<queue, received, open>>

=============================================================================
