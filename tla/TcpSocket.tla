----------------------------- MODULE TcpSocket -----------------------------
(***************************************************************************)
(* One direction of a connection (src/protocol.cpp): threads that send     *)
(* frames on one TcpSocket under its write mutex, in as many partial       *)
(* writes as the kernel takes, and the thread that reads them, header      *)
(* first.  The connection may be lost at any byte.                         *)
(*                                                                         *)
(* A frame is a sequence of units: HeaderUnits that say which message and  *)
(* how long, the payload, and the checksum.  A unit is a piece of a frame  *)
(* the kernel may split off, so a unit stands for one or more bytes.       *)
(*                                                                         *)
(* The socket blocks, as the code leaves it: a full buffer makes ::send    *)
(* wait, and it is assumed to fail only on a connection that was lost.  A  *)
(* failure for another reason, in the middle of a frame, would leave the   *)
(* rest of that frame missing on a connection that goes on.                *)
(***************************************************************************)
EXTENDS Naturals, Sequences, FiniteSets

CONSTANTS
    Threads,     \* the threads that share the sending socket
    Messages,    \* wire messages
    Size,        \* payload units of each message
    HeaderUnits,
    Capacity,    \* units the kernel buffers
    MaxSends,    \* bound on the messages sent
    Nobody       \* holder of a free mutex

ASSUME SocketConstants ==
    /\ Size \in [Messages -> Nat]
    /\ {HeaderUnits, Capacity} \subseteq Nat \ {0}
    /\ MaxSends \in Nat /\ Nobody \notin Threads

VARIABLES
    wmu,      \* holder of wmu_
    left,     \* what each thread has still to send of its frame
    wire,     \* units under way
    open,     \* whether the connection still carries what is sent
    buf,      \* units of the frame being received
    reader,   \* reading, or gone after recv() answered false
    received, \* the messages recv() returned
    sent      \* history: the messages in the order their sends took wmu_
              \* while the connection was open

vars == <<wmu, left, wire, open, buf, reader, received, sent>>
sender == <<wmu, left, sent>>
receiver == <<buf, reader, received>>

\* encode_frame: header, payload, checksum.
encode_frame(m) ==
    [i \in 1..(HeaderUnits + Size[m] + 1) |-> [message |-> m, unit |-> i]]

Init ==
    /\ wmu = Nobody /\ left = [t \in Threads |-> <<>>]
    /\ wire = <<>> /\ open = TRUE
    /\ buf = <<>> /\ reader = "reading" /\ received = <<>>
    /\ sent = <<>>

-----------------------------------------------------------------------------
(* TcpSocket::send                                                         *)

\* Mutant: the write mutex is not taken.
Lock_unlocked(t) == left[t] = <<>>

Lock(t) == wmu = Nobody

Begin(t, m) ==
    /\ Lock(t) /\ Len(sent) < MaxSends
    /\ wmu' = t
    /\ left' = [left EXCEPT ![t] = encode_frame(m)]
    /\ sent' = IF open THEN Append(sent, m) ELSE sent
    /\ UNCHANGED <<wire, open, receiver>>

\* Mutant: a partial write is taken for the whole.
Remaining_after_one_write(t, n) == <<>>

Remaining(t, n) == SubSeq(left[t], n + 1, Len(left[t]))

\* One iteration of send_all: the kernel takes n units.  The end of the frame
\* ends the call.  On a lost connection it may still take what nobody gets.
Transmit(t, n) ==
    /\ n \in 1..Len(left[t])
    /\ \/ /\ open /\ Len(wire) + n <= Capacity
          /\ wire' = wire \o SubSeq(left[t], 1, n)
       \/ ~open /\ UNCHANGED wire
    /\ left' = [left EXCEPT ![t] = Remaining(t, n)]
    /\ wmu' = IF left'[t] = <<>> THEN Nobody ELSE wmu
    /\ UNCHANGED <<open, sent, receiver>>

\* ::send fails, on a lost connection: the rest of the frame is dropped.
SendFails(t) ==
    /\ left[t] # <<>> /\ ~open
    /\ left' = [left EXCEPT ![t] = <<>>]
    /\ wmu' = Nobody
    /\ UNCHANGED <<wire, open, sent, receiver>>

-----------------------------------------------------------------------------
(* TcpSocket::recv                                                         *)

\* The length in the header, if the units received so far are a header.
HeaderOf(m, units) ==
    /\ Len(units) >= HeaderUnits
    /\ SubSeq(units, 1, HeaderUnits) = SubSeq(encode_frame(m), 1, HeaderUnits)

ValidHeader(units) == \E m \in Messages : HeaderOf(m, units)

\* Mutant: the second read also asks for what follows the frame.
Wanted_too_much(units) ==
    IF ValidHeader(units)
    THEN Len(encode_frame(CHOOSE m \in Messages : HeaderOf(m, units))) + 1
    ELSE HeaderUnits

\* How many units recv_all waits for: the header, then the whole frame.
Wanted(units) ==
    IF ValidHeader(units)
    THEN Len(encode_frame(CHOOSE m \in Messages : HeaderOf(m, units)))
    ELSE HeaderUnits

\* decode_frame and decode_wire: the checksum holds for one message's frame.
decode_frame(units) == {m \in Messages : units = encode_frame(m)}

\* recv_all got n more units.  A complete header is checked before the body
\* is asked for; a complete frame is decoded and returned.
Recv(n) ==
    LET got == buf \o SubSeq(wire, 1, n)
        whole == Len(got) >= Wanted(got)
        decoded == IF whole THEN decode_frame(got) ELSE {}
    IN
    /\ reader = "reading"
    /\ n \in 1..Len(wire) /\ n <= Wanted(buf) - Len(buf)
    /\ wire' = SubSeq(wire, n + 1, Len(wire))
    /\ buf' = IF whole THEN <<>> ELSE got
    /\ IF decoded = {} THEN UNCHANGED received
       ELSE \E m \in decoded : received' = Append(received, m)
    /\ reader' = IF whole /\ decoded = {} THEN "gone" ELSE "reading"
    /\ UNCHANGED <<open, sender>>

\* Mutant: a frame that was cut short is delivered.
EndOfStream_short_frame ==
    /\ reader = "reading" /\ ~open /\ wire = <<>>
    /\ buf' = <<>> /\ reader' = "gone"
    /\ received' = IF ValidHeader(buf) THEN Append(received, buf[1].message)
                   ELSE received
    /\ UNCHANGED <<wire, open, sender>>

\* ::recv answers that the connection ended: what was read of a frame is
\* dropped, and the reading thread takes the peer for lost.
EndOfStream ==
    /\ reader = "reading" /\ ~open /\ wire = <<>>
    /\ buf' = <<>> /\ reader' = "gone"
    /\ UNCHANGED <<wire, open, received, sender>>

\* The peer is killed or closes; of what is under way the end may be lost.
Cut(n) ==
    /\ open /\ n \in 0..Len(wire)
    /\ open' = FALSE
    /\ wire' = SubSeq(wire, 1, n)
    /\ UNCHANGED <<sender, receiver>>

-----------------------------------------------------------------------------
Send(t) == SendFails(t) \/ \E n \in 1..Capacity : Transmit(t, n)

Receive == EndOfStream \/ \E n \in 1..Capacity : Recv(n)

Next ==
    \/ \E t \in Threads : Send(t) \/ \E m \in Messages : Begin(t, m)
    \/ Receive
    \/ \E n \in 0..Capacity : Cut(n)

\* Threads that can go on do; nobody has to send or to be killed.
Fairness == WF_vars(Receive) /\ \A t \in Threads : WF_vars(Send(t))

Spec == Init /\ [][Next]_vars /\ Fairness

-----------------------------------------------------------------------------
(* Properties.                                                             *)

Units == UNION {{encode_frame(m)[i] : i \in DOMAIN encode_frame(m)} : m \in Messages}

\* The state is well formed; what is buffered is less than a frame.
TypeOK ==
    /\ wmu \in Threads \cup {Nobody}
    /\ left \in [Threads -> Seq(Units)]
    /\ wire \in Seq(Units) /\ Len(wire) <= Capacity
    /\ open \in BOOLEAN
    /\ buf \in Seq(Units) /\ decode_frame(buf) = {}
    /\ reader \in {"reading", "gone"}
    /\ received \in Seq(Messages) /\ sent \in Seq(Messages)

\* recv() answers false, and so declares the peer lost, only after the
\* connection really ended: threads that write to one socket never make a
\* frame the reader rejects, however their writes are split.
LostOnlyWhenCut == reader = "gone" => ~open

\* A message arrives unless the connection is lost, since nobody waits for
\* anything but the mutex, the kernel's buffer and the peer.
SentIsReceived ==
    \A i \in 1..MaxSends : Len(sent) >= i ~> Len(received) >= i \/ ~open

\* The messages under way: all that were sent, or, once the connection is
\* lost, those whose frames are complete.
WholeFrames(units) ==
    Cardinality({i \in DOMAIN units :
                    units[i].unit = Len(encode_frame(units[i].message))})

UnderWay ==
    IF open THEN SubSeq(sent, Len(received) + 1, Len(sent))
    ELSE SubSeq(sent, Len(received) + 1, Len(received) + WholeFrames(buf \o wire))

Abstract == INSTANCE Channel WITH queue <- UnderWay

\* The socket implements the channel: recv() returns the messages in the order
\* in which their sends took the mutex, whole, and a lost connection loses
\* only the end of that order.
ChannelSpec == Abstract!Spec

=============================================================================
