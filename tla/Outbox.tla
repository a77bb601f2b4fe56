------------------------------- MODULE Outbox -------------------------------
(***************************************************************************)
(* What AVRController promises of Send(): messages reach the serial port   *)
(* in the order they were accepted, each at most once; only closing the    *)
(* port discards what has not been sent.                                   *)
(***************************************************************************)
EXTENDS Sequences

CONSTANT Messages

VARIABLES
    outbox,   \* accepted, not yet on the wire
    wire,     \* everything written to the port, in order
    closing   \* the port is being closed, or closed

Init == outbox = <<>> /\ wire = <<>> /\ closing = TRUE

Accept(m) == outbox' = Append(outbox, m) /\ UNCHANGED <<wire, closing>>

Transmit ==
    /\ outbox # <<>>
    /\ wire' = Append(wire, Head(outbox))
    /\ outbox' = Tail(outbox)
    /\ UNCHANGED closing

Discard == closing /\ outbox' = <<>> /\ UNCHANGED <<wire, closing>>

OpenOrClose == closing' = ~closing /\ UNCHANGED <<outbox, wire>>

Next == (\E m \in Messages : Accept(m)) \/ Transmit \/ Discard \/ OpenOrClose

Spec == Init /\ [][Next]_<<outbox, wire, closing>>
=============================================================================
