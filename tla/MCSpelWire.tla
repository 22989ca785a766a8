---------------------------- MODULE MCSpelWire ----------------------------
(* Values for the constants of SpelWire that a cfg cannot write down. *)
EXTENDS SpelWire

CONSTANTS tx, main, device

F(n, tested) == [size |-> n, tested |-> tested]

\* The node at shutdown: tx in a START frame and then a SET_IP_ADDRESS, which has
\* a payload, while the destructor writes a STOP frame
NodeScript == [w \in {tx, main} |->
    IF w = tx THEN <<F(0, FALSE), F(1, TRUE)>> ELSE <<F(0, FALSE)>>]

\* The device: frames of every payload size from none up
DeviceScript == [w \in {device} |-> <<F(3, TRUE), F(0, TRUE), F(1, TRUE), F(4, TRUE)>>]
=============================================================================
