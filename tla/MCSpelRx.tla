------------------------------ MODULE MCSpelRx ------------------------------
(* Values for the constants of SpelRx that a cfg cannot write down. *)
EXTENDS SpelRx

\* An odometry packet, a cloud of one point, one whose count is wrong
OdomAndClouds == {[size |-> 340, points |-> 7], [size |-> 28, points |-> 1],
                  [size |-> 28, points |-> 2]}

\* A payload of every packet, of a cloud and of clouds that are too short, and
\* texts of no byte, of the greatest length and of one more
OfEveryKind ==
    {[size |-> PacketSize(d), points |-> 0] :
        d \in DataTypes \ (StringTypes \cup {"HOKUYO_CLOUD2"})} \cup
    {[size |-> 52, points |-> 2], [size |-> 4, points |-> 0],
     [size |-> 3, points |-> 0], [size |-> 0, points |-> 0],
     [size |-> MaxStringBytes, points |-> 0],
     [size |-> MaxStringBytes + 1, points |-> 0]}
=============================================================================
