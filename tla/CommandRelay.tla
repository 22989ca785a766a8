---------------------------- MODULE CommandRelay ----------------------------
(***************************************************************************)
(* What the node promises the publishers of commands and the device.       *)
(*                                                                         *)
(* Publications on a topic are numbered.  The node keeps the last one only *)
(* and may tell the device of it over the connection of the moment: an     *)
(* older one may never be told.  On one connection the device hears of a   *)
(* publication at most once and in the order of publication; what it hears *)
(* on a new connection is never older than what it heard on earlier ones,  *)
(* and may be the last one again.                                          *)
(***************************************************************************)
EXTENDS Naturals

CONSTANTS Topics, MaxSession

VARIABLES
    latest,    \* number of the last publication, per topic
    session,   \* number of the connection of the moment
    traffic,   \* frames sent on that connection so far
    told       \* <<session, place among its frames, publication>>, per topic

relayVars == <<latest, session, traffic, told>>

RelayInit ==
    /\ latest = [t \in Topics |-> 0]
    /\ session = 0
    /\ traffic = 0
    /\ told = [t \in Topics |-> {}]

Publish(t) ==
    /\ latest' = [latest EXCEPT ![t] = @ + 1]
    /\ UNCHANGED <<session, traffic, told>>

Reconnect ==
    /\ session < MaxSession
    /\ session' = session + 1
    /\ traffic' = 0
    /\ UNCHANGED <<latest, told>>

\* A frame that stands for no publication: the START_* and STOP_* of the node
Control ==
    /\ session > 0
    /\ traffic' = traffic + 1
    /\ UNCHANGED <<latest, session, told>>

Tell(t, n) ==
    /\ session > 0
    /\ n <= latest[t]
    /\ \A p \in told[t] : IF p[1] = session THEN p[3] < n ELSE p[3] <= n
    /\ told' = [told EXCEPT ![t] = @ \cup {<<session, traffic + 1, n>>}]
    /\ traffic' = traffic + 1
    /\ UNCHANGED <<latest, session>>

RelayNext ==
    \/ \E t \in Topics : Publish(t) \/ \E n \in 1..latest[t] : Tell(t, n)
    \/ Reconnect
    \/ Control

RelaySpec == RelayInit /\ [][RelayNext]_relayVars

-----------------------------------------------------------------------------
(* What follows from it *)

\* Nothing is told but what was published, on a connection there was.
ToldOfPublished ==
    \A t \in Topics : \A p \in told[t] :
        /\ p \in Nat \X Nat \X Nat
        /\ p[3] <= latest[t] /\ p[1] <= session
        /\ p[1] = session => p[2] <= traffic

\* In the order the device hears of them, the publications on a topic never go back,
\* and on one connection each comes at most once.
ToldInOrder ==
    \A t \in Topics : \A p, q \in told[t] :
        /\ p[1] < q[1] => p[3] <= q[3]
        /\ p[1] = q[1] /\ p[2] < q[2] => p[3] < q[3]

=============================================================================
