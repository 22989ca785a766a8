---------------------------- MODULE FrameChannel ----------------------------
(***************************************************************************)
(* What a connection promises those who call sendFrame and recvFrame.      *)
(*                                                                         *)
(* Every writer sends numbered frames, one after the other, and may leave  *)
(* some unfinished.  The reader gets a frame only when its writer is done  *)
(* with it, every frame at most once, the frames of one writer in the      *)
(* order of their numbers; how those of several writers alternate is open. *)
(* The channel may fail at any time, and then delivers nothing any more.   *)
(***************************************************************************)
EXTENDS Naturals, Sequences

CONSTANTS Senders, Frames  \* writers, and how many frames each of them has

VARIABLES
    sent,   \* the frames each writer is done with, whole or not
    got,    \* the frames the reader got: <<writer, number>>
    failed  \* the reader has given up

channelVars == <<sent, got, failed>>

ChannelInit ==
    /\ sent = [w \in Senders |-> 0]
    /\ got = <<>>
    /\ failed = FALSE

Send(w) ==
    /\ \E n \in 1..Frames[w] : n > sent[w] /\ sent' = [sent EXCEPT ![w] = n]
    /\ UNCHANGED <<got, failed>>

Deliver(w, n) ==
    /\ ~failed
    /\ n <= sent[w]
    /\ \A i \in DOMAIN got : got[i][1] = w => got[i][2] < n
    /\ got' = Append(got, <<w, n>>)
    /\ UNCHANGED <<sent, failed>>

Fail ==
    /\ failed' = TRUE
    /\ UNCHANGED <<sent, got>>

ChannelNext ==
    \/ \E w \in Senders : Send(w) \/ \E n \in 1..Frames[w] : Deliver(w, n)
    \/ Fail

ChannelSpec == ChannelInit /\ [][ChannelNext]_channelVars

-----------------------------------------------------------------------------
(* What follows from it *)

\* What the reader has got was sent, and the frames of one writer stand there in the
\* order of their numbers, none of them twice.
GotInOrder ==
    /\ \A i \in DOMAIN got : got[i][2] <= sent[got[i][1]]
    /\ \A i, j \in DOMAIN got :
          i < j /\ got[i][1] = got[j][1] => got[i][2] < got[j][2]

=============================================================================
