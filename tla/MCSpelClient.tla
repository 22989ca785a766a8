---------------------------- MODULE MCSpelClient ----------------------------
(* Values for the constants of SpelClient that a cfg cannot write down. *)
EXTENDS SpelClient

CONSTANTS
    Cmds, Ips,      \* publications on the two topics
    address, junk   \* an IP address, and a string that is none

PubsPerTopic == [ch \in Channels |-> IF ch = "cmd" THEN Cmds ELSE Ips]
=============================================================================
