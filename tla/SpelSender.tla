----------------------------- MODULE SpelSender -----------------------------
(***************************************************************************)
(* send_uint8_command, run again and again, at times in two terminals at   *)
(* once, and the subscription of the node it sends to.                     *)
(*                                                                         *)
(* A run of the tool reads its argument with atoi, waits 200 ms for the    *)
(* node to be discovered, publishes, waits 200 ms more and ends.  Nobody   *)
(* tells it whether the node has got the message: discovery may take       *)
(* longer.  Publisher and subscription are transient local, so a node      *)
(* that is discovered late, or has been restarted meanwhile, is still sent *)
(* what a living tool has published.                                       *)
(***************************************************************************)
EXTENDS Integers, Sequences

CONSTANTS
    Arguments,  \* what a user may type: nothing, a word or a number, as a
                \* record of its form and, if it is a number, its value
    MaxRuns,    \* bound on the runs of the tool
    MaxLives,   \* bound on the starts of the node
    Depth,      \* KeepLast: what a subscription holds for its callback
    LongHalf,   \* 2^63: long is -2^63..2^63 - 1
    IntHalf,    \* 2^31: int is -2^31..2^31 - 1
    Bytes       \* 2^8: uint8_t is 0..2^8 - 1

ASSUME SenderAssumption ==
    /\ MaxRuns \in Nat /\ MaxLives \in Nat /\ Depth \in Nat \ {0}
    /\ Bytes \in Nat \ {0} /\ IntHalf \in Nat /\ Bytes <= IntHalf
    /\ LongHalf \in Nat /\ LongHalf % (2 * IntHalf) = 0
    /\ \A a \in Arguments : a.form = "number" => a.value \in Int

Runs == 1..MaxRuns

VARIABLES
    pc,       \* each run of the tool: "new", "waiting" (for discovery),
              \* "lingering" (after the publication), "ended"
    typed,    \* its argument
    data,     \* the data of its message
    earlier,  \* history: the runs that had ended when this one began
    life,     \* the starts of the node so far
    up,       \* "off"; "connecting": subscribed, in setupSocket; "spinning"
    matched,  \* the runs whose publisher and the node have discovered each other
    sent,     \* the runs whose message has gone to the subscription of this life
    queue,    \* the runs whose message waits for the callback
    got       \* history: the runs the callback was called for

toolVars == <<pc, typed, data, earlier>>
nodeVars == <<life, up, matched, sent, queue, got>>
vars     == <<toolVars, nodeVars>>

Init ==
    /\ pc = [r \in Runs |-> "new"] /\ typed = [r \in Runs |-> [form |-> "none"]]
    /\ data = [r \in Runs |-> 0] /\ earlier = [r \in Runs |-> {}]
    /\ life = 0 /\ up = "off"
    /\ matched = {} /\ sent = {} /\ queue = <<>> /\ got = <<>>

-----------------------------------------------------------------------------
(* The tool *)

IsNumber(a) == a.form = "number"

\* strtol stops at the ends of a long.
Long(n) == IF n >= LongHalf THEN LongHalf - 1 ELSE IF n < -LongHalf THEN -LongHalf ELSE n

CutToInt(n) == ((n + IntHalf) % (2 * IntHalf)) - IntHalf

\* atoi: 0 for what is not a number.  What does not fit an int is undefined; in the
\* builds atoi is strtol, cut to the width of an int.
Atoi(a) == IF IsNumber(a) THEN CutToInt(Long(a.value)) ELSE 0

\* Faulty variant of Valid: only negative numbers are refused.
ValidIfPositive(value) == value >= 0

Valid(value) == ~(value < 0 \/ value > Bytes - 1)

Begin(r, a) ==
    /\ pc[r] = "new" /\ \A q \in 1..(r - 1) : pc[q] # "new"
    /\ typed' = [typed EXCEPT ![r] = a]
    /\ earlier' = [earlier EXCEPT ![r] = {q \in Runs : pc[q] = "ended"}]
    /\ IF a.form # "none" /\ Valid(Atoi(a))
       THEN /\ pc' = [pc EXCEPT ![r] = "waiting"]
            /\ data' = [data EXCEPT ![r] = Atoi(a) % Bytes]
       ELSE pc' = [pc EXCEPT ![r] = "ended"] /\ UNCHANGED data
    /\ UNCHANGED nodeVars

Publish(r) ==
    /\ pc[r] = "waiting"
    /\ pc' = [pc EXCEPT ![r] = "lingering"]
    /\ UNCHANGED <<typed, data, earlier, nodeVars>>

\* The second sleep is over, or SIGINT ends one of the two.
End(r) ==
    /\ pc[r] \in {"waiting", "lingering"}
    /\ pc' = [pc EXCEPT ![r] = "ended"]
    /\ matched' = matched \ {r}
    /\ UNCHANGED <<typed, data, earlier, life, up, sent, queue, got>>

-----------------------------------------------------------------------------
(* Discovery and transport *)

Match(r) ==
    /\ up # "off" /\ pc[r] \in {"waiting", "lingering"}
    /\ matched' = matched \cup {r}
    /\ UNCHANGED <<toolVars, life, up, sent, queue, got>>

\* Faulty variant of Retained: the message outlives its publisher.
RetainedForEver(r) == r \notin sent /\ pc[r] \in {"lingering", "ended"}

\* The publisher of r has a message that this subscription has not been sent.
Retained(r) == r \in matched \ sent /\ pc[r] = "lingering"

\* KeepLast drops the oldest message of a full subscription.
Deliver(r) ==
    /\ up # "off" /\ Retained(r)
    /\ sent' = sent \cup {r}
    /\ queue' = LET q == Append(queue, r)
                IN  IF Len(q) > Depth THEN Tail(q) ELSE q
    /\ UNCHANGED <<toolVars, life, up, matched, got>>

-----------------------------------------------------------------------------
(* The node *)

\* The constructor: subscribed, then setupSocket
Start ==
    /\ up = "off" /\ life < MaxLives
    /\ up' = "connecting" /\ life' = life + 1
    /\ UNCHANGED <<toolVars, matched, sent, queue, got>>

Spin ==
    /\ up = "connecting"
    /\ up' = "spinning"
    /\ UNCHANGED <<toolVars, life, matched, sent, queue, got>>

Callback ==
    /\ up = "spinning" /\ queue # <<>>
    /\ got' = Append(got, Head(queue))
    /\ queue' = Tail(queue)
    /\ UNCHANGED <<toolVars, life, up, matched, sent>>

\* exit(1) when the device does not answer, or SIGINT
Stop ==
    /\ up # "off"
    /\ up' = "off" /\ matched' = {} /\ sent' = {} /\ queue' = <<>>
    /\ UNCHANGED <<toolVars, life, got>>

Next == \/ \E r \in Runs : \/ \E a \in Arguments : Begin(r, a)
                           \/ Publish(r) \/ End(r) \/ Match(r) \/ Deliver(r)
        \/ Start \/ Spin \/ Callback \/ Stop

Spec == Init /\ [][Next]_vars

-----------------------------------------------------------------------------
(* Properties *)

\* Runs in succession are heard in succession: the callback is never called for a
\* run of the tool after it was called for one that began when the former had
\* ended, whatever discovery, queue and restarts of the node do.  So the node is
\* never taken back to an earlier command of the user.
RunsHeardInOrder ==
    \A i, j \in DOMAIN got : i < j => got[j] \notin earlier[got[i]]

\* What may become of an argument: a number n for uint8_t.  It differs from the number
\* typed by a multiple of 2^32, which is 0 if an int has room for that number.
Becomes(a, n) ==
    /\ n \in 0..(Bytes - 1)
    /\ IF ~IsNumber(a) THEN n = 0
       ELSE IF a.value \in -LongHalf..(LongHalf - 1)
       THEN (a.value - n) % (2 * IntHalf) = 0
       ELSE n = 0 /\ a.value < 0

\* The callback hears a number the user typed unaltered if an int has room for it.
\* The range is checked only behind atoi, so that a larger number may be heard too:
\* as what an int has left of it, if that is a byte.  A word is heard as 0, and so is
\* a number below every long.  The cast to uint8_t cuts nothing more.
HeardAsRead == \A i \in DOMAIN got : Becomes(typed[got[i]], data[got[i]])

=============================================================================
