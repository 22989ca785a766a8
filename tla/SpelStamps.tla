----------------------------- MODULE SpelStamps -----------------------------
(***************************************************************************)
(* A time on its way through a frame.  The sender splits nanoseconds into  *)
(* the sec and nsec of the header; the receiver makes nanoseconds of them  *)
(* again and publishes them, as rclcpp::Time converts them or, with        *)
(* diagnostics, as publishDiagnostics does.  A header has two uint32_t, a  *)
(* published stamp an int32_t and a uint32_t.                              *)
(***************************************************************************)
EXTENDS Integers

CONSTANTS
    Half,    \* 2^31: one more than the greatest int32_t
    Second,  \* 1000000000: nanoseconds in a second
    Instants \* the times a sender may send at, in nanoseconds

ASSUME StampAssumption ==
    /\ Half \in Nat \ {0} /\ Second \in Nat \ {0} /\ Second < 2 * Half
    /\ Instants \subseteq Nat

VARIABLES
    from,   \* history: the instant the header was made of, Unknown for others
    hdr,    \* sec and nsec of the last header
    ns,     \* the nanoseconds the receiver made of it, or Unknown
    stamp   \* the stamp published with them, or NoStamp

stampVars == <<from, hdr, ns, stamp>>

Unknown == -1
NoStamp    == [none |-> TRUE]

Low32(n) == n % (2 * Half)
Int32(n)  == IF Low32(n) < Half THEN Low32(n) ELSE Low32(n) - 2 * Half

\* What spelClientTxLoop and spelClientClose put into a header
HeaderTime(t) == [sec |-> Low32(t \div Second), nsec |-> Low32(t % Second)]

Headers == [sec : 0 .. 2 * Half - 1, nsec : 0 .. 2 * Half - 1]

\* A device may send any header; nothing keeps its nsec below a second.
Send ==
    /\ \/ from' \in Instants /\ hdr' = HeaderTime(from')
       \/ from' = Unknown /\ hdr' \in Headers
    /\ ns' = Unknown /\ stamp' = NoStamp

\* Faulty variant of Nanoseconds: the product is computed in 32 bits.
NanosecondsNarrow(h) == Low32(h.sec * Second) + h.nsec

\* spelClientRxLoop computes in a uint64_t, which has room for every header.
Nanoseconds(h) == h.sec * Second + h.nsec

Receive ==
    /\ ns = Unknown
    /\ ns' = Nanoseconds(hdr)
    /\ UNCHANGED <<from, hdr, stamp>>

\* The stamp of a message that is given rclcpp::Time(t)
RosTime(t) == [sec |-> Int32(t \div Second), nanosec |-> t % Second]

DiagnosticsTime(t) == [sec |-> Int32(t \div Second), nanosec |-> Low32(t % Second)]

PublishStamp ==
    /\ ns # Unknown /\ stamp = NoStamp
    /\ stamp' \in {RosTime(ns), DiagnosticsTime(ns)}
    /\ UNCHANGED <<from, hdr, ns>>

StampInit == /\ from = Unknown /\ hdr \in Headers
        /\ ns = Unknown /\ stamp = NoStamp

StampNext == Send \/ Receive \/ PublishStamp

-----------------------------------------------------------------------------
(* Properties *)

\* The instant a stamp stands for
Shows(s, t) == s.sec * Second + s.nanosec = t /\ s.nanosec \in 0 .. Second - 1

\* Until 2038, where an int32_t of seconds ends, a published stamp stands for the
\* instant of the header, even of one with more than a second of nsec, and for the
\* instant its sender meant; its nanoseconds are less than a second, so that stamps
\* can be compared.
SameInstant ==
    stamp # NoStamp =>
        /\ hdr.sec * Second + hdr.nsec < Half * Second =>
              Shows(stamp, hdr.sec * Second + hdr.nsec)
        /\ from # Unknown /\ from < Half * Second => Shows(stamp, from)

=============================================================================
