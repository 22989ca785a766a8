---------------------------- MODULE SpelPayloads ----------------------------
(***************************************************************************)
(* What a frame carries, from the message of its sender to the message the *)
(* node publishes: a packet, a cloud, the diagnostics, or the time in the  *)
(* header.  spelClientRxLoop chooses the functions by the data type of the *)
(* frame, and those for one type touch nothing that belongs to another.    *)
(* So a behaviour follows one path from beginning to end; the variables of *)
(* the others are at rest.                                                 *)
(***************************************************************************)
EXTENDS SpelClouds, SpelStamps

CONSTANTS
    Lengths,  \* SpelPackets: the lengths of texts
    Base, Target, Reports  \* SpelDiagnostics

ASSUME LengthAssumption == Lengths \subseteq Nat

VARIABLES
    path,          \* what the frames carry
    type,          \* the type of a packet
    device, node,  \* the byte orders of the two machines
    origin, msg, pkt, stage, rounds  \* a packet's or the diagnostics' way

packetVars     == <<type, origin, msg, pkt, stage, rounds>>
diagnosticVars == <<device, node, origin, msg, pkt, stage, rounds>>
vars           == <<path, type, diagnosticVars, cloudVars, stampVars>>

Packets == INSTANCE SpelPackets
               WITH source <- origin, phase <- stage, passes <- rounds
Diag == INSTANCE SpelDiagnostics
               WITH source <- origin, phase <- stage, passes <- rounds

ASSUME DiagnosticsAssumption ==
    /\ Base \in Nat /\ Base > 3
    /\ \A m \in Reports : Diag!IsMessage(m)

NoPacket == type = "none"
NoMachines == device = "none" /\ node = "none"
NoMessage == origin = <<>> /\ msg = <<>> /\ pkt = <<>> /\ stage = "none" /\ rounds = 0
NoCloud   == source = None /\ cloud = None /\ pl = Empty /\ phase = "none" /\ passes = 0
NoHeader  == from = Unknown /\ hdr = HeaderTime(0) /\ ns = Unknown /\ stamp = NoStamp

Init ==
    \/ /\ path = "packet" /\ Packets!Init
       /\ NoMachines /\ NoCloud /\ NoHeader
    \/ /\ path = "diagnostics" /\ Diag!Init
       /\ NoPacket /\ NoCloud /\ NoHeader
    \/ /\ path = "cloud" /\ CloudInit
       /\ NoPacket /\ NoMachines /\ NoMessage /\ NoHeader
    \/ /\ path = "stamp" /\ StampInit
       /\ NoPacket /\ NoMachines /\ NoMessage /\ NoCloud

PacketStep ==
    /\ path = "packet" /\ Packets!Next
    /\ UNCHANGED <<path, device, node, cloudVars, stampVars>>

DiagnosticStep ==
    /\ path = "diagnostics" /\ Diag!Next
    /\ UNCHANGED <<path, type, cloudVars, stampVars>>

CloudStep ==
    /\ path = "cloud" /\ CloudNext
    /\ UNCHANGED <<path, type, diagnosticVars, stampVars>>

StampStep ==
    /\ path = "stamp" /\ StampNext
    /\ UNCHANGED <<path, type, diagnosticVars, cloudVars>>

Next == PacketStep \/ DiagnosticStep \/ CloudStep \/ StampStep

Spec == Init /\ [][Next]_vars

-----------------------------------------------------------------------------
(* Properties; those of SpelClouds and SpelStamps are taken as they are *)

\* What a packet carries arrives in the field it came from, cut at most to what the
\* member has room for; nothing is read past the end of an array.
FieldsSurvive == path = "packet" => Packets!FieldsSurvive

\* The message of the sample publisher comes back entry by entry.
SampleUnchanged == path = "diagnostics" => Diag!SampleUnchanged

\* Numbers in diagnostics are shown as they were, or as 0, between machines of
\* whatever byte orders.
NumbersKept == path = "diagnostics" => Diag!NumbersKept

\* Diagnostics, which may lose blanks the first time, do not change after the second.
DiagnosticsSettled == [][path = "diagnostics" => Diag!Stays]_vars

=============================================================================
