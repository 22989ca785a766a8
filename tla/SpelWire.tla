------------------------------ MODULE SpelWire ------------------------------
(***************************************************************************)
(* One direction of a TCP connection: threads that call sendFrame on the   *)
(* same socket, and the thread at the other end that calls recvFrame.      *)
(* sendFrame hands a frame to TCP in up to three sendAll calls, header,    *)
(* payload and CRC, under no lock; recvFrame reads a header, believes its  *)
(* length, reads that many bytes more and two of CRC, and gives the        *)
(* connection up when something does not fit: it never looks for the next  *)
(* frame.                                                                  *)
(*                                                                         *)
(* The stream is a sequence of cells, a cell being one or more bytes of a  *)
(* frame.  Two abstractions: a CRC matches only the bytes it was computed  *)
(* from, and a header that mixes bytes of several frames may bear any      *)
(* length and may or may not begin with SP_HEAD.                           *)
(***************************************************************************)
EXTENDS Naturals, Sequences

CONSTANTS
    Writers,        \* the threads that call sendFrame on the socket
    Script,         \* bound: the frames each of them sends, with the size of
                    \* the payload and whether the caller tests the result
    Interruptible,  \* the writers whose send() a signal may interrupt
    Resets,         \* may the connection end by a RST?
    HeaderSize,     \* sizeof(Header), in cells
    CrcSize,        \* of the CRC, in cells
    Modulus         \* 2^32: Header.len and paylen are uint32_t

Sizes == 0..Modulus

ASSUME SizeAssumption ==
    /\ HeaderSize \in Nat \ {0} /\ CrcSize \in Nat \ {0} /\ Modulus \in Nat
    /\ HeaderSize + CrcSize < Modulus
ASSUME ScriptAssumption ==
    /\ Script \in [Writers -> Seq([size : Sizes, tested : BOOLEAN])]
    /\ Interruptible \subseteq Writers /\ Resets \in BOOLEAN
    /\ \A w \in Writers : \A k \in DOMAIN Script[w] :
          HeaderSize + Script[w][k].size + CrcSize < Modulus

VARIABLES
    at,      \* the frame each writer is at: its index in the script
    off,     \* how many of its cells TCP has taken
    end,     \* how the connection ended: "none" (not yet), "orderly", "reset"
    stream,  \* the cells TCP has taken, in order
    start,   \* how many of them the reader had read when its frame began
    phase,   \* what it reads next: "header", "payload", "crc"; "gone": nothing
    paylen,  \* the payload size it has derived from the header
    heard    \* history: the frames it has accepted, and how many cells it had
             \* read when each of them began

writeVars == <<at, off>>
readVars  == <<start, phase, paylen, heard>>
vars      == <<writeVars, end, stream, readVars>>

Frames == UNION {{<<w, k>> : k \in DOMAIN Script[w]} : w \in Writers}

Size(f)  == Script[f[1]][f[2]].size
Whole(f) == HeaderSize + Size(f) + CrcSize

\* The cells of frame f from the i-th to the j-th
Cells(f, i, j) == [n \in 1..(j - i + 1) |-> <<f, i + n - 1>>]

\* Neither end has ended the connection.
Open == end = "none"

Init ==
    /\ at = [w \in Writers |-> 1]
    /\ off = [w \in Writers |-> 0]
    /\ end = "none"
    /\ stream = <<>>
    /\ start = 0 /\ phase = "header" /\ paylen = 0 /\ heard = <<>>

-----------------------------------------------------------------------------
(* The length field, in the width it has *)

\* Faulty variant of Total: the CRC is not counted.
TotalWithoutCrc(size) == (HeaderSize + size) % Modulus

\* Header.len as sendFrame writes it
Total(size) == (HeaderSize + size + CrcSize) % Modulus

\* Faulty variant of PayLen: a signed difference.
PayLenSigned(len) == len - (HeaderSize + CrcSize)

\* recvFrame's test of Header.len, and the payload size it takes from it
TooSmall(len) == len < HeaderSize
PayLen(len)   == (len + Modulus - (HeaderSize + CrcSize)) % Modulus

-----------------------------------------------------------------------------
(* sendFrame *)

Busy(w) == at[w] <= Len(Script[w])

\* The end of the sendAll call that a writer is in: header, payload or CRC
CallEnd(w) ==
    LET f == <<w, at[w]>>
    IN  IF off[w] < HeaderSize THEN HeaderSize
        ELSE IF off[w] < HeaderSize + Size(f) THEN HeaderSize + Size(f)
        ELSE Whole(f)

\* send() takes n cells; sendAll goes on, or sendFrame with the next call.
Put(w) ==
    /\ Busy(w) /\ Open
    /\ \E n \in 1..(CallEnd(w) - off[w]) :
          LET f == <<w, at[w]>>
          IN  /\ stream' = stream \o Cells(f, off[w] + 1, off[w] + n)
              /\ IF off[w] + n = Whole(f)
                 THEN /\ at' = [at EXCEPT ![w] = @ + 1]
                      /\ off' = [off EXCEPT ![w] = 0]
                 ELSE /\ off' = [off EXCEPT ![w] = @ + n]
                      /\ UNCHANGED at
    /\ UNCHANGED <<end, readVars>>

\* send() fails: sendFrame leaves its frame where it stands.  A caller that
\* does not test the result goes on to its next frame.
PutFails(w) ==
    /\ Busy(w)
    /\ ~Open \/ w \in Interruptible
    /\ off' = [off EXCEPT ![w] = 0]
    /\ at' = [at EXCEPT ![w] = IF Script[w][@].tested THEN Len(Script[w]) + 1
                               ELSE @ + 1]
    /\ UNCHANGED <<end, stream, readVars>>

-----------------------------------------------------------------------------
(* recvFrame, and its caller's break when it returns false *)

Ready(n) == start + n <= Len(stream)
Taken(n) == SubSeq(stream, start + 1, start + n)

\* The values Header.len may have: the one of the frame when the header is its
\* first cells, any when cells of several frames got mixed.
LengthsSeen ==
    LET f == stream[start + 1][1]
    IN  IF Taken(HeaderSize) = Cells(f, 1, HeaderSize) THEN {Total(Size(f))}
        ELSE 0..(Modulus - 1)

\* SP_HEAD is missing, or the length is too small.
HeaderUnfit(len) ==
    \/ Taken(HeaderSize) # Cells(stream[start + 1][1], 1, HeaderSize)
    \/ TooSmall(len)

RecvHeader ==
    /\ phase = "header" /\ Ready(HeaderSize)
    /\ \E len \in LengthsSeen :
          \/ /\ HeaderUnfit(len)
             /\ phase' = "gone" /\ UNCHANGED paylen
          \/ /\ ~TooSmall(len)
             /\ phase' = "payload" /\ paylen' = PayLen(len)
    /\ UNCHANGED <<writeVars, end, stream, start, heard>>

RecvPayload ==
    /\ phase = "payload" /\ Ready(HeaderSize + paylen)
    /\ phase' = "crc"
    /\ UNCHANGED <<writeVars, end, stream, start, paylen, heard>>

\* Faulty variant of CrcMatches: the CRC covers the header only.
HeaderCrcMatches(n) ==
    Taken(HeaderSize) = Cells(stream[start + 1][1], 1, HeaderSize)

\* The CRC is the one of the bytes read: they are one frame.
CrcMatches(n) ==
    LET f == stream[start + 1][1]
    IN  n = Whole(f) /\ Taken(n) = Cells(f, 1, n)

RecvCrc ==
    LET n == HeaderSize + paylen + CrcSize
    IN  /\ phase = "crc" /\ Ready(n)
        /\ IF CrcMatches(n)
           THEN /\ heard' = Append(heard, [frame |-> stream[start + 1][1], from |-> start])
                /\ start' = start + n
                /\ phase' = "header"
           ELSE phase' = "gone" /\ UNCHANGED <<heard, start>>
        /\ UNCHANGED <<writeVars, end, stream, paylen>>

Wanted == CASE phase = "header"  -> HeaderSize
            [] phase = "payload" -> HeaderSize + paylen
            [] OTHER             -> HeaderSize + paylen + CrcSize

\* Faulty variant of RecvEof: what TCP still holds is thrown away.
RecvEofAtOnce ==
    /\ phase # "gone" /\ ~Open
    /\ phase' = "gone"
    /\ UNCHANGED <<writeVars, end, stream, start, paylen, heard>>

\* The stream ends before what recvAll waits for.
RecvEof ==
    /\ phase # "gone" /\ ~Open /\ ~Ready(Wanted)
    /\ phase' = "gone"
    /\ UNCHANGED <<writeVars, end, stream, start, paylen, heard>>

-----------------------------------------------------------------------------
\* The FIN of an end that has read what the other one sent: nothing is lost.
Shut ==
    /\ Open
    /\ end' = "orderly"
    /\ UNCHANGED <<writeVars, stream, readVars>>

\* The cells that recvAll has returned
Consumed == start + CASE phase = "payload" -> HeaderSize
                      [] phase = "crc"     -> HeaderSize + paylen
                      [] OTHER             -> 0

\* A RST, as close() sends with unread data in its socket, a writer that vanishes,
\* or a retransmission that times out: some of what the reader has not read is lost.
Reset ==
    /\ Resets /\ Open
    /\ end' = "reset"
    /\ \E n \in Consumed..Len(stream) : stream' = SubSeq(stream, 1, n)
    /\ UNCHANGED <<writeVars, readVars>>

Read == RecvHeader \/ RecvPayload \/ RecvCrc \/ RecvEof

Next == \/ \E w \in Writers : Put(w) \/ PutFails(w)
        \/ Read
        \/ Shut \/ Reset

Spec == Init /\ [][Next]_vars

\* The reader runs when there is something to read.
FairSpec == Spec /\ WF_vars(Read)

-----------------------------------------------------------------------------
(* Properties *)

\* The shape of the state.
TypeOK ==
    /\ at \in [Writers -> Nat \ {0}] /\ off \in [Writers -> Nat]
    /\ end \in {"none", "orderly", "reset"}
    /\ stream \in Seq(Frames \X Nat)
    /\ start \in 0..Len(stream) /\ paylen \in 0..(Modulus - 1)
    /\ phase \in {"header", "payload", "crc", "gone"}
    /\ heard \in Seq([frame : Frames, from : Nat])

\* What the reader accepted is what the stream begins with: every accepted
\* frame is one that a writer sent, intact, and between two of them no byte was
\* skipped, although frames of two writers may be mixed or cut short.
End(h) == h.from + Whole(h.frame)

InStep ==
    /\ \A i \in DOMAIN heard :
          /\ SubSeq(stream, heard[i].from + 1, End(heard[i])) =
                 Cells(heard[i].frame, 1, Whole(heard[i].frame))
          /\ heard[i].from = IF i = 1 THEN 0 ELSE End(heard[i - 1])
    /\ start = IF heard = <<>> THEN 0 ELSE End(heard[Len(heard)])

\* Cell j of the stream continues the frame that cell j - 1 belongs to, or
\* begins a frame after the end of one.
Follows(j) ==
    LET f == stream[j][1]
    IN  IF j = 1 THEN stream[j] = <<f, 1>>
        ELSE \/ stream[j] = <<f, stream[j - 1][2] + 1>> /\ stream[j - 1][1] = f
             \/ stream[j][2] = 1 /\ stream[j - 1][2] = Whole(stream[j - 1][1])

Clean(n) == \A j \in 1..n : Follows(j)

\* While the connection is open the reader gives it up only over a stream in
\* which two writers mixed their frames or one left a frame unfinished.
GivenUpMeansMixed == phase = "gone" /\ Open => ~Clean(Len(stream))

\* A connection with one writer that no signal disturbs never breaks by itself:
\* whatever the sizes of the payloads, the reader stays until the stream ends.
NeverGivenUp == phase = "gone" => ~Open

\* A frame that went out whole, with nothing damaged before it, is accepted even
\* if the connection is shut right behind it; only a RST may cost it.
WholeFramesArrive ==
    \A f \in Frames :
        (\E j \in 1..Len(stream) : stream[j] = <<f, Whole(f)>> /\ Clean(j))
            ~> (end = "reset" \/ \E i \in DOMAIN heard : heard[i].frame = f)

\* The connection implements FrameChannel: a frame counts as sent when its writer
\* has left it, whole or not.
Channel == INSTANCE FrameChannel WITH
              Senders <- Writers, Frames <- [w \in Writers |-> Len(Script[w])],
              sent <- [w \in Writers |-> at[w] - 1],
              got <- [i \in DOMAIN heard |-> heard[i].frame],
              failed <- phase = "gone"

ImplementsChannel == Channel!ChannelSpec

-----------------------------------------------------------------------------
(* What a comment says of the code, and the code does not ensure *)

\* spnet_utils.hpp on Header.len: "sizeof(Header) + payload_size + 2".  So the
\* length in a header that recvFrame goes on with is that sum, not a smaller
\* number: paylen is no wrapped difference.
LengthCoversCrc ==
    phase = "payload" => HeaderSize + paylen + CrcSize < Modulus

=============================================================================
