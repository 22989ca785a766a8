----------------------------- MODULE SpelClouds -----------------------------
(***************************************************************************)
(* A point cloud on its way through a packet.  hokuyoCloud2ToPayload makes *)
(* a payload of a PointCloud2, parseHokuyoCloud2Payload tests a payload    *)
(* and publishHokuyoCloud2 makes a PointCloud2 of it.  Their counts and    *)
(* sizes have different widths: uint32_t and size_t.  What they do to the  *)
(* points depends on where the first of them wraps.                        *)
(*                                                                         *)
(* A point is stood for by its number in the cloud it came from; a field   *)
(* that the cloud does not have is filled from some other bytes.           *)
(***************************************************************************)
EXTENDS Integers

CONSTANTS
    Wrap,        \* 2^32: where a uint32_t starts again at 0
    HeaderSize,  \* 4: sizeof(PointCloudPacketHeader)
    PointSize,   \* 24: sizeof(PointXYZIT)
    Clouds,      \* clouds to start with: records [width, height, step, fields]
    MaxPasses    \* bound: how often a cloud is converted and published

Fields == {"x", "y", "z", "intensity", "sec", "nsec"}

\* A cloud to start with may be of any size, also one no payload has room for.
ASSUME CloudAssumption ==
    /\ Wrap \in Nat \ {0} /\ HeaderSize \in Nat \ {0} /\ PointSize \in Nat \ {0}
    /\ MaxPasses \in Nat
    /\ \A c \in Clouds :
          /\ c.width \in Nat /\ c.height \in Nat /\ c.step \in Nat \ {0}
          /\ c.fields \subseteq Fields

VARIABLES
    source,  \* history: the cloud at first; None if a payload came first
    cloud,   \* the cloud at hand, or the one last published
    pl,      \* the payload: its size, what its header says, its points
    phase,   \* "cloud": to be converted; "payload": to be parsed; "refused";
             \* "crashed": the converter has written past its payload
    passes   \* how often it was published

cloudVars == <<source, cloud, pl, phase, passes>>

None  == [none |-> TRUE]
Other == "bytes of something else"

Uint32(n) == n % Wrap

-----------------------------------------------------------------------------
(* PayloadConverter::hokuyoCloud2ToPayload *)

\* Faulty variant of NumPoints: the points of the first row only.
NumPointsOfRow(c) == IF c.height = 0 THEN 0 ELSE Uint32(c.width)

NumPoints(c) == Uint32(c.width * c.height)

\* The size pl is given: both the product and the sum are cut to 32 bits.
PayloadSize(num) == Uint32(HeaderSize + Uint32(num * PointSize))

\* What the loop copies as field f of point i: i * point_step is computed in
\* 32 bits, and a field that was not found is at offset -1.
Copied(c, i, f) ==
    LET at == Uint32(i * c.step)
    IN  IF f \in c.fields /\ at % c.step = 0 THEN c.points[at \div c.step][f] ELSE Other

HasPosition(c) == {"x", "y", "z"} \subseteq c.fields

\* pl.clear(): the frame of a cloud without positions has no payload.
Empty == [size |-> 0, num |-> 0, points |-> <<>>]

Payload(c) ==
    LET num == NumPoints(c)
    IN  [size   |-> PayloadSize(num),
         num    |-> num,
         points |-> [i \in 0 .. num - 1 |-> [f \in Fields |-> Copied(c, i, f)]]]

\* How far the converter writes: the header, and the points of a cloud with positions
Written(c) == HeaderSize + (IF HasPosition(c) THEN NumPoints(c) * PointSize ELSE 0)

ConvertCloud ==
    /\ phase = "cloud" /\ passes < MaxPasses
    /\ pl' = IF HasPosition(cloud) THEN Payload(cloud) ELSE Empty
    /\ phase' = "payload"
    /\ UNCHANGED <<source, cloud, passes>>

\* Writing past pl is undefined: in the builds it ends the process or is not noticed.
Overrun ==
    /\ phase = "cloud" /\ passes < MaxPasses
    /\ Written(cloud) > PayloadSize(NumPoints(cloud))
    /\ phase' = "crashed"
    /\ UNCHANGED <<source, cloud, pl, passes>>

-----------------------------------------------------------------------------
(* HokuyoSpelParser::parseHokuyoCloud2Payload *)

\* Faulty variant of ExpectedSize: computed in 32 bits.
ExpectedSizeNarrow(num) == Uint32(HeaderSize + Uint32(num * PointSize))

\* The size is computed in a size_t.
ExpectedSize(num) == HeaderSize + num * PointSize

Parses(p) == p.size >= HeaderSize /\ p.size = ExpectedSize(p.num)

Refuse ==
    /\ phase = "payload" /\ ~Parses(pl)
    /\ phase' = "refused"
    /\ UNCHANGED <<source, cloud, pl, passes>>

-----------------------------------------------------------------------------
(* HokuyoSpelPublisher::publishHokuyoCloud2 *)

\* data is resized to row_step, a uint32_t, times a height of 1; memcpy then
\* writes as many bytes as the points have, counted in a size_t.
Cloud(p) ==
    [width  |-> p.num, height |-> 1, step |-> PointSize, fields |-> Fields,
     data   |-> Uint32(PointSize * p.num), written |-> p.num * PointSize,
     points |-> p.points]

PublishCloud ==
    /\ phase = "payload" /\ Parses(pl)
    /\ cloud' = Cloud(pl)
    /\ phase' = "cloud" /\ passes' = passes + 1
    /\ UNCHANGED <<source, pl>>

-----------------------------------------------------------------------------

\* A cloud of a driver is consistent: it has width * height points.
Filled(c) ==
    [width |-> c.width, height |-> c.height, step |-> c.step, fields |-> c.fields,
     data |-> (c.width * c.height) * c.step, written |-> (c.width * c.height) * c.step,
     points |-> [i \in 0 .. c.width * c.height - 1 |->
                    [f \in Fields |-> IF f \in c.fields THEN i ELSE Other]]]

\* What a frame may bring: a payload of any size, whose header may say anything
Payloads == [size : 0 .. Wrap - 1, num : 0 .. Wrap - 1]

CloudInit ==
    /\ passes = 0
    /\ \/ /\ source \in Clouds /\ cloud = Filled(source)
          /\ pl = Empty /\ phase = "cloud"
       \/ /\ source = None /\ cloud = None
          /\ \E p \in Payloads :
                pl = [size   |-> p.size,
                      num    |-> p.num,
                      points |-> [i \in 0 .. p.num - 1 |-> [f \in Fields |-> i]]]
          /\ phase = "payload"

CloudNext == ConvertCloud \/ Overrun \/ PublishCloud \/ Refuse

-----------------------------------------------------------------------------
(* Properties *)

\* Whatever a frame's payload says of itself, the memcpy of publishHokuyoCloud2
\* writes exactly the bytes data was resized to, and reads exactly the bytes
\* behind the header of the payload.
CopyFits ==
    passes > 0 => /\ cloud.written = cloud.data
                  /\ phase = "cloud" => HeaderSize + cloud.written = pl.size

\* Whether a payload of less than 2^32 bytes has room for so many points
HasRoom(num) == HeaderSize + num * PointSize < Wrap

\* A cloud with positions that has room in a payload is converted, parsed and
\* published, as often as one likes, with all its points, those of all rows, in the
\* same order.  One that has no room may crash the converter, but is not published
\* with a part of its points: the parser, which counts in a size_t, refuses what the
\* converter, which counts in 32 bits, cuts.  Only where the number of points itself
\* does not fit 32 bits is a part published, the first of them.  Of a point that
\* starts below 2^32 bytes in the data every field is kept that the cloud had.
\* A cloud without positions is never published.
PointsKept ==
    source # None =>
        LET count == Uint32(source.width * source.height)
        IN  IF HasPosition(source)
            THEN /\ HasRoom(count) => phase \notin {"refused", "crashed"}
                 /\ passes > 0 =>
                       /\ HasRoom(count) /\ cloud.width * cloud.height = count
                       /\ \A i \in 0 .. count - 1, f \in source.fields :
                             i * source.step < Wrap => cloud.points[i][f] = i
            ELSE passes = 0

=============================================================================
