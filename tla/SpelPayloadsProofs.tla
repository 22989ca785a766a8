-------------------------- MODULE SpelPayloadsProofs --------------------------
(* Proofs about what the frames of SpelPayloads carry, for every width of a  *)
(* number, every size of a member and every length of a text.                *)
EXTENDS SpelPayloads, Sequences, WellFoundedInduction, TLAPS

\* The cloud of a path that carries none is at rest, and no other step moves it.
LEMMA CloudPath ==
    /\ Init => CloudInit \/ NoCloud
    /\ [Next]_vars => CloudNext \/ UNCHANGED cloudVars
  BY DEF Init, Next, PacketStep, DiagnosticStep, CloudStep, StampStep, vars

\* The same for the time in a header
LEMMA StampPath ==
    /\ Init => StampInit \/ NoHeader
    /\ [Next]_vars => StampNext \/ UNCHANGED stampVars
  BY DEF Init, Next, PacketStep, DiagnosticStep, CloudStep, StampStep, vars

-----------------------------------------------------------------------------
(* Clouds: sizes and steps *)

\* Nothing wraps below Wrap.
LEMMA Small ==
    ASSUME NEW n \in Nat, n < Wrap
    PROVE  Uint32(n) = n
  BY CloudAssumption DEF Uint32

LEMMA Uint32Width ==
    ASSUME NEW n \in Nat
    PROVE  Uint32(n) \in 0 .. Wrap - 1
  BY CloudAssumption DEF Uint32

LEMMA ProductNat ==
    ASSUME NEW a \in Nat, NEW b \in Nat
    PROVE  a * b \in Nat
  OBVIOUS

\* The i-th of s bytes each is found again.
LEMMA Steps ==
    ASSUME NEW i \in Nat, NEW s \in Nat \ {0}
    PROVE  (i * s) % s = 0 /\ (i * s) \div s = i
  OBVIOUS

LEMMA StepBelow ==
    ASSUME NEW i \in Nat, NEW n \in Nat, i < n, NEW s \in Nat \ {0}, HasRoom(n),
           s = PointSize
    PROVE  i * s < Wrap
<1>1. i * s < n * s
  OBVIOUS
<1>2. n * s = n * PointSize /\ n * s \in Nat /\ i * s \in Nat
  OBVIOUS
<1>. QED
  BY <1>1, <1>2, CloudAssumption DEF HasRoom

-----------------------------------------------------------------------------
(* The sizes *)

SizesInv ==
    /\ pl.size \in 0 .. Wrap - 1 /\ pl.num \in Nat
    /\ phase = "cloud" => cloud.width \in Nat /\ cloud.height \in Nat
    /\ CopyFits

\* What the parser lets through is small enough for row_step.
LEMMA RowStepIsExact ==
    ASSUME NEW p, p.size \in 0 .. Wrap - 1, p.num \in Nat, Parses(p)
    PROVE  /\ Cloud(p).written = Cloud(p).data
           /\ HeaderSize + Cloud(p).written = p.size
<1>. DEFINE n == p.num * PointSize
<1>1. n \in Nat /\ n = PointSize * p.num
  BY CloudAssumption
<1>2. p.size = HeaderSize + n
  BY DEF Parses, ExpectedSize
<1>3. n < Wrap
  BY <1>1, <1>2, CloudAssumption
<1>4. Uint32(PointSize * p.num) = n
  <2>. HIDE DEF n
  <2>. QED
    BY <1>1, <1>3, Small
<1>. QED
  BY <1>2, <1>4 DEF Cloud

\* The memcpy of publishHokuyoCloud2 fits, for every payload a frame may bring.
THEOREM EveryCopyFits == Spec => []CopyFits
<1>1. Init => SizesInv
  <2>. SUFFICES ASSUME CloudInit \/ NoCloud PROVE SizesInv
    BY CloudPath
  <2>0. CASE NoCloud
    BY <2>0, CloudAssumption DEF NoCloud, SizesInv, CopyFits, Empty
  <2>1. CASE passes = 0 /\ source \in Clouds /\ cloud = Filled(source) /\ pl = Empty
    BY <2>1, CloudAssumption DEF CloudInit, SizesInv, CopyFits, Filled, Empty
  <2>2. CASE /\ passes = 0 /\ phase = "payload"
             /\ \E p \in Payloads :
                   pl = [size   |-> p.size,
                         num    |-> p.num,
                         points |-> [i \in 0 .. p.num - 1 |-> [f \in Fields |-> i]]]
    BY <2>2, CloudAssumption DEF CloudInit, SizesInv, CopyFits, Payloads
  <2>. QED
    BY <2>0, <2>1, <2>2 DEF CloudInit
<1>2. SizesInv /\ [Next]_vars => SizesInv'
  <2>. SUFFICES ASSUME SizesInv, [CloudNext]_cloudVars PROVE SizesInv'
    BY CloudPath
  <2>1. CASE ConvertCloud
    <3>1. CASE HasPosition(cloud)
      <4>1. cloud.width * cloud.height \in Nat
        BY <2>1, ProductNat DEF SizesInv, ConvertCloud
      <4>2. NumPoints(cloud) \in Nat
        BY <4>1, Uint32Width DEF NumPoints
      <4>3. Uint32(NumPoints(cloud) * PointSize) \in Nat
        BY <4>2, ProductNat, Uint32Width, CloudAssumption
      <4>4. pl'.size \in 0 .. Wrap - 1
        <5>1. HeaderSize + Uint32(NumPoints(cloud) * PointSize) \in Nat
          BY <4>3, CloudAssumption
        <5>. QED
          BY <2>1, <3>1, <5>1, Uint32Width DEF ConvertCloud, Payload, PayloadSize
      <4>5. pl'.num \in Nat
        BY <2>1, <3>1, <4>2 DEF ConvertCloud, Payload
      <4>. QED
        BY <2>1, <4>4, <4>5 DEF SizesInv, CopyFits, ConvertCloud
    <3>2. CASE ~HasPosition(cloud)
      BY <2>1, <3>2, CloudAssumption DEF SizesInv, CopyFits, ConvertCloud, Empty
    <3>. QED
      BY <3>1, <3>2
  <2>2. CASE PublishCloud
    <3>1. /\ cloud'.written = cloud'.data
          /\ HeaderSize + cloud'.written = pl'.size
      BY <2>2, RowStepIsExact DEF SizesInv, PublishCloud
    <3>2. cloud'.width \in Nat /\ cloud'.height \in Nat
      BY <2>2 DEF SizesInv, PublishCloud, Cloud
    <3>. QED
      BY <2>2, <3>1, <3>2 DEF SizesInv, CopyFits, PublishCloud
  <2>3. CASE Refuse
    BY <2>3 DEF SizesInv, CopyFits, Refuse
  <2>4. CASE Overrun
    BY <2>4 DEF SizesInv, CopyFits, Overrun
  <2>5. CASE UNCHANGED cloudVars
    BY <2>5 DEF SizesInv, CopyFits, cloudVars
  <2>. QED
    BY <2>1, <2>2, <2>3, <2>4, <2>5 DEF CloudNext
<1>3. SizesInv => CopyFits
  BY DEF SizesInv
<1>. QED
  BY <1>1, <1>2, <1>3, PTL DEF Spec

-----------------------------------------------------------------------------
(* The points *)

\* What 32 bits hold of the number of points
Count == Uint32(source.width * source.height)

\* The points are those of the source, field by field, as far as its data start
\* below Wrap.
SamePoints(points) ==
    \A i \in 0 .. Count - 1, f \in source.fields :
        i * source.step < Wrap => points[i][f] = i

\* A cloud that was published has the points of the source, in the layout of a packet.
Published(c) ==
    /\ HasRoom(Count)
    /\ c.width = Count /\ c.height = 1 /\ c.step = PointSize /\ c.fields = Fields
    /\ SamePoints(c.points)

\* The payload says how many points there are; its size fits that if there is room.
Carries(p) ==
    /\ p.num = Count /\ p.size = PayloadSize(Count)
    /\ SamePoints(p.points)

KeptInv ==
    source # None =>
        /\ source \in Clouds /\ passes \in Nat
        /\ passes = 0 => cloud = Filled(source)
        /\ HasPosition(source) =>
              /\ passes # 0 => Published(cloud)
              /\ phase = "payload" => Carries(pl)
              /\ HasRoom(Count) => phase \in {"cloud", "payload"}
        /\ ~HasPosition(source) => passes = 0 /\ (phase = "payload" => pl = Empty)

LEMMA SourceShape ==
    ASSUME source \in Clouds
    PROVE  /\ source.width \in Nat /\ source.height \in Nat /\ source.step \in Nat \ {0}
           /\ source.fields \subseteq Fields
           /\ Count \in Nat /\ Count < Wrap /\ Count * PointSize \in Nat
<1>1. /\ source.width \in Nat /\ source.height \in Nat /\ source.step \in Nat \ {0}
      /\ source.fields \subseteq Fields
  BY CloudAssumption
<1>2. Count \in 0 .. Wrap - 1
  BY <1>1, ProductNat, Uint32Width DEF Count
<1>3. Count \in Nat /\ Count < Wrap
  BY <1>2, CloudAssumption
<1>. QED
  BY <1>1, <1>3, ProductNat, CloudAssumption

\* The parser lets a payload of the converter through exactly if nothing was cut.
LEMMA RoomTells ==
    ASSUME source \in Clouds
    PROVE  /\ HasRoom(Count) => PayloadSize(Count) = HeaderSize + Count * PointSize
           /\ ~HasRoom(Count) => PayloadSize(Count) # HeaderSize + Count * PointSize
<1>. DEFINE n == Count * PointSize
<1>1. n \in Nat
  BY SourceShape
<1>. HIDE DEF n
<1>2. HeaderSize + n \in Nat /\ HeaderSize + Uint32(n) \in Nat
  BY <1>1, Uint32Width, CloudAssumption
<1>3. Uint32(HeaderSize + Uint32(n)) < Wrap
  BY <1>2, Uint32Width, CloudAssumption
<1>4. ASSUME HeaderSize + n < Wrap
      PROVE  Uint32(HeaderSize + Uint32(n)) = HeaderSize + n
  <2>1. n < Wrap
    BY <1>1, <1>4, CloudAssumption
  <2>2. Uint32(n) = n
    BY <1>1, <2>1, Small
  <2>. QED
    BY <1>2, <1>4, <2>2, Small
<1>5. ~(HeaderSize + n < Wrap) => Uint32(HeaderSize + Uint32(n)) # HeaderSize + n
  BY <1>3
<1>. QED
  BY <1>4, <1>5 DEF PayloadSize, HasRoom, n

\* The cloud of the driver and those that were published can be converted alike.
LEMMA ConverterKeeps ==
    ASSUME source \in Clouds, NEW c, c = Filled(source) \/ Published(c)
    PROVE  Carries(Payload(c)) /\ (HasRoom(Count) => ~(Written(c) > PayloadSize(NumPoints(c))))
<1>. USE SourceShape
<1>1. NumPoints(c) = Count
  <2>1. CASE c = Filled(source)
    BY <2>1 DEF Filled, NumPoints, Count
  <2>2. CASE Published(c)
    <3>1. c.width * c.height = Count
      BY <2>2 DEF Published
    <3>. QED
      BY <3>1, Small DEF NumPoints
  <2>. QED
    BY <2>1, <2>2
<1>2. Payload(c).num = Count /\ Payload(c).size = PayloadSize(Count)
  BY <1>1 DEF Payload
<1>3. ASSUME NEW i \in 0 .. Count - 1, NEW f \in source.fields, i * source.step < Wrap
      PROVE  Payload(c).points[i][f] = i
  <2>0. i \in Nat /\ i < Count
    OBVIOUS
  <2>1. /\ c.step \in Nat \ {0} /\ i * c.step < Wrap
        /\ f \in c.fields /\ c.points[i][f] = i
    <3>1. CASE c = Filled(source)
      <4>1. c.step = source.step /\ c.fields = source.fields
        BY <3>1 DEF Filled
      <4>2. i \in 0 .. source.width * source.height - 1
        <5>. DEFINE n == source.width * source.height
        <5>1. n \in Nat /\ Count = Uint32(n)
          BY ProductNat DEF Count
        <5>. HIDE DEF n
        <5>2. Uint32(n) <= n
          BY <5>1, CloudAssumption DEF Uint32
        <5>3. i \in 0 .. n - 1
          BY <5>1, <5>2, <2>0
        <5>. QED
          BY <5>3 DEF n
      <4>3. c.points[i][f] = i
        BY <3>1, <4>2 DEF Filled
      <4>. QED
        BY <1>3, <4>1, <4>3
    <3>2. CASE Published(c)
      BY <1>3, <3>2, <2>0, StepBelow, CloudAssumption DEF Published, SamePoints
    <3>. QED
      BY <3>1, <3>2
  <2>2. i * c.step \in Nat
    BY <2>0, <2>1, ProductNat
  <2>3. Uint32(i * c.step) = i * c.step
    BY <2>1, <2>2, Small
  <2>4. (i * c.step) % c.step = 0 /\ (i * c.step) \div c.step = i
    BY <2>0, <2>1, Steps
  <2>5. Copied(c, i, f) = i
    BY <2>1, <2>3, <2>4 DEF Copied
  <2>6. Payload(c).points[i][f] = Copied(c, i, f)
    BY <1>1, <2>0 DEF Payload
  <2>. QED
    BY <2>5, <2>6
<1>4. HasRoom(Count) => ~(Written(c) > PayloadSize(NumPoints(c)))
  BY <1>1, RoomTells, CloudAssumption DEF Written
<1>. QED
  BY <1>2, <1>3, <1>4 DEF Carries, SamePoints

\* What gets through the parser has room, and is published with its points.
LEMMA PublisherKeeps ==
    ASSUME source \in Clouds, NEW p, Carries(p)
    PROVE  /\ HasRoom(Count) => Parses(p)
           /\ Parses(p) => Published(Cloud(p))
<1>. USE SourceShape
<1>1. HasRoom(Count) => Parses(p)
  BY RoomTells, CloudAssumption DEF Carries, Parses, ExpectedSize
<1>2. Parses(p) => HasRoom(Count)
  BY RoomTells DEF Carries, Parses, ExpectedSize
<1>. QED
  BY <1>1, <1>2 DEF Published, Cloud, Carries

\* A cloud that has room in a payload is published with all its points, as far as
\* they start below Wrap; one that has none is not, unless 32 bits do not hold the
\* number of its points.
THEOREM EveryPointKept == Spec => []PointsKept
<1>1. Init => KeptInv
  <2>. SUFFICES ASSUME CloudInit, source # None PROVE KeptInv
    BY CloudPath DEF KeptInv, NoCloud
  <2>1. /\ source \in Clouds /\ cloud = Filled(source)
        /\ phase = "cloud" /\ passes = 0
    BY DEF CloudInit
  <2>. QED
    BY <2>1 DEF KeptInv
<1>2. KeptInv /\ [Next]_vars => KeptInv'
  <2>. SUFFICES ASSUME KeptInv, [CloudNext]_cloudVars, source # None PROVE KeptInv'
    BY CloudPath DEF KeptInv, CloudNext, ConvertCloud, Overrun, PublishCloud, Refuse,
                     cloudVars
  <2>0. source' = source /\ source \in Clouds /\ Count' = Count
    BY DEF KeptInv, CloudNext, ConvertCloud, Overrun, PublishCloud, Refuse, cloudVars, Count
  <2>1. HasPosition(source) => HasPosition(cloud) /\ (cloud = Filled(source) \/ Published(cloud))
    BY DEF KeptInv, HasPosition, Filled, Published, Fields
  <2>2. CASE ConvertCloud
    <3>1. HasPosition(source) => Carries(pl')
      BY <2>0, <2>1, <2>2, ConverterKeeps DEF ConvertCloud
    <3>2. ~HasPosition(source) => pl' = Empty
      BY <2>0, <2>2 DEF KeptInv, ConvertCloud, HasPosition, Filled
    <3>. QED
      BY <2>0, <2>2, <3>1, <3>2
      DEF KeptInv, ConvertCloud, Carries, Published, SamePoints
  <2>3. CASE Overrun
    <3>1. HasPosition(source) => ~HasRoom(Count)
      <4>1. SUFFICES ASSUME HasPosition(source), HasRoom(Count) PROVE FALSE
        OBVIOUS
      <4>2. ~(Written(cloud) > PayloadSize(NumPoints(cloud)))
        BY <2>0, <2>1, <4>1, ConverterKeeps
      <4>3. Written(cloud) > PayloadSize(NumPoints(cloud))
        BY <2>3 DEF Overrun
      <4>. QED
        BY <4>2, <4>3
    <3>. QED
      BY <2>0, <2>3, <3>1 DEF KeptInv, Overrun, Published, SamePoints
  <2>4. CASE PublishCloud
    <3>1. HasPosition(source) => Published(cloud')
      BY <2>0, <2>4, PublisherKeeps DEF KeptInv, PublishCloud
    <3>2. HasPosition(source)
      BY <2>4, CloudAssumption DEF KeptInv, PublishCloud, Parses, Empty
    <3>3. passes' \in Nat /\ passes' # 0 /\ passes' > 0
      BY <2>4 DEF KeptInv, PublishCloud
    <3>. QED
      BY <2>0, <2>4, <3>1, <3>2, <3>3 DEF KeptInv, PublishCloud, Published, SamePoints
  <2>5. CASE Refuse
    <3>1. HasPosition(source) => ~HasRoom(Count)
      BY <2>0, <2>5, PublisherKeeps DEF KeptInv, Refuse
    <3>. QED
      BY <2>0, <2>5, <3>1 DEF KeptInv, Refuse, Published, SamePoints
  <2>6. CASE UNCHANGED cloudVars
    BY <2>6 DEF KeptInv, cloudVars, Carries, Published, SamePoints, Count
  <2>. QED
    BY <2>2, <2>3, <2>4, <2>5, <2>6 DEF CloudNext
<1>3. KeptInv => PointsKept
  <2>. SUFFICES ASSUME KeptInv, source # None PROVE PointsKept
    BY DEF PointsKept
  <2>1. CASE HasPosition(source)
    <3>1. HasRoom(Count) => phase \notin {"refused", "crashed"}
      BY <2>1 DEF KeptInv
    <3>2. ASSUME passes > 0
          PROVE  Published(cloud) /\ cloud.width * cloud.height = Count
      <4>1. Published(cloud)
        BY <2>1, <3>2 DEF KeptInv
      <4>. QED
        BY <4>1, SourceShape DEF KeptInv, Published
    <3>. QED
      BY <2>1, <3>1, <3>2 DEF PointsKept, Count, Published, SamePoints
  <2>2. CASE ~HasPosition(source)
    BY <2>2 DEF KeptInv, PointsKept
  <2>. QED
    BY <2>1, <2>2
<1>. QED
  BY <1>1, <1>2, <1>3, PTL DEF Spec

-----------------------------------------------------------------------------
(* Stamps *)

LEMMA Split ==
    ASSUME NEW t \in Nat, NEW s \in Nat \ {0}
    PROVE  /\ t \div s \in Nat /\ t % s \in 0 .. s - 1
           /\ (t \div s) * s + (t % s) = t
  OBVIOUS

LEMMA SplitBelow ==
    ASSUME NEW t \in Nat, NEW s \in Nat \ {0}, NEW h \in Nat, t < h * s
    PROVE  t \div s < h
  OBVIOUS

\* A number of seconds before 2038 has room in both types.
LEMMA Narrow ==
    ASSUME NEW n \in Nat, n < Half
    PROVE  Low32(n) = n /\ Int32(n) = n
  BY StampAssumption DEF Low32, Int32

LEMMA NarrowRest ==
    ASSUME NEW n \in 0 .. Second - 1
    PROVE  Low32(n) = n
  BY StampAssumption DEF Low32

LEMMA Low32Width ==
    ASSUME NEW n \in Nat
    PROVE  Low32(n) \in 0 .. 2 * Half - 1
  BY StampAssumption DEF Low32

LEMMA HeaderFits ==
    ASSUME NEW t \in Nat
    PROVE  HeaderTime(t) \in Headers
<1>1. t \div Second \in Nat /\ t % Second \in 0 .. Second - 1
  BY StampAssumption, Split
<1>2. t % Second \in Nat
  BY <1>1, StampAssumption
<1>. QED
  BY <1>1, <1>2, Low32Width DEF HeaderTime, Headers

\* Both ways to make a stamp show the instant.
LEMMA BothShow ==
    ASSUME NEW t \in Nat, t < Half * Second,
           NEW s \in {RosTime(t), DiagnosticsTime(t)}
    PROVE  Shows(s, t)
<1>1. /\ t \div Second \in Nat /\ t % Second \in 0 .. Second - 1
      /\ (t \div Second) * Second + (t % Second) = t
  BY StampAssumption, Split
<1>2. t \div Second < Half
  BY StampAssumption, SplitBelow
<1>3. Int32(t \div Second) = t \div Second /\ Low32(t % Second) = t % Second
  BY <1>1, <1>2, Narrow, NarrowRest
<1>4. s = [sec |-> t \div Second, nanosec |-> t % Second]
  BY <1>3 DEF RosTime, DiagnosticsTime
<1>. QED
  BY <1>1, <1>4 DEF Shows

\* A header made before 2038 tells the instant it was made of.
LEMMA HeaderTells ==
    ASSUME NEW t \in Nat, t < Half * Second
    PROVE  Nanoseconds(HeaderTime(t)) = t
<1>1. /\ t \div Second \in Nat /\ t % Second \in 0 .. Second - 1
      /\ (t \div Second) * Second + (t % Second) = t
  BY StampAssumption, Split
<1>2. t \div Second < Half
  BY StampAssumption, SplitBelow
<1>3. Low32(t \div Second) = t \div Second /\ Low32(t % Second) = t % Second
  BY <1>1, <1>2, Narrow, NarrowRest
<1>. QED
  BY <1>1, <1>3 DEF Nanoseconds, HeaderTime

-----------------------------------------------------------------------------

StampInv ==
    /\ hdr \in Headers
    /\ from # Unknown => from \in Nat /\ hdr = HeaderTime(from)
    /\ ns # Unknown => ns = Nanoseconds(hdr)
    /\ stamp # NoStamp => ns # Unknown /\ stamp \in {RosTime(ns), DiagnosticsTime(ns)}

\* Until 2038 a stamp shows the instant of its header and of its sender.
THEOREM StampsShowTheirInstant == Spec => []SameInstant
<1>1. Init => StampInv
  BY StampPath, HeaderFits DEF StampInit, NoHeader, StampInv
<1>2. StampInv /\ [Next]_vars => StampInv'
  <2>. SUFFICES ASSUME StampInv, [StampNext]_stampVars PROVE StampInv'
    BY StampPath
  <2>1. CASE Send
    <3>1. CASE from' \in Instants /\ hdr' = HeaderTime(from')
      <4>1. from' \in Nat
        BY <3>1, StampAssumption
      <4>2. hdr' \in Headers
        BY <3>1, <4>1, HeaderFits
      <4>. QED
        BY <2>1, <3>1, <4>1, <4>2 DEF StampInv, Send
    <3>2. CASE from' = Unknown /\ hdr' \in Headers
      BY <2>1, <3>2 DEF StampInv, Send
    <3>. QED
      BY <2>1, <3>1, <3>2 DEF Send
  <2>2. CASE Receive
    BY <2>2 DEF StampInv, Receive
  <2>3. CASE PublishStamp
    BY <2>3 DEF StampInv, PublishStamp
  <2>4. CASE UNCHANGED stampVars
    BY <2>4 DEF StampInv, stampVars
  <2>. QED
    BY <2>1, <2>2, <2>3, <2>4 DEF StampNext
<1>3. StampInv => SameInstant
  <2>. SUFFICES ASSUME StampInv, stamp # NoStamp PROVE SameInstant
    BY DEF SameInstant
  <2>1. stamp \in {RosTime(Nanoseconds(hdr)), DiagnosticsTime(Nanoseconds(hdr))}
    BY DEF StampInv
  <2>2. Nanoseconds(hdr) \in Nat
    BY StampAssumption DEF StampInv, Headers, Nanoseconds
  <2>3. ASSUME Nanoseconds(hdr) < Half * Second
        PROVE  Shows(stamp, Nanoseconds(hdr))
    BY <2>1, <2>2, <2>3, BothShow
  <2>4. ASSUME from # Unknown, from < Half * Second
        PROVE  Shows(stamp, from)
    <3>1. from \in Nat /\ Nanoseconds(hdr) = from
      BY <2>4, HeaderTells DEF StampInv
    <3>. QED
      BY <2>3, <2>4, <3>1
  <2>. QED
    BY <2>3, <2>4 DEF SameInstant, Nanoseconds
<1>. QED
  BY <1>1, <1>2, <1>3, PTL DEF Spec

-----------------------------------------------------------------------------
(* Packets *)

\* What is true of a member of the packet, whatever the type: it goes back to the
\* field it was filled from, and a text member has room for at least its end.
LEMMA MemberFacts ==
    ASSUME NEW t \in Packets!Types, NEW f \in Packets!Members(t)
    PROVE  /\ Packets!TakenFrom(Packets!FilledFrom(f)) = f
           /\ Packets!FilledFrom(f) = "message_id" <=> f = "message_id"
           /\ Packets!Size(t, f) \in Nat \ {0}
           /\ Packets!Room(t, f) =
                  Packets!Size(t, f) - (IF f \in Packets!TextMembers THEN 1 ELSE 0)
           /\ t = "GPZDA" /\ f = "message_id" => Packets!Room(t, f) = 5
<1>1. /\ Packets!TakenFrom(Packets!FilledFrom(f)) = f
      /\ Packets!FilledFrom(f) = "message_id" <=> f = "message_id"
  <2>1. /\ DOMAIN Packets!Renamed =
               {"pos_cov", "vel_cov", "ori_cov", "ang_vel_cov", "lin_acc_cov",
                "mag_var_dir", "status", "mode"}
        /\ Packets!Renamed["pos_cov"] = "pose_covariance"
        /\ Packets!Renamed["vel_cov"] = "twist_covariance"
        /\ Packets!Renamed["ori_cov"] = "orientation_covariance"
        /\ Packets!Renamed["ang_vel_cov"] = "angular_velocity_covariance"
        /\ Packets!Renamed["lin_acc_cov"] = "linear_acceleration_covariance"
        /\ Packets!Renamed["mag_var_dir"] = "mag_var_direction"
        /\ Packets!Renamed["status"] = "position_status"
        /\ Packets!Renamed["mode"] = "mode_indicator"
    BY DEF Packets!Renamed
  <2>2. CASE f \in DOMAIN Packets!Renamed
    BY <2>1, <2>2 DEF Packets!FilledFrom, Packets!TakenFrom
  <2>3. CASE f \notin DOMAIN Packets!Renamed
    <3>1. Packets!FilledFrom(f) = f
      BY <2>3 DEF Packets!FilledFrom
    <3>2. f \notin {"pose_covariance", "twist_covariance", "orientation_covariance",
                    "angular_velocity_covariance", "linear_acceleration_covariance",
                    "mag_var_direction", "position_status", "mode_indicator"}
      BY DEF Packets!Types, Packets!Members
    <3>3. Packets!TakenFrom(f) = f
      BY <3>2 DEF Packets!TakenFrom
    <3>. QED
      BY <3>1, <3>3
  <2>. QED
    BY <2>2, <2>3
<1>2. Packets!Size(t, f) \in {1, 2, 6, 8, 16}
  BY DEF Packets!Size, Packets!Float, Packets!Double, Packets!Char,
         Packets!CharMembers
<1>3. f \in Packets!TextMembers => Packets!Size(t, f) \in {6, 8, 16}
  BY DEF Packets!Size, Packets!TextMembers, Packets!CharMembers
<1>4. f = "message_id" => f \in Packets!TextMembers /\ Packets!Size(t, f) = 6
  BY DEF Packets!Size, Packets!TextMembers, Packets!CharMembers
<1>. QED
  BY <1>1, <1>2, <1>3, <1>4 DEF Packets!Room

\* The same from the side of the message
LEMMA FieldFacts ==
    ASSUME NEW t \in Packets!Types, NEW g \in Packets!MessageFields(t)
    PROVE  /\ Packets!TakenFrom(g) \in Packets!Members(t)
           /\ Packets!FilledFrom(Packets!TakenFrom(g)) = g
           /\ g = "message_id" <=> Packets!TakenFrom(g) = "message_id"
<1>1. PICK f \in Packets!Members(t) : g = Packets!FilledFrom(f)
  BY DEF Packets!MessageFields
<1>. QED
  BY <1>1, MemberFacts

\* How much of a field there is at first
LEMMA MessageFacts ==
    ASSUME NEW t \in Packets!Types, NEW m \in Packets!Messages(t)
    PROVE  /\ m = [g \in Packets!MessageFields(t) |-> m[g]]
           /\ \A g \in Packets!MessageFields(t) : m[g] \in [of : {g}, left : Nat]
<1>. DEFINE wide  == {f \in Packets!Members(t) : Packets!Size(t, f) = Packets!Double}
            texts == Packets!Members(t) \cap Packets!TextMembers
            rest  == Packets!Members(t) \ (wide \cup texts)
<1>1. PICK a \in Packets!Choices(t, wide), b \in Packets!Choices(t, texts),
           c \in Packets!Choices(t, rest) :
         m = [g \in Packets!MessageFields(t) |->
                [of   |-> g,
                 left |-> IF Packets!TakenFrom(g) \in wide THEN a[Packets!TakenFrom(g)]
                          ELSE IF Packets!TakenFrom(g) \in texts
                               THEN b[Packets!TakenFrom(g)]
                               ELSE c[Packets!TakenFrom(g)]]]
  BY DEF Packets!Messages
<1>2. \A f \in Packets!Members(t) : Packets!Amounts(t, f) \subseteq Nat
  BY LengthAssumption DEF Packets!Amounts, Packets!Float, Packets!Double
<1>3. ASSUME NEW fs \in SUBSET Packets!Members(t), NEW d \in Packets!Choices(t, fs),
             NEW f \in fs
      PROVE  d[f] \in Nat
  <2>1. d[f] \in UNION {Packets!Amounts(t, e) : e \in fs}
    BY <1>3 DEF Packets!Choices
  <2>. QED
    BY <2>1, <1>2
<1>4. /\ wide \in SUBSET Packets!Members(t) /\ texts \in SUBSET Packets!Members(t)
      /\ rest \in SUBSET Packets!Members(t)
      /\ \A f \in Packets!Members(t) : f \in wide \/ f \in texts \/ f \in rest
  OBVIOUS
<1>. HIDE DEF wide, texts, rest
<1>5. /\ \A f \in wide : a[f] \in Nat
      /\ \A f \in texts : b[f] \in Nat
      /\ \A f \in rest : c[f] \in Nat
  BY <1>3, <1>4
<1>6. ASSUME NEW g \in Packets!MessageFields(t)
      PROVE  m[g] \in [of : {g}, left : Nat]
  <2>1. Packets!TakenFrom(g) \in Packets!Members(t)
    BY FieldFacts
  <2>. DEFINE f == Packets!TakenFrom(g)
              n == IF f \in wide THEN a[f] ELSE IF f \in texts THEN b[f] ELSE c[f]
  <2>2. m[g] = [of |-> g, left |-> n]
    BY <1>1
  <2>. HIDE DEF f
  <2>3. n \in Nat
    BY <2>1, <1>4, <1>5 DEF f
  <2>. HIDE DEF n
  <2>. QED
    BY <2>2, <2>3
<1>. QED
  BY <1>1, <1>6

\* What is left of a value that has been cut is not cut again.
LEMMA CutFacts ==
    ASSUME NEW of, NEW v \in [of : {of}, left : Nat], NEW room \in Nat
    PROVE  /\ Packets!Cut(v, room) \in [of : {of}, left : Nat]
           /\ Packets!Cut(v, room).left <= room
           /\ Packets!Cut(v, room).left = 0 => v.left = 0 \/ room = 0
           /\ Packets!Cut(Packets!Cut(v, room), room) = Packets!Cut(v, room)
           /\ v.left <= room => Packets!Cut(v, room) = v
<1>1. PICK n \in Nat : v = [of |-> of, left |-> n]
  OBVIOUS
<1>2. ASSUME NEW k \in Nat
      PROVE  Packets!Cut([of |-> of, left |-> k], room) =
                 [of |-> of, left |-> IF k <= room THEN k ELSE room]
  BY DEF Packets!Cut
<1>3. PICK k \in Nat : k = IF n <= room THEN n ELSE room
  OBVIOUS
<1>4. Packets!Cut(v, room) = [of |-> of, left |-> k]
  BY <1>1, <1>2, <1>3
<1>5. k <= room /\ (k = 0 => n = 0 \/ room = 0) /\ (n <= room => k = n)
  BY <1>3
<1>6. Packets!Cut([of |-> of, left |-> k], room) = [of |-> of, left |-> k]
  BY <1>2, <1>5
<1>. QED
  BY <1>1, <1>4, <1>5, <1>6

PacketFields == Packets!MessageFields(type)

\* What field g of the message is to be once it was published
Kept(g) ==
    LET f    == Packets!TakenFrom(g)
        room == Packets!Size(type, f) - (IF f \in Packets!TextMembers THEN 1 ELSE 0)
    IN  IF type = "GPZDA" /\ g = "message_id" /\ origin[g].left = 0
        THEN [of |-> "GPZDA", left |-> 5]
        ELSE Packets!Cut(origin[g], room)

\* Before it was published a message is as at first, afterwards it is what is kept
\* of that; the packet is made of the message at hand.
PacketInv ==
    /\ type \in Packets!Types /\ rounds \in Nat
    /\ \A g \in PacketFields : origin[g] \in [of : {g}, left : Nat]
    /\ msg = IF rounds = 0 THEN [g \in PacketFields |-> origin[g]]
                           ELSE [g \in PacketFields |-> Kept(g)]
    /\ stage = "packet" => pkt = Packets!Packed(type, msg)

\* A field that is as at first, or as it is kept, is published as it is kept.
LEMMA RoundTrip ==
    ASSUME type \in Packets!Types, NEW g \in PacketFields,
           origin[g] \in [of : {g}, left : Nat],
           NEW m, m[g] \in {origin[g], Kept(g)}
    PROVE  Packets!Unpacked(type, Packets!Packed(type, m))[g] = Kept(g)
<1>. DEFINE f    == Packets!TakenFrom(g)
            room == Packets!Room(type, f)
            v    == origin[g]
            w    == Packets!Given(type, f, m[g])
<1>1. /\ f \in Packets!Members(type) /\ Packets!FilledFrom(f) = g
      /\ g = "message_id" <=> f = "message_id"
  BY FieldFacts DEF PacketFields
<1>2. /\ Packets!Size(type, f) \in Nat \ {0}
      /\ room = Packets!Size(type, f) - (IF f \in Packets!TextMembers THEN 1 ELSE 0)
      /\ type = "GPZDA" /\ f = "message_id" => room = 5
  BY <1>1, MemberFacts
<1>3. Packets!Unpacked(type, Packets!Packed(type, m))[g] =
          Packets!Read(type, f, Packets!Cut(w, room))
  <2>1. Packets!Packed(type, m)[f] = Packets!Cut(w, room)
    BY <1>1 DEF Packets!Packed
  <2>. QED
    BY <2>1 DEF Packets!Unpacked, PacketFields
<1>4. Kept(g) = IF type = "GPZDA" /\ f = "message_id" /\ v.left = 0
                THEN [of |-> "GPZDA", left |-> 5] ELSE Packets!Cut(v, room)
  BY <1>1, <1>2 DEF Kept
<1>5. room \in Nat
  BY <1>2
<1>. HIDE DEF f, room
<1>6. CASE type = "GPZDA" /\ f = "message_id" /\ v.left = 0
  <2>. DEFINE z == [of |-> "GPZDA", left |-> 5]
  <2>1. z \in [of : {"GPZDA"}, left : Nat] /\ z.left = 5
    OBVIOUS
  <2>2. Kept(g) = z /\ m[g] \in {v, z}
    BY <1>4, <1>6
  <2>. HIDE DEF z
  <2>3. w = z
    BY <1>6, <2>1, <2>2 DEF Packets!Given, z
  <2>4. Packets!Cut(z, room) = z
    <3>1. room = 5
      BY <1>2, <1>6 DEF f, room
    <3>2. \A r \in Nat : z.left <= r => Packets!Cut(z, r) = z
      BY <2>1, CutFacts
    <3>. QED
      BY <1>5, <2>1, <3>1, <3>2
  <2>. HIDE DEF w
  <2>. QED
    BY <1>3, <1>6, <2>2, <2>3, <2>4 DEF Packets!Read
<1>7. CASE ~(type = "GPZDA" /\ f = "message_id" /\ v.left = 0)
  <2>. DEFINE k == Packets!Cut(v, room)
  <2>1. /\ k.left <= room /\ (k.left = 0 => v.left = 0 \/ room = 0)
        /\ Packets!Cut(k, room) = k /\ k.left \in Nat
    <3>1. v \in [of : {g}, left : Nat]
      OBVIOUS
    <3>. HIDE DEF v
    <3>2. \A r \in Nat :
              /\ Packets!Cut(v, r) \in [of : {g}, left : Nat]
              /\ Packets!Cut(v, r).left <= r
              /\ Packets!Cut(v, r).left = 0 => v.left = 0 \/ r = 0
              /\ Packets!Cut(Packets!Cut(v, r), r) = Packets!Cut(v, r)
      BY <3>1, CutFacts
    <3>. QED
      BY <1>5, <3>2
  <2>2. Kept(g) = k /\ m[g] \in {v, k}
    BY <1>4, <1>7
  <2>. HIDE DEF v, k
  <2>3. w = m[g]
    <3>1. ~(type = "GPZDA" /\ f = "message_id" /\ m[g].left = 0)
      BY <1>2, <1>7, <2>1, <2>2 DEF f, room
    <3>. QED
      BY <3>1 DEF Packets!Given
  <2>4. Packets!Cut(w, room) = k
    BY <2>1, <2>2, <2>3 DEF k
  <2>5. f \in Packets!TextMembers => k.left < Packets!Size(type, f)
    <3>1. f \in Packets!TextMembers => room = Packets!Size(type, f) - 1
      BY <1>2
    <3>. QED
      BY <1>2, <1>5, <2>1, <3>1
  <2>6. Packets!Read(type, f, k) = k
    <3>1. ~(f \in Packets!TextMembers /\ k.left >= Packets!Size(type, f))
      BY <1>2, <2>1, <2>5
    <3>. QED
      BY <3>1 DEF Packets!Read
  <2>. QED
    BY <1>3, <2>2, <2>4, <2>6
<1>. QED
  BY <1>6, <1>7

\* So a message that is published is what is kept of the first one.
LEMMA PublishKeeps ==
    ASSUME PacketInv, Packets!Publish
    PROVE  msg' = [g \in PacketFields |-> Kept(g)]
<1>1. pkt = Packets!Packed(type, msg) /\ msg' = Packets!Unpacked(type, pkt)
  BY DEF PacketInv, Packets!Publish
<1>2. ASSUME NEW g \in PacketFields
      PROVE  Packets!Unpacked(type, Packets!Packed(type, msg))[g] = Kept(g)
  <2>1. msg[g] \in {origin[g], Kept(g)}
    BY DEF PacketInv
  <2>2. type \in Packets!Types /\ origin[g] \in [of : {g}, left : Nat]
    BY DEF PacketInv
  <2>. QED
    BY <2>1, <2>2, RoundTrip
<1>3. Packets!Unpacked(type, pkt) =
          [g \in PacketFields |-> Packets!Unpacked(type, pkt)[g]]
  BY DEF Packets!Unpacked, PacketFields
<1>. QED
  BY <1>1, <1>2, <1>3

\* The invariant of the packets' path
LEMMA PacketsKept == Spec => [](path = "packet" => PacketInv)
<1>1. Init => (path = "packet" => PacketInv)
  <2>. SUFFICES ASSUME Packets!Init PROVE PacketInv
    BY DEF Init
  <2>1. /\ type \in Packets!Types /\ origin \in Packets!Messages(type)
        /\ msg = origin /\ stage = "message" /\ rounds = 0
    BY DEF Packets!Init
  <2>2. /\ origin = [g \in PacketFields |-> origin[g]]
        /\ \A g \in PacketFields : origin[g] \in [of : {g}, left : Nat]
    BY <2>1, MessageFacts DEF PacketFields
  <2>. QED
    BY <2>1, <2>2 DEF PacketInv
<1>2. (path = "packet" => PacketInv) /\ [Next]_vars => (path = "packet" => PacketInv)'
  <2>. SUFFICES ASSUME path' = "packet", PacketInv,
                       Packets!Next \/ UNCHANGED <<type, origin, msg, pkt, stage, rounds>>
                PROVE  PacketInv'
    BY DEF Next, PacketStep, DiagnosticStep, CloudStep, StampStep, vars,
           packetVars, diagnosticVars
  <2>1. CASE Packets!Convert
    BY <2>1 DEF Packets!Convert, PacketInv, PacketFields, Kept
  <2>2. CASE Packets!Publish
    <3>1. msg' = [g \in PacketFields |-> Kept(g)]
      BY <2>2, PublishKeeps
    <3>2. /\ UNCHANGED <<type, origin>> /\ stage' = "message"
          /\ rounds' = rounds + 1 /\ rounds' # 0 /\ rounds' \in Nat
      BY <2>2 DEF Packets!Publish, PacketInv
    <3>. QED
      BY <3>1, <3>2 DEF PacketInv, PacketFields, Kept
  <2>3. CASE UNCHANGED <<type, origin, msg, pkt, stage, rounds>>
    BY <2>3 DEF PacketInv, PacketFields, Kept
  <2>. QED
    BY <2>1, <2>2, <2>3 DEF Packets!Next
<1>. QED
  BY <1>1, <1>2, PTL DEF Spec

\* Every message goes through packet, parser and publisher with each of its fields in
\* its place, and loses no more than the packet has no room for, whatever the lengths.
THEOREM EveryFieldSurvives == Spec => []FieldsSurvive
<1>1. (path = "packet" => PacketInv) => FieldsSurvive
  BY DEF PacketInv, PacketFields, Kept, FieldsSurvive, Packets!FieldsSurvive
<1>. QED
  BY <1>1, PacketsKept, PTL

-----------------------------------------------------------------------------
(* Counting: the induction the proofs about digits need, over sets *)

\* Every set of natural numbers that is not empty has a least element.
LEMMA Least ==
    ASSUME NEW T \in SUBSET Nat, T # {}
    PROVE  \E m \in T : \A k \in T : m <= k
<1>. DEFINE R == OpToRel(<, Nat)
<1>1. IsWellFoundedOn(R, Nat)
  BY NatLessThanWellFounded
<1>2. R = {ss \in Nat \X Nat : ss[1] < ss[2]}
  BY DEF OpToRel
<1>. HIDE DEF R
<1>3. PICK m \in T : \A k \in T : ~ (<<k, m>> \in R)
  BY <1>1, WFMin
<1>4. ASSUME NEW k \in T PROVE m <= k
  <2>1. k \in Nat /\ m \in Nat
    OBVIOUS
  <2>2. <<k, m>> \notin R
    BY <1>3
  <2>3. ~ (k < m)
    BY <1>2, <2>1, <2>2
  <2>. QED
    BY <2>1, <2>3
<1>. QED
  BY <1>4

\* A set that holds 0 and every successor of its elements holds all natural numbers.
LEMMA Counting ==
    ASSUME NEW T, 0 \in T, \A n \in Nat : n \in T => n + 1 \in T
    PROVE  Nat \subseteq T
<1>. DEFINE U == Nat \ T
<1>1. SUFFICES ASSUME U # {} PROVE FALSE
  OBVIOUS
<1>2. PICK m \in U : \A k \in U : m <= k
  BY <1>1, Least
<1>3. m - 1 \in Nat /\ m - 1 \notin U /\ (m - 1) + 1 = m
  BY <1>2
<1>. QED
  BY <1>2, <1>3

\* Every set of the places of a list that is not empty has a least and a greatest one.
LEMMA Ends ==
    ASSUME NEW n \in Nat, NEW S \in SUBSET (1 .. n), S # {}
    PROVE  /\ \E m \in S : \A k \in S : m <= k
           /\ \E m \in S : \A k \in S : m >= k
<1>1. \E m \in S : \A k \in S : m <= k
  BY Least
<1>. DEFINE T == {n - i : i \in S}
<1>2. T \in SUBSET Nat /\ T # {}
  <2>1. \A i \in S : i \in 1 .. n /\ n - i \in Nat
    OBVIOUS
  <2>. QED
    BY <2>1
<1>3. PICK t \in T : \A k \in T : t <= k
  BY <1>2, Least
<1>4. PICK m \in S : t = n - m
  OBVIOUS
<1>5. ASSUME NEW k \in S PROVE m >= k
  <2>1. n - k \in T
    OBVIOUS
  <2>2. n - m <= n - k
    BY <1>3, <1>4, <2>1
  <2>. QED
    BY <2>2
<1>6. \E i \in S : \A k \in S : i >= k
  BY <1>5
<1>. QED
  BY <1>1, <1>6

-----------------------------------------------------------------------------
(* Division *)

\* p and x are the quotient and the rest of p * m + x.
LEMMA Quotient ==
    ASSUME NEW m \in Nat \ {0}, NEW p \in Nat, NEW x \in Nat, x < m
    PROVE  (p * m + x) \div m = p /\ (p * m + x) % m = x
  OBVIOUS

\* Dividing twice is dividing by the product.
LEMMA QuotientTwice ==
    ASSUME NEW n \in Nat, NEW a \in Nat \ {0}, NEW b \in Nat \ {0}
    PROVE  (n \div a) \div b = n \div (a * b)
<1>. DEFINE q == n \div a
            r == n % a
<1>1. q \in Nat /\ r \in Nat /\ r < a /\ q * a + r = n
  BY Split
<1>. HIDE DEF q, r
<1>. DEFINE p == q \div b
            t == q % b
<1>2. p \in Nat /\ t \in Nat /\ t < b /\ p * b + t = q
  BY <1>1, Split
<1>. HIDE DEF p, t
<1>3. a * b \in Nat \ {0}
  OBVIOUS
<1>4. t * a + r \in Nat /\ t * a + r < a * b
  <2>1. (t + 1) * a <= b * a
    BY <1>2
  <2>2. (t + 1) * a = t * a + a /\ b * a = a * b /\ t * a \in Nat
    BY <1>2
  <2>. QED
    BY <1>1, <2>1, <2>2
<1>5. n = p * (a * b) + (t * a + r)
  <2>1. q * a = (p * b) * a + t * a
    BY <1>1, <1>2
  <2>2. (p * b) * a = p * (a * b)
    BY <1>2
  <2>. QED
    BY <1>1, <1>2, <2>1, <2>2
<1>6. n \div (a * b) = p
  <2>. DEFINE m == a * b
              x == t * a + r
  <2>1. m \in Nat \ {0} /\ x \in Nat /\ x < m /\ n = p * m + x
    BY <1>3, <1>4, <1>5
  <2>. HIDE DEF m, x
  <2>2. n \div m = p
    BY <1>2, <2>1, Quotient
  <2>. QED
    BY <2>2 DEF m
<1>7. (n \div a) \div b = p
  BY DEF p, q
<1>. QED
  BY <1>6, <1>7

-----------------------------------------------------------------------------
(* Powers of the base *)

\* The recursive function is the one its equation describes.
LEMMA PowersAre ==
    Diag!Powers = [i \in 0 .. 8 |-> IF i = 0 THEN 1 ELSE Diag!Powers[i - 1] * Base]
<1>. DEFINE F(g) == g = [i \in 0 .. 8 |-> IF i = 0 THEN 1 ELSE g[i - 1] * Base]
            g2 == Base * Base
            g3 == g2 * Base
            g4 == g3 * Base
            g5 == g4 * Base
            g6 == g5 * Base
            g7 == g6 * Base
            g8 == g7 * Base
            G  == [i \in 0 .. 8 |-> <<1, Base, g2, g3, g4, g5, g6, g7, g8>>[i + 1]]
<1>1. Diag!Powers = CHOOSE g : F(g)
  BY DEF Diag!Powers
<1>2. F(G)
  <2>. SUFFICES ASSUME NEW i \in 0 .. 8
                PROVE  G[i] = IF i = 0 THEN 1 ELSE G[i - 1] * Base
    OBVIOUS
  <2>1. Base = 1 * Base
    BY DiagnosticsAssumption
  <2>. HIDE DEF g2, g3, g4, g5, g6, g7, g8
  <2>. QED
    BY <2>1 DEF g2, g3, g4, g5, g6, g7, g8
<1>. QED
  BY <1>1, <1>2

\* The powers of the base are positive, each Base times the one before.
LEMMA PowerSteps ==
    /\ Diag!Power(0) = 1
    /\ \A i \in 0 .. 7 : Diag!Power(i + 1) = Diag!Power(i) * Base
    /\ \A i \in 0 .. 8 : Diag!Power(i) \in Nat \ {0}
<1>1. Diag!Power(0) = 1
  BY PowersAre DEF Diag!Power
<1>2. ASSUME NEW i \in 0 .. 7 PROVE Diag!Power(i + 1) = Diag!Power(i) * Base
  BY PowersAre DEF Diag!Power
<1>. DEFINE T == {i \in Nat : i <= 8 => Diag!Power(i) \in Nat \ {0}}
<1>3. 0 \in T
  BY <1>1
<1>4. ASSUME NEW n \in T PROVE n + 1 \in T
  <2>1. CASE n >= 8
    BY <2>1
  <2>2. CASE n < 8
    <3>1. Diag!Power(n) \in Nat \ {0} /\ Diag!Power(n + 1) = Diag!Power(n) * Base
      BY <1>2, <2>2
    <3>2. Diag!Power(n) * Base \in Nat \ {0}
      BY <3>1, DiagnosticsAssumption
    <3>. QED
      BY <3>1, <3>2
  <2>. QED
    BY <2>1, <2>2
<1>5. Nat \subseteq T
  <2>. HIDE DEF T
  <2>. QED
    BY <1>3, <1>4, Counting
<1>. QED
  BY <1>1, <1>2, <1>5

-----------------------------------------------------------------------------
(* Digits and the number they make *)

\* v holds the number made of the first i digits of s, for every i.
Makes(v, s, w) ==
    /\ v \in [0 .. w -> Nat] /\ v[0] = 0
    /\ \A i \in 0 .. w - 1 : v[i + 1] = v[i] * Base + s[i + 1]

\* Some function holds these numbers, and the last is the number of all digits.
LEMMA Horner ==
    ASSUME NEW w \in Nat, NEW s \in [1 .. w -> Nat]
    PROVE  \E v : Makes(v, s, w) /\ Diag!Number(s) = v[w]
<1>. DEFINE F(g, n) == g = [i \in 0 .. n |-> IF i = 0 THEN 0 ELSE g[i - 1] * Base + s[i]]
            Q(n) == \E g \in [0 .. n -> Nat] : F(g, n)
            T == {n \in Nat : n <= w => Q(n)}
<1>1. 0 \in T
  <2>. DEFINE g == [i \in 0 .. 0 |-> 0]
  <2>1. g \in [0 .. 0 -> Nat] /\ F(g, 0)
    OBVIOUS
  <2>. QED
    BY <2>1
<1>2. ASSUME NEW n \in T PROVE n + 1 \in T
  <2>1. SUFFICES ASSUME n + 1 <= w
                 PROVE  \E h \in [0 .. n + 1 -> Nat] : F(h, n + 1)
    <3>1. n \in Nat /\ (n + 1 <= w => Q(n + 1)) => n + 1 \in T
      <4>. HIDE DEF Q
      <4>. QED
        OBVIOUS
    <3>. QED
      BY <3>1
  <2>2. PICK g \in [0 .. n -> Nat] : F(g, n)
    BY <2>1
  <2>. DEFINE last == g[n] * Base + s[n + 1]
              h == [i \in 0 .. n + 1 |-> IF i = n + 1 THEN last ELSE g[i]]
  <2>3. last \in Nat
    <3>1. g[n] \in Nat /\ s[n + 1] \in Nat
      BY <2>1
    <3>2. g[n] * Base \in Nat
      BY <3>1, DiagnosticsAssumption
    <3>. QED
      BY <3>1, <3>2
  <2>4. h \in [0 .. n + 1 -> Nat]
    <3>. HIDE DEF last
    <3>. QED
      BY <2>3
  <2>5. ASSUME NEW i \in 0 .. n + 1
        PROVE  h[i] = IF i = 0 THEN 0 ELSE h[i - 1] * Base + s[i]
    <3>1. CASE i = n + 1
      <4>1. h[i] = last /\ h[i - 1] = g[n]
        BY <3>1
      <4>. QED
        BY <3>1, <4>1
    <3>2. CASE i \in 1 .. n
      <4>1. h[i] = g[i] /\ h[i - 1] = g[i - 1]
        BY <3>2
      <4>2. g[i] = g[i - 1] * Base + s[i]
        BY <2>2, <3>2
      <4>. HIDE DEF h
      <4>. QED
        BY <3>2, <4>1, <4>2
    <3>3. CASE i = 0
      <4>1. h[i] = g[i] /\ g[i] = 0
        BY <2>2, <3>3
      <4>. QED
        BY <3>3, <4>1
    <3>. QED
      BY <3>1, <3>2, <3>3
  <2>6. F(h, n + 1)
    <3>1. h = [i \in 0 .. n + 1 |-> h[i]]
      BY <2>4
    <3>. HIDE DEF h
    <3>. QED
      BY <2>5, <3>1
  <2>. QED
    BY <2>4, <2>6
<1>3. w \in T
  <2>. HIDE DEF T
  <2>. QED
    BY <1>1, <1>2, Counting
<1>4. PICK g \in [0 .. w -> Nat] : F(g, w)
  <2>. HIDE DEF F
  <2>. QED
    BY <1>3
<1>5. Len(s) = w
  OBVIOUS
<1>. DEFINE H(h) == F(h, w)
            v == CHOOSE h : H(h)
<1>6. Diag!Number(s) = v[w]
  BY <1>5 DEF Diag!Number
<1>7. H(v)
  BY <1>4
<1>8. v = g
  <2>. DEFINE U == {n \in Nat : n <= w => v[n] = g[n]}
  <2>. HIDE DEF v
  <2>1. 0 \in U
    BY <1>4, <1>7
  <2>2. ASSUME NEW n \in U PROVE n + 1 \in U
    <3>1. SUFFICES ASSUME n + 1 <= w PROVE v[n + 1] = g[n + 1]
      OBVIOUS
    <3>2. v[n + 1] = v[n] * Base + s[n + 1] /\ g[n + 1] = g[n] * Base + s[n + 1]
      BY <1>4, <1>7, <3>1
    <3>. QED
      BY <3>1, <3>2
  <2>3. Nat \subseteq U
    <3>. HIDE DEF U
    <3>. QED
      BY <2>1, <2>2, Counting
  <2>4. \A n \in 0 .. w : v[n] = g[n]
    BY <2>3
  <2>5. v = [n \in 0 .. w |-> v[n]] /\ g = [n \in 0 .. w |-> g[n]]
    BY <1>7
  <2>. QED
    BY <2>4, <2>5
<1>9. Makes(g, s, w)
  BY <1>4 DEF Makes
<1>. QED
  BY <1>6, <1>8, <1>9

\* What v holds is no choice.
LEMMA MakesOne ==
    ASSUME NEW w \in Nat, NEW s, NEW u, NEW v, Makes(u, s, w), Makes(v, s, w),
           NEW k \in 0 .. w
    PROVE  u[k] = v[k]
<1>. DEFINE U == {n \in Nat : n <= w => u[n] = v[n]}
<1>1. 0 \in U
  BY DEF Makes
<1>2. ASSUME NEW n \in U PROVE n + 1 \in U
  <2>1. SUFFICES ASSUME n + 1 <= w PROVE u[n + 1] = v[n + 1]
    OBVIOUS
  <2>2. u[n + 1] = u[n] * Base + s[n + 1] /\ v[n + 1] = v[n] * Base + s[n + 1]
    BY <2>1 DEF Makes
  <2>. QED
    BY <2>1, <2>2
<1>3. Nat \subseteq U
  <2>. HIDE DEF U
  <2>. QED
    BY <1>1, <1>2, Counting
<1>. QED
  BY <1>3

\* Whatever function holds these numbers, the last is the number of all digits.
LEMMA NumberIs ==
    ASSUME NEW w \in Nat, NEW s \in [1 .. w -> Nat], NEW v, Makes(v, s, w)
    PROVE  Diag!Number(s) = v[w]
  BY Horner, MakesOne

Byte == 0 .. Base - 1

\* Digits are bytes, as many as asked for.
LEMMA DigitsType ==
    ASSUME NEW n \in Nat, NEW w \in 1 .. 8
    PROVE  Diag!Digits(n, w) \in [1 .. w -> Byte]
<1>1. ASSUME NEW i \in 1 .. w PROVE (n \div Diag!Power(w - i)) % Base \in Byte
  <2>1. Diag!Power(w - i) \in Nat \ {0}
    BY PowerSteps
  <2>2. n \div Diag!Power(w - i) \in Nat
    BY <2>1, Split
  <2>. DEFINE q == n \div Diag!Power(w - i)
  <2>. HIDE DEF q
  <2>3. q % Base \in 0 .. Base - 1
    <3>1. q \in Nat
      BY <2>2 DEF q
    <3>. QED
      BY <3>1, Split, DiagnosticsAssumption
  <2>. QED
    BY <2>3 DEF Byte, q
<1>. QED
  BY <1>1 DEF Diag!Digits

\* One digit less is one division by the base.
LEMMA OneDigitLess ==
    ASSUME NEW n \in Nat, NEW k \in 0 .. 7
    PROVE  n \div Diag!Power(k + 1) = (n \div Diag!Power(k)) \div Base
<1>1. Diag!Power(k) \in Nat \ {0} /\ Diag!Power(k + 1) = Diag!Power(k) * Base
  BY PowerSteps
<1>. QED
  BY <1>1, QuotientTwice, DiagnosticsAssumption

\* A number without its last digit, and the last digit
LEMMA QuotientOfDigits ==
    ASSUME NEW p \in Nat, NEW x \in Nat, x < Base, NEW n, n = p * Base + x
    PROVE  n \div Base = p /\ n % Base = x
  BY Quotient, DiagnosticsAssumption

\* The digits of a number that has no more of them make this number.
LEMMA NumberOfDigits ==
    ASSUME NEW w \in 1 .. 8, NEW n \in 0 .. Diag!Power(w) - 1
    PROVE  Diag!Number(Diag!Digits(n, w)) = n
<1>0. n \in Nat /\ Diag!Power(w) \in Nat \ {0} /\ n < Diag!Power(w)
  BY PowerSteps
<1>. DEFINE d == Diag!Digits(n, w)
            v == [i \in 0 .. w |-> n \div Diag!Power(w - i)]
<1>1. v \in [0 .. w -> Nat]
  <2>1. ASSUME NEW i \in 0 .. w PROVE n \div Diag!Power(w - i) \in Nat
    <3>1. Diag!Power(w - i) \in Nat \ {0}
      BY PowerSteps
    <3>. QED
      BY <1>0, <3>1, Split
  <2>. QED
    BY <2>1
<1>2. v[0] = 0
  <2>1. v[0] = n \div Diag!Power(w)
    OBVIOUS
  <2>2. n = 0 * Diag!Power(w) + n
    BY <1>0
  <2>. QED
    BY <1>0, <2>1, <2>2, Quotient
<1>3. ASSUME NEW i \in 0 .. w - 1 PROVE v[i + 1] = v[i] * Base + d[i + 1]
  <2>. DEFINE k == w - (i + 1)
              q == n \div Diag!Power(k)
  <2>1. k \in 0 .. 7 /\ k + 1 = w - i
    OBVIOUS
  <2>2. v[i + 1] = q /\ d[i + 1] = q % Base
    BY DEF Diag!Digits
  <2>3. v[i] = n \div Diag!Power(k + 1)
    BY <2>1
  <2>4. v[i] = q \div Base
    <3>1. n \div Diag!Power(k + 1) = (n \div Diag!Power(k)) \div Base
      BY <1>0, <2>1, OneDigitLess
    <3>. QED
      BY <2>3, <3>1
  <2>5. q \in Nat
    BY <1>1, <2>2
  <2>. HIDE DEF k, q, v, d
  <2>6. (q \div Base) * Base + (q % Base) = q
    BY <2>5, Split, DiagnosticsAssumption
  <2>. QED
    BY <2>2, <2>4, <2>6
<1>4. Makes(v, d, w)
  <2>. HIDE DEF v, d
  <2>. QED
    BY <1>1, <1>2, <1>3 DEF Makes
<1>5. d \in [1 .. w -> Nat]
  <2>1. d \in [1 .. w -> Byte]
    BY <1>0, DigitsType
  <2>. HIDE DEF d
  <2>. QED
    BY <2>1, DiagnosticsAssumption DEF Byte
<1>6. v[w] = n
  <2>1. v[w] = n \div Diag!Power(0)
    OBVIOUS
  <2>. QED
    BY <1>0, <2>1, PowerSteps
<1>. QED
  <2>. HIDE DEF v, d
  <2>1. Diag!Number(d) = v[w]
    BY <1>4, <1>5, NumberIs
  <2>. QED
    BY <1>6, <2>1 DEF d

\* The number some digits make has them.
LEMMA DigitsOfNumber ==
    ASSUME NEW w \in 1 .. 8, NEW s \in [1 .. w -> Byte]
    PROVE  /\ Diag!Number(s) \in 0 .. Diag!Power(w) - 1
           /\ Diag!Digits(Diag!Number(s), w) = s
<1>0. s \in [1 .. w -> Nat]
  BY DEF Byte
<1>1. PICK v : Makes(v, s, w) /\ Diag!Number(s) = v[w]
  BY <1>0, Horner
<1>. DEFINE n == v[w]
<1>2. n \in Nat /\ v \in [0 .. w -> Nat] /\ v[0] = 0
  BY <1>1 DEF Makes
<1>3. ASSUME NEW k \in 0 .. w - 1
      PROVE  v[w - k] \div Base = v[w - (k + 1)] /\ v[w - k] % Base = s[w - k]
  <2>. DEFINE i == w - (k + 1)
  <2>1. i \in 0 .. w - 1 /\ i + 1 = w - k
    OBVIOUS
  <2>2. v[i + 1] = v[i] * Base + s[i + 1] /\ v[i] \in Nat
    BY <1>1, <2>1 DEF Makes
  <2>3. s[i + 1] \in Nat /\ s[i + 1] < Base
    BY <2>1, DiagnosticsAssumption DEF Byte
  <2>4. v[i + 1] \div Base = v[i] /\ v[i + 1] % Base = s[i + 1]
    <3>. HIDE DEF i
    <3>. QED
      BY <2>2, <2>3, QuotientOfDigits
  <2>. QED
    BY <2>1, <2>4
<1>. DEFINE U == {k \in Nat : k <= w => n \div Diag!Power(k) = v[w - k]}
<1>4. 0 \in U
  BY <1>2, PowerSteps
<1>5. ASSUME NEW k \in U PROVE k + 1 \in U
  <2>1. SUFFICES ASSUME k + 1 <= w
                 PROVE  n \div Diag!Power(k + 1) = v[w - (k + 1)]
    OBVIOUS
  <2>2. k \in 0 .. 7 /\ k \in 0 .. w - 1 /\ n \div Diag!Power(k) = v[w - k]
    BY <2>1
  <2>3. n \div Diag!Power(k + 1) = (n \div Diag!Power(k)) \div Base
    BY <1>2, <2>2, OneDigitLess
  <2>. QED
    BY <1>3, <2>2, <2>3
<1>6. ASSUME NEW k \in 0 .. w PROVE n \div Diag!Power(k) = v[w - k]
  <2>1. Nat \subseteq U
    <3>. HIDE DEF U
    <3>. QED
      BY <1>4, <1>5, Counting
  <2>. QED
    BY <2>1
<1>7. n < Diag!Power(w)
  <2>1. Diag!Power(w) \in Nat \ {0}
    BY PowerSteps
  <2>2. n \div Diag!Power(w) = 0
    BY <1>2, <1>6
  <2>. QED
    <3>. DEFINE p == Diag!Power(w)
    <3>. HIDE DEF n, p
    <3>1. n \in Nat /\ p \in Nat \ {0} /\ n \div p = 0
      BY <1>2, <2>1, <2>2 DEF p
    <3>2. (n \div p) * p + (n % p) = n /\ n % p \in 0 .. p - 1
      BY <3>1, Split
    <3>3. n < p
      BY <3>1, <3>2
    <3>. QED
      BY <3>3 DEF p
<1>8. Diag!Digits(n, w) = s
  <2>1. ASSUME NEW i \in 1 .. w
        PROVE  (n \div Diag!Power(w - i)) % Base = s[i]
    <3>1. w - i \in 0 .. w - 1 /\ w - (w - i) = i
      OBVIOUS
    <3>2. n \div Diag!Power(w - i) = v[i]
      BY <1>6, <3>1
    <3>3. v[i] % Base = s[i]
      BY <1>3, <3>1
    <3>. QED
      BY <3>2, <3>3
  <2>. HIDE DEF n
  <2>. QED
    BY <2>1 DEF Diag!Digits
<1>. QED
  <2>. HIDE DEF n
  <2>0. Diag!Power(w) \in Nat \ {0}
    BY PowerSteps
  <2>1. n \in 0 .. Diag!Power(w) - 1
    BY <1>2, <1>7, <2>0
  <2>2. Diag!Number(s) = n
    BY <1>1 DEF n
  <2>. QED
    BY <1>8, <2>1, <2>2

-----------------------------------------------------------------------------
(* Byte orders *)

\* Bytes put in the order of a machine twice are as they were.
LEMMA InOrderTurns ==
    ASSUME NEW w \in Nat, NEW b \in [1 .. w -> Byte], NEW order
    PROVE  /\ Diag!InOrder(order, b) \in [1 .. w -> Byte]
           /\ Diag!InOrder(order, Diag!InOrder(order, b)) = b
           /\ order = "big" \/ w = 1 => Diag!InOrder(order, b) = b
<1>1. Len(b) = w
  OBVIOUS
<1>. DEFINE at(i) == IF order = "big" THEN i ELSE w + 1 - i
            c == [i \in 1 .. w |-> b[at(i)]]
<1>2. Diag!InOrder(order, b) = c
  BY <1>1 DEF Diag!InOrder
<1>3. \A i \in 1 .. w : at(i) \in 1 .. w /\ at(at(i)) = i
  OBVIOUS
<1>. HIDE DEF at
<1>4. c \in [1 .. w -> Byte]
  BY <1>3
<1>5. Len(c) = w
  BY <1>4
<1>6. Diag!InOrder(order, c) = [i \in 1 .. w |-> c[at(i)]]
  BY <1>5 DEF Diag!InOrder, at
<1>7. [i \in 1 .. w |-> c[at(i)]] = b
  BY <1>3
<1>8. order = "big" \/ w = 1 => c = b
  <2>1. ASSUME order = "big" \/ w = 1, NEW i \in 1 .. w PROVE at(i) = i
    BY <2>1 DEF at
  <2>. QED
    BY <2>1
<1>. QED
  BY <1>2, <1>4, <1>6, <1>7, <1>8

\* Eight bytes made of twice four
Join(s, t) == [i \in 1 .. 8 |-> IF i <= 4 THEN s[i] ELSE t[i - 4]]

LEMMA JoinType ==
    ASSUME NEW s \in [1 .. 4 -> Byte], NEW t \in [1 .. 4 -> Byte]
    PROVE  Join(s, t) \in [1 .. 8 -> Byte]
  BY DEF Join

\* Their number is that of the first four, Power(4) times, and that of the others.
LEMMA NumberOfJoin ==
    ASSUME NEW s \in [1 .. 4 -> Byte], NEW t \in [1 .. 4 -> Byte]
    PROVE  Diag!Number(Join(s, t)) = Diag!Number(s) * Diag!Power(4) + Diag!Number(t)
<1>0. s \in [1 .. 4 -> Nat] /\ t \in [1 .. 4 -> Nat]
  BY DEF Byte
<1>1. PICK u : Makes(u, s, 4) /\ Diag!Number(s) = u[4]
  BY <1>0, Horner
<1>2. PICK v : Makes(v, t, 4) /\ Diag!Number(t) = v[4]
  BY <1>0, Horner
<1>. DEFINE p(j) == Diag!Power(j)
            a == u[4]
            x == [i \in 0 .. 8 |-> IF i <= 4 THEN u[i] ELSE a * p(i - 4) + v[i - 4]]
<1>3. /\ u \in [0 .. 4 -> Nat] /\ v \in [0 .. 4 -> Nat] /\ a \in Nat
      /\ u[0] = 0 /\ v[0] = 0
  BY <1>1, <1>2 DEF Makes
<1>4. \A i \in 4 .. 8 : x[i] = a * p(i - 4) + v[i - 4]
  <2>1. ASSUME NEW i \in 5 .. 8 PROVE x[i] = a * p(i - 4) + v[i - 4]
    OBVIOUS
  <2>2. x[4] = a /\ p(4 - 4) = 1 /\ v[4 - 4] = 0
    BY <1>3, PowerSteps
  <2>3. a * 1 + 0 = a
    BY <1>3
  <2>4. x[4] = a * p(4 - 4) + v[4 - 4]
    BY <2>2, <2>3
  <2>. QED
    BY <2>1, <2>4
<1>5. ASSUME NEW i \in 0 .. 8 PROVE x[i] \in Nat
  <2>1. CASE i <= 4
    BY <1>3, <2>1
  <2>2. CASE i > 4
    <3>1. p(i - 4) \in Nat /\ v[i - 4] \in Nat
      BY <1>3, <2>2, PowerSteps
    <3>2. a * p(i - 4) \in Nat
      <4>. HIDE DEF a, p
      <4>. QED
        BY <1>3, <3>1
    <3>. QED
      BY <2>2, <3>1, <3>2
  <2>. QED
    BY <2>1, <2>2
<1>6. ASSUME NEW i \in 0 .. 7 PROVE x[i + 1] = x[i] * Base + Join(s, t)[i + 1]
  <2>1. CASE i < 4
    <3>1. x[i + 1] = u[i + 1] /\ x[i] = u[i] /\ Join(s, t)[i + 1] = s[i + 1]
      BY <2>1 DEF Join
    <3>2. u[i + 1] = u[i] * Base + s[i + 1]
      BY <1>1, <2>1 DEF Makes
    <3>. QED
      BY <3>1, <3>2
  <2>2. CASE i >= 4
    <3>. DEFINE j == i - 4
                q == p(j)
                y == v[j]
                z == t[j + 1]
    <3>1. j \in 0 .. 3 /\ (i + 1) - 4 = j + 1 /\ i + 1 \in 5 .. 8 /\ i \in 4 .. 8
      BY <2>2
    <3>2. x[i] = a * q + y /\ x[i + 1] = a * p(j + 1) + v[j + 1]
      BY <1>4, <3>1
    <3>3. p(j + 1) = q * Base /\ q \in Nat
      BY <3>1, PowerSteps
    <3>4. v[j + 1] = y * Base + z /\ y \in Nat /\ z \in Nat
      BY <1>0, <1>2, <1>3, <3>1 DEF Makes
    <3>5. Join(s, t)[i + 1] = z
      BY <2>2 DEF Join
    <3>6. a * (q * Base) + (y * Base + z) = (a * q + y) * Base + z
      <4>. HIDE DEF a, q, y, z
      <4>. QED
        BY <1>3, <3>3, <3>4, DiagnosticsAssumption
    <3>. QED
      BY <3>2, <3>3, <3>4, <3>5, <3>6
  <2>. QED
    BY <2>1, <2>2
<1>7. Makes(x, Join(s, t), 8)
  <2>1. x \in [0 .. 8 -> Nat]
    BY <1>5
  <2>2. x[0] = 0
    BY <1>3
  <2>. HIDE DEF x
  <2>. QED
    BY <1>6, <2>1, <2>2 DEF Makes
<1>8. Join(s, t) \in [1 .. 8 -> Nat]
  BY <1>0 DEF Join
<1>9. Diag!Number(Join(s, t)) = x[8]
  <2>. HIDE DEF x
  <2>. QED
    BY <1>7, <1>8, NumberIs
<1>10. x[8] = a * p(4) + v[4]
  BY <1>4
<1>. QED
  BY <1>1, <1>2, <1>9, <1>10

\* The two halves of a number of eight bytes
LEMMA HalvesOfJoin ==
    ASSUME NEW s \in [1 .. 4 -> Byte], NEW t \in [1 .. 4 -> Byte]
    PROVE  /\ Diag!High(Diag!Number(Join(s, t))) = Diag!Number(s)
           /\ Diag!Low(Diag!Number(Join(s, t))) = Diag!Number(t)
<1>. DEFINE p == Diag!Power(4)
            a == Diag!Number(s)
            c == Diag!Number(t)
            n == Diag!Number(Join(s, t))
<1>1. p \in Nat \ {0}
  BY PowerSteps
<1>2. a \in 0 .. p - 1 /\ c \in 0 .. p - 1
  BY DigitsOfNumber
<1>3. n = a * p + c
  BY NumberOfJoin
<1>4. Diag!High(n) = n \div p /\ Diag!Low(n) = n % p
  BY DEF Diag!High, Diag!Low
<1>. HIDE DEF p, a, c, n
<1>5. a \in Nat /\ c \in Nat /\ c < p
  BY <1>1, <1>2
<1>6. n \div p = a /\ n % p = c
  BY <1>1, <1>3, <1>5, Quotient
<1>. QED
  BY <1>4, <1>6 DEF n, a, c

\* htons and htonl turn the bytes of a number into the order of the machine.
LEMMA HtonTurns ==
    ASSUME NEW w \in 1 .. 8, NEW b \in [1 .. w -> Byte], NEW order \in Diag!Orders
    PROVE  Diag!Hton(order, Diag!Number(b), w) = Diag!Number(Diag!InOrder(order, b))
<1>1. CASE order = "big"
  BY <1>1, InOrderTurns DEF Diag!Hton
<1>2. CASE order = "little"
  <2>1. Diag!Digits(Diag!Number(b), w) = b
    BY DigitsOfNumber
  <2>2. Diag!Hton(order, Diag!Number(b), w) =
            Diag!Number(Diag!InOrder("big", Diag!InOrder("little", b)))
    BY <1>2, <2>1 DEF Diag!Hton, Diag!Loaded, Diag!Stored
  <2>3. Diag!InOrder("little", b) \in [1 .. w -> Byte]
    BY InOrderTurns
  <2>. QED
    BY <1>2, <2>2, <2>3, InOrderTurns
<1>. QED
  BY <1>1, <1>2 DEF Diag!Orders

\* htonll, which turns the two halves one by one, does the same for eight bytes.
LEMMA HtonllTurns ==
    ASSUME NEW b \in [1 .. 8 -> Byte], NEW order \in Diag!Orders
    PROVE  Diag!Htonll(order, Diag!Number(b)) = Diag!Number(Diag!InOrder(order, b))
<1>1. CASE order = "big"
  BY <1>1, InOrderTurns DEF Diag!Htonll
<1>2. CASE order = "little"
  <2>. DEFINE s == [i \in 1 .. 4 |-> b[i]]
              t == [i \in 1 .. 4 |-> b[i + 4]]
              rs == Diag!InOrder("little", s)
              rt == Diag!InOrder("little", t)
  <2>1. s \in [1 .. 4 -> Byte] /\ t \in [1 .. 4 -> Byte]
    OBVIOUS
  <2>2. b = Join(s, t)
    BY DEF Join
  <2>3. Diag!InOrder("little", b) = Join(rt, rs)
    <3>1. Len(s) = 4 /\ Len(t) = 4 /\ Len(b) = 8
      OBVIOUS
    <3>2. /\ rs = [i \in 1 .. 4 |-> s[5 - i]]
          /\ rt = [i \in 1 .. 4 |-> t[5 - i]]
          /\ Diag!InOrder("little", b) = [i \in 1 .. 8 |-> b[9 - i]]
      BY <3>1 DEF Diag!InOrder
    <3>3. ASSUME NEW i \in 1 .. 8 PROVE b[9 - i] = Join(rt, rs)[i]
      <4>1. CASE i <= 4
        <5>1. Join(rt, rs)[i] = t[5 - i]
          BY <3>2, <4>1 DEF Join
        <5>2. t[5 - i] = b[9 - i]
          BY <4>1
        <5>. QED
          BY <5>1, <5>2
      <4>2. CASE i > 4
        <5>1. Join(rt, rs)[i] = s[5 - (i - 4)]
          BY <3>2, <4>2 DEF Join
        <5>2. s[5 - (i - 4)] = b[9 - i]
          BY <4>2
        <5>. QED
          BY <5>1, <5>2
      <4>. QED
        BY <4>1, <4>2
    <3>4. Join(rt, rs) = [i \in 1 .. 8 |-> Join(rt, rs)[i]]
      BY DEF Join
    <3>. QED
      <4>. HIDE DEF rs, rt, s, t
      <4>. QED
        BY <3>2, <3>3, <3>4
  <2>. HIDE DEF s, t
  <2>4. rs \in [1 .. 4 -> Byte] /\ rt \in [1 .. 4 -> Byte]
    BY <2>1, InOrderTurns
  <2>5. /\ Diag!Hton("little", Diag!Number(s), 4) = Diag!Number(rs)
        /\ Diag!Hton("little", Diag!Number(t), 4) = Diag!Number(rt)
    BY <2>1, HtonTurns DEF Diag!Orders
  <2>6. /\ Diag!High(Diag!Number(b)) = Diag!Number(s)
        /\ Diag!Low(Diag!Number(b)) = Diag!Number(t)
    BY <2>1, <2>2, HalvesOfJoin
  <2>7. Diag!Htonll("little", Diag!Number(b)) =
            Diag!Number(rt) * Diag!Power(4) + Diag!Number(rs)
    BY <2>5, <2>6 DEF Diag!Htonll
  <2>. HIDE DEF rs, rt
  <2>8. Diag!Number(Join(rt, rs)) = Diag!Number(rt) * Diag!Power(4) + Diag!Number(rs)
    BY <2>4, NumberOfJoin
  <2>. QED
    BY <1>2, <2>3, <2>7, <2>8
<1>. QED
  BY <1>1, <1>2 DEF Diag!Orders

Widths == {1, 2, 4, 8}

\* The three cases of ToNetwork
LEMMA ToNetworkCases ==
    ASSUME NEW order, NEW n, NEW w \in Widths
    PROVE  /\ w = 1 => Diag!ToNetwork(order, n, w) = n
           /\ w = 8 => Diag!ToNetwork(order, n, w) = Diag!Htonll(order, n)
           /\ w \in {2, 4} => Diag!ToNetwork(order, n, w) = Diag!Hton(order, n, w)
<1>1. w = 1 => Diag!ToNetwork(order, n, w) = n
  BY DEF Diag!ToNetwork
<1>2. w = 8 => Diag!ToNetwork(order, n, w) = Diag!Htonll(order, n)
  BY DEF Diag!ToNetwork
<1>3. w \in {2, 4} => Diag!ToNetwork(order, n, w) = Diag!Hton(order, n, w)
  BY DEF Diag!ToNetwork
<1>. QED
  BY <1>1, <1>2, <1>3

\* Whatever the member, the conversion turns the bytes as the machine has them.
LEMMA ToNetworkTurns ==
    ASSUME NEW w \in Widths, NEW b \in [1 .. w -> Byte], NEW order \in Diag!Orders
    PROVE  Diag!ToNetwork(order, Diag!Number(b), w) = Diag!Number(Diag!InOrder(order, b))
<1>1. CASE w = 1
  <2>1. Diag!InOrder(order, b) = b
    <3>1. w \in Nat
      BY <1>1
    <3>. QED
      BY <1>1, <3>1, InOrderTurns
  <2>. DEFINE n == Diag!Number(b)
  <2>. HIDE DEF n
  <2>2. Diag!ToNetwork(order, n, w) = n
    BY <1>1, ToNetworkCases
  <2>. QED
    BY <2>1, <2>2 DEF n
<1>2. CASE w = 8
  <2>1. Diag!ToNetwork(order, Diag!Number(b), w) = Diag!Htonll(order, Diag!Number(b))
    <3>. DEFINE n == Diag!Number(b)
    <3>. HIDE DEF n
    <3>1. Diag!ToNetwork(order, n, w) = Diag!Htonll(order, n)
      BY <1>2, ToNetworkCases
    <3>. QED
      BY <3>1 DEF n
  <2>2. b \in [1 .. 8 -> Byte]
    BY <1>2
  <2>3. Diag!Htonll(order, Diag!Number(b)) = Diag!Number(Diag!InOrder(order, b))
    BY <2>2, HtonllTurns
  <2>. QED
    BY <2>1, <2>3
<1>3. CASE w \in {2, 4}
  <2>1. Diag!ToNetwork(order, Diag!Number(b), w) = Diag!Hton(order, Diag!Number(b), w)
    <3>. DEFINE n == Diag!Number(b)
    <3>. HIDE DEF n
    <3>1. Diag!ToNetwork(order, n, w) = Diag!Hton(order, n, w)
      BY <1>3, ToNetworkCases
    <3>. QED
      BY <3>1 DEF n
  <2>2. Diag!Hton(order, Diag!Number(b), w) = Diag!Number(Diag!InOrder(order, b))
    <3>1. w \in 1 .. 8
      BY <1>3
    <3>. QED
      BY <3>1, HtonTurns
  <2>. QED
    BY <2>1, <2>2
<1>. QED
  BY <1>1, <1>2, <1>3 DEF Widths

\* What the device stores are the digits of the number, the highest first, whatever
\* its byte order.
LEMMA SentInNetworkOrder ==
    ASSUME NEW w \in Widths, NEW n \in 0 .. Diag!Power(w) - 1, NEW order \in Diag!Orders
    PROVE  Diag!Stored(order, Diag!ToNetwork(order, n, w), w) = Diag!Digits(n, w)
<1>. DEFINE b == Diag!Digits(n, w)
            r == Diag!InOrder(order, b)
<1>0. w \in 1 .. 8 /\ n \in Nat
  BY PowerSteps DEF Widths
<1>1. b \in [1 .. w -> Byte] /\ Diag!Number(b) = n
  BY <1>0, DigitsType, NumberOfDigits
<1>. HIDE DEF b
<1>2. r \in [1 .. w -> Byte] /\ Diag!InOrder(order, r) = b
  BY <1>0, <1>1, InOrderTurns
<1>3. Diag!ToNetwork(order, n, w) = Diag!Number(r)
  BY <1>1, ToNetworkTurns
<1>. HIDE DEF r
<1>4. Diag!Digits(Diag!Number(r), w) = r
  BY <1>0, <1>2, DigitsOfNumber
<1>. QED
  BY <1>2, <1>3, <1>4 DEF Diag!Stored, b

\* What the node makes of bytes in network order is their number, whatever its own.
LEMMA ReadInNetworkOrder ==
    ASSUME NEW w \in Widths, NEW b \in [1 .. w -> Byte], NEW order \in Diag!Orders
    PROVE  Diag!ToNetwork(order, Diag!Loaded(order, b), w) = Diag!Number(b)
<1>. DEFINE r == Diag!InOrder(order, b)
<1>0. w \in 1 .. 8
  BY DEF Widths
<1>1. r \in [1 .. w -> Byte] /\ Diag!InOrder(order, r) = b
  BY <1>0, InOrderTurns
<1>2. Diag!Loaded(order, b) = Diag!Number(r)
  BY DEF Diag!Loaded
<1>. HIDE DEF r
<1>. QED
  BY <1>1, <1>2, ToNetworkTurns

\* A number in diagnostics arrives, between machines of whatever byte orders.
THEOREM NumbersCrossMachines ==
    ASSUME NEW w \in Widths, NEW n \in 0 .. Diag!Power(w) - 1,
           NEW from_ \in Diag!Orders, NEW to_ \in Diag!Orders
    PROVE  Diag!ToNetwork(to_,
               Diag!Loaded(to_, Diag!Stored(from_, Diag!ToNetwork(from_, n, w), w)), w) = n
<1>. DEFINE b == Diag!Digits(n, w)
<1>0. w \in 1 .. 8 /\ n \in Nat
  BY PowerSteps DEF Widths
<1>1. b \in [1 .. w -> Byte] /\ Diag!Number(b) = n
  BY <1>0, DigitsType, NumberOfDigits
<1>2. Diag!Stored(from_, Diag!ToNetwork(from_, n, w), w) = b
  BY SentInNetworkOrder
<1>. HIDE DEF b
<1>3. Diag!ToNetwork(to_, Diag!Loaded(to_, b), w) = Diag!Number(b)
  BY <1>1, ReadInNetworkOrder
<1>. QED
  BY <1>1, <1>2, <1>3

-----------------------------------------------------------------------------
(* Texts and entries *)

\* The numbers of a packet, and that their members have one, two, four or eight bytes
LEMMA WidthIs ==
    /\ Diag!Numbers = {"ip_port", "device_status", "device_temperature", "cpu_usage",
                       "elapsed_time", "odometry_state", "odometry_type", "gnss_state",
                       "gnss_type"}
    /\ \A key \in Diag!Numbers : Diag!Width[key] \in Widths
  BY DEF Diag!Numbers, Diag!Width, Widths

LEMMA WidthSmall ==
    ASSUME NEW w \in Widths
    PROVE  w \in 1 .. 8 /\ Diag!Power(w) \in Nat \ {0} /\ Diag!Power(8) \in Nat \ {0}
<1>1. w \in 1 .. 8
  BY DEF Widths
<1>. QED
  BY <1>1, PowerSteps

\* What the publisher makes are texts.
LEMMA TextsAre ==
    /\ Diag!IsText(Diag!Empty)
    /\ \A n \in Int : Diag!IsText(Diag!Decimal(n))
    /\ \A k \in Nat : \A s \in [1 .. k -> Byte] : Diag!IsText(Diag!Dotted(s))
<1>0. ASSUME NEW s \in Seq(Int), NEW w, NEW b \in BOOLEAN
      PROVE  Diag!IsText([parts |-> s, word |-> w, blanks |-> b])
  BY DEF Diag!IsText
<1>1. Diag!IsText(Diag!Empty)
  <2>1. <<>> \in Seq(Int) /\ FALSE \in BOOLEAN
    OBVIOUS
  <2>2. Diag!IsText([parts |-> <<>>, word |-> "", blanks |-> FALSE])
    BY <1>0, <2>1
  <2>. QED
    BY <2>2 DEF Diag!Empty, Diag!Word
<1>2. ASSUME NEW n \in Int PROVE Diag!IsText(Diag!Decimal(n))
  <2>1. <<n>> \in Seq(Int) /\ FALSE \in BOOLEAN
    OBVIOUS
  <2>2. Diag!IsText([parts |-> <<n>>, word |-> "", blanks |-> FALSE])
    BY <1>0, <2>1
  <2>. QED
    BY <2>2 DEF Diag!Decimal, Diag!Dotted
<1>3. ASSUME NEW k \in Nat, NEW s \in [1 .. k -> Byte] PROVE Diag!IsText(Diag!Dotted(s))
  <2>1. s \in Seq(Int)
    BY DiagnosticsAssumption DEF Byte
  <2>2. FALSE \in BOOLEAN
    OBVIOUS
  <2>3. Diag!IsText([parts |-> s, word |-> "", blanks |-> FALSE])
    BY <1>0, <2>1, <2>2
  <2>. QED
    BY <2>3 DEF Diag!Dotted
<1>. QED
  BY <1>1, <1>2, <1>3

LEMMA WithBlanks ==
    ASSUME NEW t, Diag!IsText(t), NEW x
    PROVE  [t EXCEPT !.blanks = x] = [parts |-> t.parts, word |-> t.word, blanks |-> x]
<1>1. t \in [parts : Seq(Int), word : {t.word}, blanks : BOOLEAN]
  BY DEF Diag!IsText
<1>. QED
  BY <1>1

\* Trimming takes the blanks and nothing else.
LEMMA TrimIs ==
    ASSUME NEW t, Diag!IsText(t)
    PROVE  /\ Diag!IsText(Diag!Trim(t)) /\ ~ Diag!Trim(t).blanks
           /\ Diag!Trim(t).parts = t.parts /\ Diag!Trim(t).word = t.word
           /\ Diag!IsNumber(Diag!Trim(t)) <=> Diag!IsNumber(t)
           /\ ~ t.blanks => Diag!Trim(t) = t
<1>. DEFINE u == [parts |-> t.parts, word |-> t.word, blanks |-> FALSE]
<1>1. t = [parts |-> t.parts, word |-> t.word, blanks |-> t.blanks]
  BY DEF Diag!IsText
<1>2. Diag!Trim(t) = u
  BY WithBlanks, Zenon DEF Diag!Trim
<1>3. Diag!IsText(u)
  BY DEF Diag!IsText
<1>4. Diag!IsNumber(u) <=> Diag!IsNumber(t)
  BY DEF Diag!IsNumber
<1>5. ~ t.blanks => t = u
  <2>1. t.blanks \in BOOLEAN
    BY DEF Diag!IsText
  <2>2. ~ t.blanks => t.blanks = FALSE
    BY <2>1
  <2>. QED
    BY <1>1, <2>2
<1>. QED
  BY <1>2, <1>3, <1>4, <1>5

\* A name cut to eight bytes is not cut again, trimmed or not.
LEMMA First8Is ==
    ASSUME NEW t, Diag!IsText(t)
    PROVE  /\ Diag!IsText(Diag!First8(t))
           /\ Diag!First8(t).blanks = t.blanks
           /\ Diag!First8(Diag!First8(t)) = Diag!First8(t)
           /\ Diag!First8(Diag!Trim(t)) = Diag!Trim(Diag!First8(t))
           /\ Diag!First8(t) = t => Diag!First8(Diag!Trim(t)) = Diag!Trim(t)
<1>. DEFINE short == "H0000001"
<1>1. /\ t = [parts |-> t.parts, word |-> t.word, blanks |-> t.blanks]
      /\ t.parts \in Seq(Int) /\ t.blanks \in BOOLEAN
  BY DEF Diag!IsText
<1>2. short # Diag!LongName
  BY DEF Diag!LongName
<1>. HIDE DEF short
<1>3. ASSUME NEW u, Diag!IsText(u)
      PROVE  /\ u.word = Diag!LongName => Diag!First8(u) = [u EXCEPT !.word = short]
             /\ u.word # Diag!LongName => Diag!First8(u) = u
  BY DEF Diag!First8, short
<1>4. Diag!Trim(t) = [t EXCEPT !.blanks = FALSE] /\ Diag!IsText(Diag!Trim(t))
  BY TrimIs DEF Diag!Trim
<1>5. CASE t.word # Diag!LongName
  BY <1>3, <1>4, <1>5, TrimIs
<1>6. CASE t.word = Diag!LongName
  <2>. DEFINE u == [t EXCEPT !.word = short]
  <2>1. u = [parts |-> t.parts, word |-> short, blanks |-> t.blanks]
    BY <1>1
  <2>2. Diag!IsText(u) /\ u.word = short /\ u.blanks = t.blanks
    BY <1>1, <1>2, <2>1 DEF Diag!IsText
  <2>3. Diag!First8(t) = u /\ u # t
    BY <1>1, <1>2, <1>3, <1>6, <2>2
  <2>4. Diag!First8(u) = u
    BY <1>2, <1>3, <2>2
  <2>5. Diag!First8(Diag!Trim(t)) = [Diag!Trim(t) EXCEPT !.word = short]
    BY <1>3, <1>4, <1>6, TrimIs
  <2>6. [Diag!Trim(t) EXCEPT !.word = short] = [u EXCEPT !.blanks = FALSE]
    BY <1>1, <1>4
  <2>7. [u EXCEPT !.blanks = FALSE] = Diag!Trim(u)
    BY DEF Diag!Trim
  <2>. QED
    BY <2>2, <2>3, <2>4, <2>5, <2>6, <2>7
<1>. QED
  BY <1>5, <1>6

\* What is parsed fits its member.
LEMMA ParsedType ==
    ASSUME NEW t, Diag!IsText(t), NEW w \in Widths
    PROVE  Diag!Parsed(t, w) \in 0 .. Diag!Power(w) - 1
  BY WidthSmall DEF Diag!Parsed

\* What is meant by a text is what is parsed of it, but for negative numbers.
LEMMA ParsedIsMeant ==
    ASSUME NEW t, Diag!IsText(t), NEW w \in Widths
    PROVE  \/ Diag!Parsed(Diag!Trim(t), w) = Diag!Meant(t, w)
           \/ /\ w > 2 /\ Diag!IsNumber(t) /\ t.parts[1] < 0
              /\ Diag!Parsed(Diag!Trim(t), w) = t.parts[1] + Diag!Power(8)
<1>1. Diag!Power(w) \in Nat \ {0} /\ Diag!Power(8) \in Nat \ {0} /\ w \in Nat
  BY WidthSmall
<1>2. CASE ~ Diag!IsNumber(t)
  BY <1>2, TrimIs DEF Diag!Parsed, Diag!Meant
<1>3. CASE Diag!IsNumber(t)
  <2>. DEFINE u == Diag!Trim(t)
              n == t.parts[1]
  <2>1. u.parts[1] = n /\ Diag!IsNumber(u) /\ ~ u.blanks
    BY <1>3, TrimIs
  <2>2. n \in Int
    BY <1>3 DEF Diag!IsNumber, Diag!IsText
  <2>. HIDE DEF u, n
  <2>3. Diag!Parsed(u, w) = IF /\ n > -Diag!Power(8)
                               /\ Diag!Converted(n, w) \in 0 .. Diag!Power(w) - 1
                            THEN Diag!Converted(n, w) ELSE 0
    BY <2>1 DEF Diag!Parsed
  <2>4. Diag!Meant(t, w) = IF n \in 0 .. Diag!Power(w) - 1 THEN n ELSE 0
    BY <1>3 DEF Diag!Meant, n
  <2>5. CASE n >= 0
    <3>1. Diag!Converted(n, w) = n
      BY <2>2, <2>5 DEF Diag!Converted
    <3>2. n > -Diag!Power(8)
      BY <1>1, <2>2, <2>5
    <3>. QED
      BY <2>3, <2>4, <3>1, <3>2 DEF u
  <2>6. CASE n < 0 /\ w <= 2
    <3>1. Diag!Converted(n, w) = n
      BY <1>1, <2>2, <2>6 DEF Diag!Converted
    <3>2. n \notin 0 .. Diag!Power(w) - 1
      BY <2>2, <2>6
    <3>. QED
      BY <2>3, <2>4, <3>1, <3>2 DEF u
  <2>7. CASE n < 0 /\ w > 2
    <3>1. Diag!Converted(n, w) = n + Diag!Power(8)
      BY <1>1, <2>2, <2>7 DEF Diag!Converted
    <3>2. n \notin 0 .. Diag!Power(w) - 1
      BY <2>2, <2>7
    <3>3. Diag!Parsed(u, w) = n + Diag!Power(8) \/ Diag!Parsed(u, w) = Diag!Meant(t, w)
      BY <2>3, <2>4, <3>1, <3>2
    <3>. QED
      BY <1>3, <2>7, <3>3 DEF u, n
  <2>. QED
    BY <1>1, <2>2, <2>5, <2>6, <2>7
<1>. QED
  BY <1>2, <1>3

\* A number that fits is parsed as it is shown.
LEMMA ParsedDecimal ==
    ASSUME NEW w \in Widths, NEW n \in 0 .. Diag!Power(w) - 1
    PROVE  Diag!Parsed(Diag!Decimal(n), w) = n
<1>1. Diag!Power(w) \in Nat \ {0} /\ Diag!Power(8) \in Nat \ {0}
  BY WidthSmall
<1>2. n \in Nat /\ n > -Diag!Power(8)
  BY <1>1
<1>3. Diag!Converted(n, w) = n
  BY <1>2 DEF Diag!Converted
<1>4. /\ Diag!IsNumber(Diag!Decimal(n)) /\ ~ Diag!Decimal(n).blanks
      /\ Diag!Decimal(n).parts[1] = n
  BY DEF Diag!Decimal, Diag!Dotted, Diag!IsNumber
<1>. QED
  BY <1>2, <1>3, <1>4 DEF Diag!Parsed

LEMMA BytesType ==
    ASSUME NEW t, Diag!IsText(t), NEW k \in Nat
    PROVE  Diag!Bytes(t, k) \in [1 .. k -> Byte]
<1>1. CASE /\ Len(t.parts) = k
           /\ \A i \in 1 .. k : t.parts[i] \in 0 .. Base - 1
  <2>1. t.parts \in Seq(Int)
    BY DEF Diag!IsText
  <2>2. t.parts \in [1 .. k -> Byte]
    BY <1>1, <2>1 DEF Byte
  <2>. QED
    BY <1>1, <2>2 DEF Diag!Bytes
<1>2. CASE ~ (/\ Len(t.parts) = k
              /\ \A i \in 1 .. k : t.parts[i] \in 0 .. Base - 1)
  <2>1. Diag!Bytes(t, k) = [i \in 1 .. k |-> 0]
    BY <1>2 DEF Diag!Bytes
  <2>2. 0 \in Byte
    BY DiagnosticsAssumption DEF Byte
  <2>. QED
    BY <2>1, <2>2
<1>. QED
  BY <1>1, <1>2

\* Bytes are parsed as they are shown.
LEMMA BytesOfDotted ==
    ASSUME NEW k \in Nat, NEW s \in [1 .. k -> Byte]
    PROVE  Diag!Bytes(Diag!Dotted(s), k) = s
<1>1. Len(s) = k /\ \A i \in 1 .. k : s[i] \in 0 .. Base - 1
  BY DEF Byte
<1>. QED
  BY <1>1 DEF Diag!Bytes, Diag!Dotted

\* The place of the last entry with a key
LEMMA GetIs ==
    ASSUME NEW status, Diag!IsStatus(status), NEW key
    PROVE  /\ Diag!IsText(Diag!LastEntry(status, key, Diag!Empty))
           /\ Diag!Get(status, key) = Diag!Trim(Diag!LastEntry(status, key, Diag!Empty))
<1>. DEFINE found == {i \in DOMAIN status.values : status.values[i].key = key}
            n == Len(status.values)
<1>1. \A i \in DOMAIN status.values : Diag!IsText(status.values[i].value)
  BY DEF Diag!IsStatus
<1>2. n \in Nat /\ DOMAIN status.values = 1 .. n
  BY DEF Diag!IsStatus
<1>3. CASE found = {}
  <2>1. Diag!LastEntry(status, key, Diag!Empty) = Diag!Empty
    BY <1>3 DEF Diag!LastEntry
  <2>2. Diag!Get(status, key) = Diag!Empty
    BY <1>3 DEF Diag!Get
  <2>3. Diag!Trim(Diag!Empty) = Diag!Empty
    BY TrimIs, TextsAre DEF Diag!Empty, Diag!Word
  <2>. QED
    BY <2>1, <2>2, <2>3, TextsAre
<1>4. CASE found # {}
  <2>1. \E m \in found : \A k \in found : m >= k
    <3>1. found \in SUBSET (1 .. n)
      BY <1>2
    <3>. HIDE DEF found, n
    <3>. QED
      BY <1>2, <1>4, <3>1, Ends
  <2>. DEFINE m == CHOOSE x \in found : \A k \in found : x >= k
  <2>2. m \in found
    BY <2>1
  <2>3. Diag!IsText(status.values[m].value)
    <3>. HIDE DEF m
    <3>. QED
      BY <1>1, <2>2
  <2>4. Diag!LastEntry(status, key, Diag!Empty) = status.values[m].value
    BY <1>4 DEF Diag!LastEntry, Diag!Max
  <2>5. Diag!Get(status, key) = Diag!Trim(status.values[m].value)
    BY <1>4 DEF Diag!Get, Diag!Max
  <2>. QED
    BY <2>3, <2>4, <2>5
<1>. QED
  BY <1>3, <1>4

-----------------------------------------------------------------------------
(* The entries of a published status *)

KeyAt == <<"ip_address", "ip_port", "product_name", "firmware_version", "device_id",
           "device_status", "device_temperature", "cpu_usage", "elapsed_time",
           "odometry_state", "odometry_type", "gnss_state", "gnss_type">>

\* The status has the thirteen entries of the publisher, in its order.
Laid(status) ==
    /\ DOMAIN status.values = 1 .. 13
    /\ \A i \in 1 .. 13 : status.values[i].key = KeyAt[i]

LEMMA KeysDiffer ==
    ASSUME NEW i \in 1 .. 13, NEW j \in 1 .. 13, KeyAt[i] = KeyAt[j]
    PROVE  i = j
  BY DEF KeyAt

\* The only entry with a key is the last one.
LEMMA EntryOfLaid ==
    ASSUME NEW status, Laid(status), NEW i \in 1 .. 13, NEW d
    PROVE  /\ Diag!LastEntry(status, KeyAt[i], d) = status.values[i].value
           /\ Diag!Get(status, KeyAt[i]) = Diag!Trim(status.values[i].value)
<1>. DEFINE found == {j \in DOMAIN status.values : status.values[j].key = KeyAt[i]}
<1>1. found = {i}
  BY KeysDiffer DEF Laid
<1>2. found # {} /\ Diag!Max(found) = i
  <2>1. Diag!Max({i}) = i
    BY DEF Diag!Max
  <2>. HIDE DEF found
  <2>. QED
    BY <1>1, <2>1
<1>3. Diag!LastEntry(status, KeyAt[i], d) =
          IF found = {} THEN d ELSE status.values[Diag!Max(found)].value
  BY DEF Diag!LastEntry
<1>4. Diag!Get(status, KeyAt[i]) =
          IF found = {} THEN Diag!Empty ELSE Diag!Trim(status.values[Diag!Max(found)].value)
  BY DEF Diag!Get
<1>. HIDE DEF found
<1>. QED
  BY <1>2, <1>3, <1>4

NumberShown(p, key) ==
    Diag!ToNetwork(node, Diag!Loaded(node, p.numbers[key]), Diag!Width[key])

\* The entries of what is published, one by one
LEMMA StatusIs ==
    ASSUME NEW p
    PROVE  /\ Laid(Diag!Status(p))
           /\ Diag!Status(p).name = "spel_device"
           /\ Diag!Status(p).hardware_id = p.device_id
           /\ Diag!Status(p).values[1].value = Diag!Dotted(p.ip_address)
           /\ Diag!Status(p).values[3].value = p.product_name
           /\ Diag!Status(p).values[4].value = Diag!Dotted(p.firmware)
           /\ Diag!Status(p).values[5].value = p.device_id
           /\ \A i \in {2} \cup 6 .. 13 :
                 Diag!Status(p).values[i].value = Diag!Decimal(NumberShown(p, KeyAt[i]))
<1>. DEFINE number(key) == [key |-> key, value |-> Diag!Decimal(NumberShown(p, key))]
            v == <<[key |-> "ip_address", value |-> Diag!Dotted(p.ip_address)],
                   number("ip_port"),
                   [key |-> "product_name", value |-> p.product_name],
                   [key |-> "firmware_version", value |-> Diag!Dotted(p.firmware)],
                   [key |-> "device_id", value |-> p.device_id],
                   number("device_status"), number("device_temperature"),
                   number("cpu_usage"), number("elapsed_time"),
                   number("odometry_state"), number("odometry_type"),
                   number("gnss_state"), number("gnss_type")>>
<1>1. /\ Diag!Status(p).values = v
      /\ Diag!Status(p).name = "spel_device"
      /\ Diag!Status(p).hardware_id = p.device_id
  BY DEF Diag!Status, Diag!Entry, NumberShown
<1>2. DOMAIN v = 1 .. 13
  OBVIOUS
<1>3. \A key : number(key).key = key /\ number(key).value = Diag!Decimal(NumberShown(p, key))
  OBVIOUS
<1>. HIDE DEF number
<1>4. \A i \in 1 .. 13 : v[i].key = KeyAt[i]
  BY <1>3 DEF KeyAt
<1>5. /\ v[1].value = Diag!Dotted(p.ip_address) /\ v[3].value = p.product_name
      /\ v[4].value = Diag!Dotted(p.firmware) /\ v[5].value = p.device_id
  OBVIOUS
<1>6. \A i \in {2} \cup 6 .. 13 : v[i] = number(KeyAt[i])
  BY DEF KeyAt
<1>. HIDE DEF v
<1>. QED
  BY <1>1, <1>2, <1>3, <1>4, <1>5, <1>6 DEF Laid

\* Where the numbers stand
LEMMA PlaceOfNumber ==
    ASSUME NEW key \in Diag!Numbers
    PROVE  \E i \in {2} \cup 6 .. 13 : KeyAt[i] = key
<1>1. /\ KeyAt[2] = "ip_port" /\ KeyAt[6] = "device_status"
      /\ KeyAt[7] = "device_temperature" /\ KeyAt[8] = "cpu_usage"
      /\ KeyAt[9] = "elapsed_time" /\ KeyAt[10] = "odometry_state"
      /\ KeyAt[11] = "odometry_type" /\ KeyAt[12] = "gnss_state"
      /\ KeyAt[13] = "gnss_type"
  BY DEF KeyAt
<1>. QED
  BY <1>1, WidthIs

\* What the converter looks up in a published status
LEMMA GetOfStatus ==
    ASSUME NEW p
    PROVE  /\ Diag!Get(Diag!Status(p), "ip_address") = Diag!Trim(Diag!Dotted(p.ip_address))
           /\ Diag!Get(Diag!Status(p), "product_name") = Diag!Trim(p.product_name)
           /\ Diag!Get(Diag!Status(p), "firmware_version") = Diag!Trim(Diag!Dotted(p.firmware))
           /\ Diag!Get(Diag!Status(p), "device_id") = Diag!Trim(p.device_id)
           /\ \A key \in Diag!Numbers :
                 /\ Diag!Get(Diag!Status(p), key) = Diag!Trim(Diag!Decimal(NumberShown(p, key)))
                 /\ Diag!LastEntry(Diag!Status(p), key, Diag!Empty) =
                        Diag!Decimal(NumberShown(p, key))
<1>. DEFINE s == Diag!Status(p)
<1>1. Laid(s)
  BY StatusIs
<1>2. ASSUME NEW i \in 1 .. 13
      PROVE  /\ Diag!Get(s, KeyAt[i]) = Diag!Trim(s.values[i].value)
             /\ Diag!LastEntry(s, KeyAt[i], Diag!Empty) = s.values[i].value
  <2>. HIDE DEF s
  <2>. QED
    BY <1>1, EntryOfLaid
<1>3. /\ KeyAt[1] = "ip_address" /\ KeyAt[3] = "product_name"
      /\ KeyAt[4] = "firmware_version" /\ KeyAt[5] = "device_id"
  BY DEF KeyAt
<1>4. /\ s.values[1].value = Diag!Dotted(p.ip_address) /\ s.values[3].value = p.product_name
      /\ s.values[4].value = Diag!Dotted(p.firmware) /\ s.values[5].value = p.device_id
      /\ \A i \in {2} \cup 6 .. 13 : s.values[i].value = Diag!Decimal(NumberShown(p, KeyAt[i]))
  BY StatusIs
<1>. HIDE DEF s
<1>5. /\ Diag!Get(s, KeyAt[1]) = Diag!Trim(s.values[1].value)
      /\ Diag!Get(s, KeyAt[3]) = Diag!Trim(s.values[3].value)
      /\ Diag!Get(s, KeyAt[4]) = Diag!Trim(s.values[4].value)
      /\ Diag!Get(s, KeyAt[5]) = Diag!Trim(s.values[5].value)
  BY <1>2
<1>6. ASSUME NEW key \in Diag!Numbers
      PROVE  /\ Diag!Get(s, key) = Diag!Trim(Diag!Decimal(NumberShown(p, key)))
             /\ Diag!LastEntry(s, key, Diag!Empty) = Diag!Decimal(NumberShown(p, key))
  <2>1. PICK i \in {2} \cup 6 .. 13 : KeyAt[i] = key
    BY PlaceOfNumber
  <2>. QED
    BY <1>2, <1>4, <2>1
<1>. QED
  BY <1>3, <1>4, <1>5, <1>6 DEF s

-----------------------------------------------------------------------------
(* Packets the converter makes *)

Machines == device \in Diag!Orders /\ node \in Diag!Orders

\* A packet as the converter makes them: every member is full, and no text of it would
\* be cut once more
Normal(p) ==
    /\ p = [numbers      |-> [key \in Diag!Numbers |-> p.numbers[key]],
            ip_address   |-> p.ip_address,
            firmware     |-> p.firmware,
            product_name |-> p.product_name,
            device_id    |-> p.device_id]
    /\ \A key \in Diag!Numbers : p.numbers[key] \in [1 .. Diag!Width[key] -> Byte]
    /\ p.ip_address \in [1 .. 4 -> Byte] /\ p.firmware \in [1 .. 3 -> Byte]
    /\ Diag!IsText(p.product_name) /\ ~ p.product_name.blanks
    /\ Diag!First8(p.product_name) = p.product_name
    /\ Diag!IsText(p.device_id) /\ Diag!First8(p.device_id) = p.device_id

\* Members alike, packets alike
LEMMA SamePacket ==
    ASSUME NEW p, NEW q, Normal(p), Normal(q),
           \A key \in Diag!Numbers : p.numbers[key] = q.numbers[key],
           p.ip_address = q.ip_address, p.firmware = q.firmware,
           p.product_name = q.product_name, p.device_id = q.device_id
    PROVE  p = q
<1>1. [key \in Diag!Numbers |-> p.numbers[key]] = [key \in Diag!Numbers |-> q.numbers[key]]
  OBVIOUS
<1>. QED
  BY <1>1, Zenon DEF Normal

PackedNumber(status, key) ==
    Diag!Parsed(Diag!Get(status, key), Diag!Width[key])

\* The converter makes normal packets, with the digits of the numbers in them.
LEMMA PacketIsNormal ==
    ASSUME Machines, NEW status, Diag!IsStatus(status)
    PROVE  /\ Normal(Diag!Packet(status))
           /\ \A key \in Diag!Numbers :
                 /\ PackedNumber(status, key) \in 0 .. Diag!Power(Diag!Width[key]) - 1
                 /\ Diag!Packet(status).numbers[key] =
                        Diag!Digits(PackedNumber(status, key), Diag!Width[key])
<1>. DEFINE p == Diag!Packet(status)
            get(key) == Diag!Get(status, key)
<1>1. \A key : Diag!IsText(get(key)) /\ ~ get(key).blanks
  BY GetIs, TrimIs
<1>2. ASSUME NEW key \in Diag!Numbers
      PROVE  /\ PackedNumber(status, key) \in 0 .. Diag!Power(Diag!Width[key]) - 1
             /\ Diag!Stored(device, Diag!ToNetwork(device, PackedNumber(status, key),
                                                   Diag!Width[key]), Diag!Width[key]) =
                    Diag!Digits(PackedNumber(status, key), Diag!Width[key])
             /\ Diag!Digits(PackedNumber(status, key), Diag!Width[key])
                    \in [1 .. Diag!Width[key] -> Byte]
  <2>. DEFINE w == Diag!Width[key]
              n == PackedNumber(status, key)
  <2>1. w \in Widths
    BY WidthIs
  <2>2. n \in 0 .. Diag!Power(w) - 1
    <3>1. Diag!IsText(get(key))
      BY <1>1
    <3>. HIDE DEF w, get
    <3>2. Diag!Parsed(get(key), w) \in 0 .. Diag!Power(w) - 1
      BY <2>1, <3>1, ParsedType
    <3>. QED
      BY <3>2 DEF PackedNumber, w, get
  <2>. HIDE DEF w, n
  <2>3. Diag!Stored(device, Diag!ToNetwork(device, n, w), w) = Diag!Digits(n, w)
    BY <2>1, <2>2, SentInNetworkOrder DEF Machines
  <2>4. n \in Nat /\ w \in 1 .. 8
    BY <2>1, <2>2, WidthSmall
  <2>5. Diag!Digits(n, w) \in [1 .. w -> Byte]
    BY <2>4, DigitsType
  <2>. QED
    BY <2>2, <2>3, <2>5 DEF w, n
<1>3. p = [numbers |-> [key \in Diag!Numbers |->
                           Diag!Stored(device,
                               Diag!ToNetwork(device, PackedNumber(status, key),
                                              Diag!Width[key]), Diag!Width[key])],
           ip_address   |-> Diag!Bytes(get("ip_address"), 4),
           firmware     |-> Diag!Bytes(get("firmware_version"), 3),
           product_name |-> Diag!First8(get("product_name")),
           device_id    |-> Diag!First8(Diag!DeviceId(status))]
  BY DEF Diag!Packet, PackedNumber
<1>4. \A key \in Diag!Numbers :
          p.numbers[key] = Diag!Digits(PackedNumber(status, key), Diag!Width[key])
  BY <1>2, <1>3
<1>5. p = [numbers      |-> [key \in Diag!Numbers |-> p.numbers[key]],
           ip_address   |-> p.ip_address,
           firmware     |-> p.firmware,
           product_name |-> p.product_name,
           device_id    |-> p.device_id]
  <2>. HIDE DEF p, get
  <2>. QED
    BY <1>3
<1>6. p.ip_address \in [1 .. 4 -> Byte] /\ p.firmware \in [1 .. 3 -> Byte]
  <2>1. /\ Diag!Bytes(get("ip_address"), 4) \in [1 .. 4 -> Byte]
        /\ Diag!Bytes(get("firmware_version"), 3) \in [1 .. 3 -> Byte]
    <3>. HIDE DEF get
    <3>. QED
      BY <1>1, BytesType
  <2>. HIDE DEF p, get
  <2>. QED
    BY <1>3, <2>1
<1>7. /\ Diag!IsText(p.product_name) /\ ~ p.product_name.blanks
      /\ Diag!First8(p.product_name) = p.product_name
  <2>1. p.product_name = Diag!First8(get("product_name"))
    BY <1>3
  <2>2. Diag!IsText(get("product_name")) /\ ~ get("product_name").blanks
    BY <1>1
  <2>. HIDE DEF p, get
  <2>. QED
    BY <2>1, <2>2, First8Is
<1>8. Diag!IsText(p.device_id) /\ Diag!First8(p.device_id) = p.device_id
  <2>1. p.device_id = Diag!First8(Diag!DeviceId(status))
    BY <1>3
  <2>2. Diag!IsText(Diag!DeviceId(status))
    BY <1>1 DEF Diag!DeviceId, Diag!IsStatus
  <2>. HIDE DEF p
  <2>. QED
    BY <2>1, <2>2, First8Is
<1>9. \A key \in Diag!Numbers : p.numbers[key] \in [1 .. Diag!Width[key] -> Byte]
  BY <1>2, <1>4
<1>10. Normal(p)
  <2>. HIDE DEF p
  <2>. QED
    BY <1>5, <1>6, <1>7, <1>8, <1>9, Zenon DEF Normal
<1>. QED
  BY <1>2, <1>4, <1>10

LEMMA ZeroIsNormal == Normal(Diag!ZeroPacket)
<1>. DEFINE p == Diag!ZeroPacket
<1>1. p = [numbers      |-> [key \in Diag!Numbers |-> [i \in 1 .. Diag!Width[key] |-> 0]],
           ip_address   |-> <<0, 0, 0, 0>>,
           firmware     |-> <<0, 0, 0>>,
           product_name |-> Diag!Empty,
           device_id    |-> Diag!Empty]
  BY DEF Diag!ZeroPacket
<1>2. 0 \in Byte
  BY DiagnosticsAssumption DEF Byte
<1>3. /\ Diag!IsText(Diag!Empty) /\ ~ Diag!Empty.blanks
      /\ Diag!First8(Diag!Empty) = Diag!Empty
  <2>1. Diag!IsText(Diag!Empty)
    BY TextsAre
  <2>2. Diag!Empty.blanks = FALSE /\ Diag!Empty.word = ""
    BY DEF Diag!Empty, Diag!Word
  <2>3. "" # Diag!LongName
    BY DEF Diag!LongName
  <2>4. Diag!First8(Diag!Empty) = Diag!Empty
    BY <2>2, <2>3 DEF Diag!First8
  <2>. QED
    BY <2>1, <2>2, <2>4
<1>. HIDE DEF p
<1>4. p = [numbers      |-> [key \in Diag!Numbers |-> p.numbers[key]],
           ip_address   |-> p.ip_address,
           firmware     |-> p.firmware,
           product_name |-> p.product_name,
           device_id    |-> p.device_id]
  BY <1>1
<1>5. \A key \in Diag!Numbers : p.numbers[key] \in [1 .. Diag!Width[key] -> Byte]
  BY <1>1, <1>2
<1>6. p.ip_address \in [1 .. 4 -> Byte] /\ p.firmware \in [1 .. 3 -> Byte]
  BY <1>1, <1>2
<1>7. p.product_name = Diag!Empty /\ p.device_id = Diag!Empty
  BY <1>1
<1>8. Normal(p)
  BY <1>3, <1>4, <1>5, <1>6, <1>7, Zenon DEF Normal
<1>. QED
  BY <1>8 DEF p

\* What is shown of a packet is the number its bytes are.
LEMMA ShownIs ==
    ASSUME Machines, NEW p, Normal(p), NEW key \in Diag!Numbers
    PROVE  /\ NumberShown(p, key) = Diag!Number(p.numbers[key])
           /\ NumberShown(p, key) \in 0 .. Diag!Power(Diag!Width[key]) - 1
<1>. DEFINE w == Diag!Width[key]
            b == p.numbers[key]
<1>1. w \in Widths
  BY WidthIs
<1>2. b \in [1 .. w -> Byte]
  BY DEF Normal
<1>. HIDE DEF w, b
<1>3. w \in 1 .. 8
  BY <1>1, WidthSmall
<1>4. Diag!ToNetwork(node, Diag!Loaded(node, b), w) = Diag!Number(b)
  BY <1>1, <1>2, ReadInNetworkOrder DEF Machines
<1>5. Diag!Number(b) \in 0 .. Diag!Power(w) - 1
  BY <1>2, <1>3, DigitsOfNumber
<1>. QED
  BY <1>4, <1>5 DEF w, b, NumberShown

\* What a second pass makes of a device_id
TrimmedId(t) == IF Diag!Trim(t) = Diag!Empty THEN t ELSE Diag!Trim(t)

\* Played back, a published packet loses at most the blanks around its device_id.
LEMMA Repacked ==
    ASSUME Machines, NEW p, Normal(p), NEW q, q = Diag!Packet(Diag!Status(p))
    PROVE  /\ \A key \in Diag!Numbers : q.numbers[key] = p.numbers[key]
           /\ q.ip_address = p.ip_address /\ q.firmware = p.firmware
           /\ q.product_name = p.product_name /\ q.device_id = TrimmedId(p.device_id)
<1>. DEFINE s == Diag!Status(p)
<1>1. /\ Diag!Get(s, "ip_address") = Diag!Trim(Diag!Dotted(p.ip_address))
      /\ Diag!Get(s, "product_name") = Diag!Trim(p.product_name)
      /\ Diag!Get(s, "firmware_version") = Diag!Trim(Diag!Dotted(p.firmware))
      /\ Diag!Get(s, "device_id") = Diag!Trim(p.device_id)
      /\ s.hardware_id = p.device_id
      /\ \A key \in Diag!Numbers :
            Diag!Get(s, key) = Diag!Trim(Diag!Decimal(NumberShown(p, key)))
  BY GetOfStatus, StatusIs
<1>. HIDE DEF s
<1>2. q = [numbers |-> [key \in Diag!Numbers |->
                           Diag!Stored(device,
                               Diag!ToNetwork(device, PackedNumber(s, key),
                                              Diag!Width[key]), Diag!Width[key])],
           ip_address   |-> Diag!Bytes(Diag!Get(s, "ip_address"), 4),
           firmware     |-> Diag!Bytes(Diag!Get(s, "firmware_version"), 3),
           product_name |-> Diag!First8(Diag!Get(s, "product_name")),
           device_id    |-> Diag!First8(Diag!DeviceId(s))]
  BY DEF Diag!Packet, PackedNumber, s
<1>3. \A k \in Nat : \A b \in [1 .. k -> Byte] : Diag!Trim(Diag!Dotted(b)) = Diag!Dotted(b)
  <2>1. \A b : Diag!Dotted(b).blanks = FALSE
    BY DEF Diag!Dotted
  <2>. QED
    BY <2>1, TrimIs, TextsAre
<1>4. \A n \in Int : Diag!Trim(Diag!Decimal(n)) = Diag!Decimal(n)
  <2>1. \A n : Diag!Decimal(n).blanks = FALSE
    BY DEF Diag!Decimal, Diag!Dotted
  <2>. QED
    BY <2>1, TrimIs, TextsAre
<1>5. ASSUME NEW key \in Diag!Numbers PROVE q.numbers[key] = p.numbers[key]
  <2>. DEFINE w == Diag!Width[key]
              b == p.numbers[key]
              n == NumberShown(p, key)
  <2>1. w \in Widths /\ w \in 1 .. 8
    BY WidthIs, WidthSmall
  <2>2. n = Diag!Number(b) /\ n \in 0 .. Diag!Power(w) - 1
    BY ShownIs
  <2>3. n \in Int
    BY <2>1, <2>2, WidthSmall
  <2>4. b \in [1 .. w -> Byte]
    BY DEF Normal
  <2>5. Diag!Get(s, key) = Diag!Decimal(n)
    BY <1>1, <1>4, <2>3
  <2>6. q.numbers[key] = Diag!Stored(device, Diag!ToNetwork(device, PackedNumber(s, key), w), w)
    BY <1>2
  <2>7. PackedNumber(s, key) = Diag!Parsed(Diag!Get(s, key), w)
    BY DEF PackedNumber
  <2>. HIDE DEF w, b, n
  <2>8. PackedNumber(s, key) = n
    BY <2>1, <2>2, <2>5, <2>7, ParsedDecimal
  <2>9. q.numbers[key] = Diag!Digits(n, w)
    BY <2>1, <2>2, <2>6, <2>8, SentInNetworkOrder DEF Machines
  <2>10. Diag!Digits(Diag!Number(b), w) = b
    BY <2>1, <2>4, DigitsOfNumber
  <2>. QED
    BY <2>2, <2>9, <2>10 DEF b
<1>6. p.ip_address \in [1 .. 4 -> Byte] /\ p.firmware \in [1 .. 3 -> Byte]
  BY DEF Normal
<1>7. q.ip_address = p.ip_address
  <2>1. q.ip_address = Diag!Bytes(Diag!Dotted(p.ip_address), 4)
    <3>1. Diag!Trim(Diag!Dotted(p.ip_address)) = Diag!Dotted(p.ip_address)
      <4>1. \A b \in [1 .. 4 -> Byte] : Diag!Trim(Diag!Dotted(b)) = Diag!Dotted(b)
        BY <1>3
      <4>. QED
        BY <1>6, <4>1
    <3>2. q.ip_address = Diag!Bytes(Diag!Get(s, "ip_address"), 4)
      BY <1>2
    <3>. QED
      BY <1>1, <3>1, <3>2
  <2>. QED
    BY <1>6, <2>1, BytesOfDotted
<1>8. q.firmware = p.firmware
  <2>1. q.firmware = Diag!Bytes(Diag!Dotted(p.firmware), 3)
    <3>1. Diag!Trim(Diag!Dotted(p.firmware)) = Diag!Dotted(p.firmware)
      <4>1. \A b \in [1 .. 3 -> Byte] : Diag!Trim(Diag!Dotted(b)) = Diag!Dotted(b)
        BY <1>3
      <4>. QED
        BY <1>6, <4>1
    <3>2. q.firmware = Diag!Bytes(Diag!Get(s, "firmware_version"), 3)
      BY <1>2
    <3>. QED
      BY <1>1, <3>1, <3>2
  <2>. QED
    BY <1>6, <2>1, BytesOfDotted
<1>9. q.product_name = p.product_name
  <2>1. q.product_name = Diag!First8(Diag!Trim(p.product_name))
    BY <1>1, <1>2
  <2>2. Diag!Trim(p.product_name) = p.product_name
    BY TrimIs DEF Normal
  <2>. QED
    BY <2>1, <2>2 DEF Normal
<1>10. q.device_id = TrimmedId(p.device_id)
  <2>1. q.device_id = Diag!First8(Diag!DeviceId(s))
    BY <1>2
  <2>2. Diag!DeviceId(s) = TrimmedId(p.device_id)
    BY <1>1 DEF Diag!DeviceId, TrimmedId
  <2>3. Diag!First8(TrimmedId(p.device_id)) = TrimmedId(p.device_id)
    BY First8Is DEF TrimmedId, Normal
  <2>. QED
    BY <2>1, <2>2, <2>3
<1>. QED
  BY <1>5, <1>7, <1>8, <1>9, <1>10

-----------------------------------------------------------------------------
(* Messages *)

\* The status that is converted is one of the message.
LEMMA FirstDescribed ==
    ASSUME NEW m, Diag!IsMessage(m), Diag!Described(m) # {}
    PROVE  /\ Diag!Min(Diag!Described(m)) \in Diag!Described(m)
           /\ Diag!IsStatus(m[Diag!Min(Diag!Described(m))])
<1>. DEFINE S == Diag!Described(m)
            n == Len(m)
<1>1. n \in Nat /\ S \in SUBSET (1 .. n)
  BY DEF Diag!IsMessage, Diag!Described
<1>2. \E i \in S : \A k \in S : i <= k
  <2>. HIDE DEF S, n
  <2>. QED
    BY <1>1, Ends DEF S
<1>3. Diag!Min(S) \in S
  <2>1. Diag!Min(S) = CHOOSE i \in S : \A k \in S : i <= k
    BY DEF Diag!Min
  <2>. HIDE DEF S
  <2>. QED
    BY <1>2, <2>1
<1>4. Diag!Min(S) \in DOMAIN m
  BY <1>3 DEF Diag!Described
<1>. QED
  BY <1>3, <1>4 DEF Diag!IsMessage

\* Of a message with one status it is that one or none.
LEMMA DescribedOfOne ==
    ASSUME NEW s
    PROVE  /\ s.name = Target => /\ Diag!Described(<<s>>) = {1}
                                 /\ Diag!Min(Diag!Described(<<s>>)) = 1
           /\ s.name # Target => Diag!Described(<<s>>) = {}
<1>1. DOMAIN <<s>> = {1} /\ <<s>>[1] = s
  OBVIOUS
<1>2. Diag!Min({1}) = 1
  BY DEF Diag!Min
<1>3. Diag!Described(<<s>>) = {i \in {1} : s.name = Target}
  BY <1>1 DEF Diag!Described
<1>. QED
  BY <1>2, <1>3

\* What is published is a status the converter can read.
LEMMA StatusIsStatus ==
    ASSUME Machines, NEW p, Normal(p)
    PROVE  Diag!IsStatus(Diag!Status(p))
<1>. DEFINE s == Diag!Status(p)
<1>1. /\ Laid(s) /\ s.hardware_id = p.device_id
      /\ s.values[1].value = Diag!Dotted(p.ip_address) /\ s.values[3].value = p.product_name
      /\ s.values[4].value = Diag!Dotted(p.firmware) /\ s.values[5].value = p.device_id
      /\ \A i \in {2} \cup 6 .. 13 : s.values[i].value = Diag!Decimal(NumberShown(p, KeyAt[i]))
  BY StatusIs
<1>2. Len(s.values) = 13
  BY DEF Diag!Status
<1>. HIDE DEF s
<1>3. Diag!IsText(Diag!Dotted(p.ip_address)) /\ Diag!IsText(Diag!Dotted(p.firmware))
  <2>1. /\ \A b \in [1 .. 4 -> Byte] : Diag!IsText(Diag!Dotted(b))
        /\ \A b \in [1 .. 3 -> Byte] : Diag!IsText(Diag!Dotted(b))
    BY TextsAre
  <2>. QED
    BY <2>1 DEF Normal
<1>4. ASSUME NEW i \in {2} \cup 6 .. 13
      PROVE  Diag!IsText(Diag!Decimal(NumberShown(p, KeyAt[i])))
  <2>1. KeyAt[i] \in Diag!Numbers
    BY WidthIs DEF KeyAt
  <2>2. NumberShown(p, KeyAt[i]) \in 0 .. Diag!Power(Diag!Width[KeyAt[i]]) - 1
    BY <2>1, ShownIs
  <2>3. NumberShown(p, KeyAt[i]) \in Int
    <3>. DEFINE x == NumberShown(p, KeyAt[i])
                w == Diag!Width[KeyAt[i]]
    <3>1. w \in Widths
      BY <2>1, WidthIs
    <3>. HIDE DEF x, w
    <3>2. Diag!Power(w) \in Nat
      BY <3>1, WidthSmall
    <3>3. x \in 0 .. Diag!Power(w) - 1
      BY <2>2 DEF x, w
    <3>4. x \in Int
      BY <3>2, <3>3
    <3>. QED
      BY <3>4 DEF x
  <2>. QED
    BY <2>3, TextsAre
<1>5. Diag!IsText(p.product_name) /\ Diag!IsText(p.device_id)
  BY DEF Normal
<1>6. ASSUME NEW i \in 1 .. 13 PROVE Diag!IsText(s.values[i].value)
  <2>1. i \in {1, 3, 4, 5} \/ i \in {2} \cup 6 .. 13
    OBVIOUS
  <2>. QED
    BY <1>1, <1>3, <1>4, <1>5, <2>1
<1>7. Diag!IsStatus(s)
  BY <1>1, <1>2, <1>5, <1>6 DEF Diag!IsStatus, Laid
<1>. QED
  BY <1>7 DEF s

LEMMA TrimmedOnce ==
    ASSUME NEW t, Diag!IsText(t)
    PROVE  TrimmedId(TrimmedId(t)) = TrimmedId(t)
<1>1. Diag!Trim(Diag!Trim(t)) = Diag!Trim(t)
  BY TrimIs
<1>. QED
  BY <1>1 DEF TrimmedId

\* The packet of the next pass
Repack(m) == IF Diag!Described(m) = {} THEN Diag!ZeroPacket
             ELSE Diag!Packet(m[Diag!Min(Diag!Described(m))])

LEMMA RepackIsNormal ==
    ASSUME Machines, NEW m, Diag!IsMessage(m)
    PROVE  Normal(Repack(m))
<1>1. CASE Diag!Described(m) = {}
  BY <1>1, ZeroIsNormal DEF Repack
<1>2. CASE Diag!Described(m) # {}
  <2>. DEFINE s == m[Diag!Min(Diag!Described(m))]
  <2>1. Diag!IsStatus(s)
    BY <1>2, FirstDescribed
  <2>2. Repack(m) = Diag!Packet(s)
    BY <1>2 DEF Repack
  <2>. HIDE DEF s
  <2>. QED
    BY <2>1, <2>2, PacketIsNormal
<1>. QED
  BY <1>1, <1>2

\* Made of what was published, it is the packet published, but for the blanks around
\* its device_id; there are zeros if the converter looks for another name.
LEMMA RepackOfStatus ==
    ASSUME Machines, NEW p, Normal(p)
    PROVE  /\ Normal(Repack(<<Diag!Status(p)>>))
           /\ Target # "spel_device" => Repack(<<Diag!Status(p)>>) = Diag!ZeroPacket
           /\ Target = "spel_device" =>
                 /\ \A key \in Diag!Numbers :
                       Repack(<<Diag!Status(p)>>).numbers[key] = p.numbers[key]
                 /\ Repack(<<Diag!Status(p)>>).device_id = TrimmedId(p.device_id)
                 /\ TrimmedId(p.device_id) = p.device_id => Repack(<<Diag!Status(p)>>) = p
<1>. DEFINE s == Diag!Status(p)
            q == Repack(<<s>>)
<1>1. s.name = "spel_device"
  BY StatusIs
<1>2. CASE Target # "spel_device"
  <2>. HIDE DEF s
  <2>1. Diag!Described(<<s>>) = {}
    BY <1>1, <1>2, DescribedOfOne
  <2>2. q = Diag!ZeroPacket
    BY <2>1 DEF Repack
  <2>. QED
    BY <1>2, <2>2, ZeroIsNormal DEF s
<1>3. CASE Target = "spel_device"
  <2>1. Diag!IsStatus(s)
    BY StatusIsStatus
  <2>2. q = Diag!Packet(s)
    <3>. HIDE DEF s
    <3>1. Diag!Described(<<s>>) = {1} /\ Diag!Min(Diag!Described(<<s>>)) = 1
      BY <1>1, <1>3, DescribedOfOne
    <3>2. q = Diag!Packet(<<s>>[1])
      BY <3>1 DEF Repack
    <3>. QED
      BY <3>2
  <2>3. Normal(q)
    <3>. HIDE DEF s, q
    <3>. QED
      BY <2>1, <2>2, PacketIsNormal
  <2>4. /\ \A key \in Diag!Numbers : q.numbers[key] = p.numbers[key]
        /\ q.ip_address = p.ip_address /\ q.firmware = p.firmware
        /\ q.product_name = p.product_name /\ q.device_id = TrimmedId(p.device_id)
    <3>1. q = Diag!Packet(Diag!Status(p))
      BY <2>2
    <3>. HIDE DEF q
    <3>. QED
      BY <3>1, Repacked
  <2>5. TrimmedId(p.device_id) = p.device_id => q = p
    <3>. HIDE DEF q
    <3>. QED
      BY <2>3, <2>4, SamePacket
  <2>. QED
    BY <1>3, <2>3, <2>4, <2>5
<1>. QED
  BY <1>2, <1>3

-----------------------------------------------------------------------------
(* The way of the diagnostics *)

\* On the path of the diagnostics the steps are those of SpelDiagnostics.
LEMMA DiagnosticsPath ==
    /\ Init /\ path = "diagnostics" => Diag!Init
    /\ [Next]_vars => path' = path
    /\ [Next]_vars /\ path = "diagnostics" => Diag!Next \/ UNCHANGED diagnosticVars
  BY DEF Init, Next, PacketStep, DiagnosticStep, CloudStep, StampStep, vars

\* What converting and publishing do, in the words of this module
LEMMA ConvertIs ==
    ASSUME Diag!Convert
    PROVE  /\ stage = "message" /\ stage' = "packet" /\ pkt' = Repack(msg)
           /\ UNCHANGED <<device, node, origin, msg, rounds>>
  BY DEF Diag!Convert, Repack

LEMMA PublishIs ==
    ASSUME Diag!Publish
    PROVE  /\ stage = "packet" /\ stage' = "message" /\ msg' = <<Diag!Status(pkt)>>
           /\ rounds' = rounds + 1 /\ UNCHANGED <<device, node, origin, pkt>>
  BY DEF Diag!Publish

\* The entries of the sample, one by one
LEMMA SampleIs ==
    /\ Diag!Sample = <<Diag!Sample[1]>> /\ Laid(Diag!Sample[1])
    /\ Diag!Sample[1].name = "spel_device" /\ Diag!Sample[1].level = "OK"
    /\ Diag!Sample[1].hardware_id = Diag!Word("H0000001")
    /\ Diag!Sample[1].values[1].value = Diag!Dotted(<<Base - 1, 1, 0, 1>>)
    /\ Diag!Sample[1].values[3].value = Diag!Word("RSF-X001")
    /\ Diag!Sample[1].values[4].value = Diag!Dotted(<<1, 0, 0>>)
    /\ Diag!Sample[1].values[5].value = Diag!Word("H0000001")
    /\ \A i \in {2} \cup 6 .. 13 :
          Diag!Sample[1].values[i].value \in
              {Diag!Decimal(n) : n \in {0, 3, Base + 1, Base + 2, Base + 3}}
    /\ Diag!Sample[1].values[6].value = Diag!Decimal(0)
    /\ Diag!Sample[1].values[8].value = Diag!Decimal(3)
    /\ \A i \in 10 .. 13 : Diag!Sample[1].values[i].value = Diag!Decimal(0)
<1>. DEFINE s == Diag!Sample[1]
            number(key, n) == [key |-> key, value |-> Diag!Decimal(n)]
            v == <<[key |-> "ip_address", value |-> Diag!Dotted(<<Base - 1, 1, 0, 1>>)],
                   number("ip_port", Diag!Power(1) + 2),
                   [key |-> "product_name", value |-> Diag!Word("RSF-X001")],
                   [key |-> "firmware_version", value |-> Diag!Dotted(<<1, 0, 0>>)],
                   [key |-> "device_id", value |-> Diag!Word("H0000001")],
                   number("device_status", 0), number("device_temperature", Diag!Power(1) + 3),
                   number("cpu_usage", 3), number("elapsed_time", Diag!Power(1) + 1),
                   number("odometry_state", 0), number("odometry_type", 0),
                   number("gnss_state", 0), number("gnss_type", 0)>>
<1>1. /\ Diag!Sample = <<s>> /\ s.values = v /\ s.name = "spel_device" /\ s.level = "OK"
      /\ s.hardware_id = Diag!Word("H0000001")
  BY DEF Diag!Sample, Diag!Entry
<1>2. Diag!Power(1) = Base
  BY PowersAre, DiagnosticsAssumption DEF Diag!Power
<1>3. DOMAIN v = 1 .. 13
  OBVIOUS
<1>4. /\ \A key : \A n : number(key, n).key = key
      /\ \A key : \A n : number(key, n).value = Diag!Decimal(n)
  OBVIOUS
<1>. HIDE DEF number
<1>5. \A i \in 1 .. 13 : v[i].key = KeyAt[i]
  BY <1>4 DEF KeyAt
<1>6. /\ v[1].value = Diag!Dotted(<<Base - 1, 1, 0, 1>>)
      /\ v[3].value = Diag!Word("RSF-X001")
      /\ v[4].value = Diag!Dotted(<<1, 0, 0>>) /\ v[5].value = Diag!Word("H0000001")
  OBVIOUS
<1>7. /\ v[2].value = Diag!Decimal(Base + 2) /\ v[7].value = Diag!Decimal(Base + 3)
      /\ v[9].value = Diag!Decimal(Base + 1)
      /\ v[6].value = Diag!Decimal(0) /\ v[8].value = Diag!Decimal(3)
      /\ v[10].value = Diag!Decimal(0) /\ v[11].value = Diag!Decimal(0)
      /\ v[12].value = Diag!Decimal(0) /\ v[13].value = Diag!Decimal(0)
  BY <1>2, <1>4
<1>. HIDE DEF v, s
<1>8. \A i \in {2} \cup 6 .. 13 :
          v[i].value \in {Diag!Decimal(n) : n \in {0, 3, Base + 1, Base + 2, Base + 3}}
  BY <1>7
<1>. QED
  BY <1>1, <1>3, <1>5, <1>6, <1>7, <1>8 DEF Laid, s

LEMMA SampleIsMessage == Diag!IsMessage(Diag!Sample)
<1>. DEFINE s == Diag!Sample[1]
<1>1. \A x : Diag!IsText(Diag!Word(x))
  <2>1. <<>> \in Seq(Int) /\ FALSE \in BOOLEAN
    OBVIOUS
  <2>. QED
    BY <2>1 DEF Diag!IsText, Diag!Word
<1>2. /\ Diag!IsText(Diag!Dotted(<<Base - 1, 1, 0, 1>>))
      /\ Diag!IsText(Diag!Dotted(<<1, 0, 0>>))
  <2>1. 0 \in Byte /\ 1 \in Byte /\ Base - 1 \in Byte
    BY DiagnosticsAssumption DEF Byte
  <2>2. /\ <<Base - 1, 1, 0, 1>> \in [1 .. 4 -> Byte]
        /\ <<1, 0, 0>> \in [1 .. 3 -> Byte]
    BY <2>1
  <2>3. /\ \A b \in [1 .. 4 -> Byte] : Diag!IsText(Diag!Dotted(b))
        /\ \A b \in [1 .. 3 -> Byte] : Diag!IsText(Diag!Dotted(b))
    BY TextsAre
  <2>. QED
    BY <2>2, <2>3
<1>3. \A n \in {0, 3, Base + 1, Base + 2, Base + 3} : Diag!IsText(Diag!Decimal(n))
  BY TextsAre, DiagnosticsAssumption
<1>4. ASSUME NEW i \in 1 .. 13 PROVE Diag!IsText(s.values[i].value)
  <2>1. i \in {1, 3, 4, 5} \/ i \in {2} \cup 6 .. 13
    OBVIOUS
  <2>. HIDE DEF s
  <2>. QED
    BY <1>1, <1>2, <1>3, <2>1, SampleIs DEF s
<1>5. Len(s.values) = 13
  BY DEF Diag!Sample
<1>6. DOMAIN s.values = 1 .. 13 /\ Diag!IsText(s.hardware_id)
  BY <1>1, SampleIs DEF Laid
<1>. HIDE DEF s
<1>7. Diag!IsStatus(s)
  BY <1>4, <1>5, <1>6 DEF Diag!IsStatus
<1>8. Diag!Sample = <<s>>
  BY SampleIs DEF s
<1>9. Diag!IsMessage(<<s>>)
  BY <1>7 DEF Diag!IsMessage
<1>. QED
  BY <1>8, <1>9

\* After the second pass the packet is one that converting does not change: its
\* device_id is trimmed or, if the converter looks for another name, there are zeros.
Fixed(p) == IF Target = "spel_device" THEN TrimmedId(p.device_id) = p.device_id
            ELSE p = Diag!ZeroPacket

DiagnosticsInv ==
    path = "diagnostics" =>
        /\ Machines /\ rounds \in Nat /\ stage \in {"message", "packet"}
        /\ Diag!IsMessage(origin)
        /\ stage = "message" /\ rounds = 0 => msg = origin
        /\ stage = "packet" \/ rounds > 0 => Normal(pkt)
        /\ stage = "message" /\ rounds > 0 => msg = <<Diag!Status(pkt)>>
        /\ (stage = "packet" /\ rounds = 1) \/ rounds > 1 => Fixed(pkt)
        /\ rounds > 1 => msg = <<Diag!Status(pkt)>>

\* Packing what was published makes a packet that stays as it is from then on.
LEMMA RepackFixes ==
    ASSUME Machines, NEW p, Normal(p), NEW q, q = Repack(<<Diag!Status(p)>>)
    PROVE  /\ Normal(q) /\ Fixed(q)
           /\ Fixed(p) => q = p
<1>1. Diag!IsText(p.device_id)
  BY DEF Normal
<1>2. TrimmedId(TrimmedId(p.device_id)) = TrimmedId(p.device_id)
  BY <1>1, TrimmedOnce
<1>. QED
  BY <1>2, RepackOfStatus DEF Fixed

LEMMA ConvertKeepsDiagnostics ==
    ASSUME path = "diagnostics", path' = path, DiagnosticsInv, Diag!Convert
    PROVE  DiagnosticsInv'
<1>1. /\ stage = "message" /\ stage' = "packet" /\ pkt' = Repack(msg)
      /\ UNCHANGED <<device, node, origin, msg, rounds>>
  BY ConvertIs
<1>2. Machines /\ rounds \in Nat /\ Diag!IsMessage(origin)
  BY DEF DiagnosticsInv
<1>3. Machines'
  BY <1>1, <1>2 DEF Machines
<1>4. CASE rounds = 0
  <2>1. Diag!IsMessage(msg)
    BY <1>1, <1>4 DEF DiagnosticsInv
  <2>2. Normal(Repack(msg))
    BY <1>2, <2>1, RepackIsNormal
  <2>3. Normal(pkt')
    BY <1>1, <2>2
  <2>. QED
    BY <1>1, <1>2, <1>3, <1>4, <2>3 DEF DiagnosticsInv
<1>5. CASE rounds > 0
  <2>1. Normal(pkt) /\ msg = <<Diag!Status(pkt)>> /\ (rounds > 1 => Fixed(pkt))
    BY <1>1, <1>5 DEF DiagnosticsInv
  <2>2. PICK q : q = Repack(msg)
    OBVIOUS
  <2>3. Normal(q) /\ Fixed(q) /\ (Fixed(pkt) => q = pkt)
    BY <1>2, <2>1, <2>2, RepackFixes
  <2>4. pkt' = q
    BY <1>1, <2>2
  <2>5. rounds > 1 => pkt' = pkt /\ (msg = <<Diag!Status(pkt)>>)'
    BY <1>1, <2>1, <2>3, <2>4 DEF Diag!Status
  <2>6. Normal(pkt') /\ Fixed(pkt')
    BY <2>3, <2>4
  <2>. QED
    BY <1>1, <1>2, <1>3, <1>5, <2>5, <2>6 DEF DiagnosticsInv
<1>. QED
  BY <1>2, <1>4, <1>5

LEMMA PublishKeepsDiagnostics ==
    ASSUME path = "diagnostics", path' = path, DiagnosticsInv, Diag!Publish
    PROVE  DiagnosticsInv'
<1>1. /\ stage = "packet" /\ stage' = "message" /\ msg' = <<Diag!Status(pkt)>>
      /\ rounds' = rounds + 1 /\ UNCHANGED <<device, node, origin, pkt>>
  BY PublishIs
<1>2. /\ Machines /\ rounds \in Nat /\ Diag!IsMessage(origin) /\ Normal(pkt)
      /\ rounds > 0 => Fixed(pkt)
  BY <1>1 DEF DiagnosticsInv
<1>3. Machines'
  BY <1>1, <1>2 DEF Machines
<1>4. (msg = <<Diag!Status(pkt)>>)'
  BY <1>1 DEF Diag!Status
<1>5. Normal(pkt') /\ (rounds' > 1 => Fixed(pkt'))
  BY <1>1, <1>2
<1>6. rounds' \in Nat /\ rounds' # 0
  BY <1>1, <1>2
<1>. QED
  BY <1>1, <1>2, <1>3, <1>4, <1>5, <1>6 DEF DiagnosticsInv

\* The packets the diagnostics travel in are the converter's, and settled after the
\* second pass.
LEMMA DiagnosticsKept == Spec => []DiagnosticsInv
<1>1. Init => DiagnosticsInv
  <2>. SUFFICES ASSUME Init, path = "diagnostics" PROVE DiagnosticsInv
    BY DEF DiagnosticsInv
  <2>1. Diag!Init
    BY DiagnosticsPath
  <2>2. Diag!IsMessage(origin)
    BY <2>1, SampleIsMessage, DiagnosticsAssumption DEF Diag!Init
  <2>. QED
    BY <2>1, <2>2 DEF Diag!Init, DiagnosticsInv, Machines
<1>2. DiagnosticsInv /\ [Next]_vars => DiagnosticsInv'
  <2>. SUFFICES ASSUME DiagnosticsInv, [Next]_vars, path' = "diagnostics"
                PROVE  DiagnosticsInv'
    BY DEF DiagnosticsInv
  <2>1. path = "diagnostics" /\ path' = path
    BY DiagnosticsPath
  <2>2. CASE Diag!Convert
    BY <2>1, <2>2, ConvertKeepsDiagnostics
  <2>3. CASE Diag!Publish
    BY <2>1, <2>3, PublishKeepsDiagnostics
  <2>4. CASE UNCHANGED diagnosticVars
    BY <2>1, <2>4 DEF diagnosticVars, DiagnosticsInv, Machines, Diag!Status
  <2>. QED
    BY <2>1, <2>2, <2>3, <2>4, DiagnosticsPath DEF Diag!Next
<1>. QED
  BY <1>1, <1>2, PTL DEF Spec

\* Published once more, diagnostics do not change any more, even if they lost blanks
\* the first time.
THEOREM DiagnosticsSettle == Spec => DiagnosticsSettled
<1>1. DiagnosticsInv /\ [Next]_vars => [path = "diagnostics" => Diag!Stays]_vars
  <2>. SUFFICES ASSUME DiagnosticsInv, [Next]_vars, path = "diagnostics", rounds > 1
                PROVE  msg' = msg
    BY DEF Diag!Stays
  <2>1. CASE Diag!Convert
    BY <2>1, ConvertIs
  <2>2. CASE Diag!Publish
    BY <2>2, PublishIs DEF DiagnosticsInv
  <2>3. CASE UNCHANGED diagnosticVars
    BY <2>3 DEF diagnosticVars
  <2>. QED
    BY <2>1, <2>2, <2>3, DiagnosticsPath DEF Diag!Next
<1>. QED
  BY <1>1, DiagnosticsKept, PTL DEF Spec, DiagnosticsSettled

-----------------------------------------------------------------------------
(* The numbers on their way *)

\* The number a message describes the device by
FirstNumber(m, key) ==
    IF Diag!Described(m) = {} THEN 0
    ELSE PackedNumber(m[Diag!Min(Diag!Described(m))], key)

\* The number is in the packet, digit by digit.
LEMMA RepackedNumber ==
    ASSUME Machines, NEW m, Diag!IsMessage(m), NEW key \in Diag!Numbers
    PROVE  /\ FirstNumber(m, key) \in 0 .. Diag!Power(Diag!Width[key]) - 1
           /\ Repack(m).numbers[key] = Diag!Digits(FirstNumber(m, key), Diag!Width[key])
<1>. DEFINE w == Diag!Width[key]
<1>1. w \in Widths /\ w \in 1 .. 8
  BY WidthIs, WidthSmall
<1>2. CASE Diag!Described(m) = {}
  <2>1. Repack(m) = Diag!ZeroPacket /\ FirstNumber(m, key) = 0
    BY <1>2 DEF Repack, FirstNumber
  <2>2. Diag!ZeroPacket.numbers[key] = [i \in 1 .. w |-> 0]
    BY DEF Diag!ZeroPacket
  <2>. HIDE DEF w
  <2>3. ASSUME NEW i \in 1 .. w PROVE (0 \div Diag!Power(w - i)) % Base = 0
    <3>1. Diag!Power(w - i) \in Nat \ {0}
      BY <1>1, PowerSteps
    <3>2. 0 \div Diag!Power(w - i) = 0
      BY <3>1
    <3>. QED
      BY <3>2, DiagnosticsAssumption
  <2>4. Diag!Digits(0, w) = [i \in 1 .. w |-> 0]
    BY <2>3 DEF Diag!Digits
  <2>5. 0 \in 0 .. Diag!Power(w) - 1
    BY <1>1, WidthSmall
  <2>. QED
    BY <2>1, <2>2, <2>4, <2>5 DEF w
<1>3. CASE Diag!Described(m) # {}
  <2>. DEFINE s == m[Diag!Min(Diag!Described(m))]
  <2>1. Diag!IsStatus(s)
    BY <1>3, FirstDescribed
  <2>2. Repack(m) = Diag!Packet(s) /\ FirstNumber(m, key) = PackedNumber(s, key)
    BY <1>3 DEF Repack, FirstNumber
  <2>. HIDE DEF s
  <2>. QED
    BY <2>1, <2>2, PacketIsNormal
<1>. QED
  BY <1>2, <1>3

\* What is published of such a number
LEMMA PublishedNumber ==
    ASSUME Machines, NEW p, Normal(p), NEW key \in Diag!Numbers,
           NEW n \in 0 .. Diag!Power(Diag!Width[key]) - 1,
           p.numbers[key] = Diag!Digits(n, Diag!Width[key])
    PROVE  /\ NumberShown(p, key) = n
           /\ Diag!LastEntry(Diag!Status(p), key, Diag!Empty) = Diag!Decimal(n)
<1>. DEFINE w == Diag!Width[key]
<1>1. w \in Widths
  BY WidthIs
<1>2. n \in 0 .. Diag!Power(w) - 1 /\ p.numbers[key] = Diag!Digits(n, w)
  OBVIOUS
<1>. HIDE DEF w
<1>3. w \in 1 .. 8 /\ n \in Nat
  BY <1>1, <1>2, WidthSmall
<1>4. Diag!Number(Diag!Digits(n, w)) = n
  BY <1>2, <1>3, NumberOfDigits
<1>5. NumberShown(p, key) = n
  BY <1>2, <1>4, ShownIs
<1>. QED
  BY <1>5, GetOfStatus

NumbersInv ==
    path = "diagnostics" =>
        \A key \in Diag!Numbers :
            /\ \/ rounds = 0 /\ stage = "packet"
               \/ rounds = 1 /\ stage = "message"
               \/ rounds > 0 /\ Target = "spel_device"
               => pkt.numbers[key] = Diag!Digits(FirstNumber(origin, key), Diag!Width[key])
            /\ rounds = 1 \/ (rounds > 1 /\ Target = "spel_device")
               => Diag!LastEntry(msg[1], key, Diag!Empty) =
                      Diag!Decimal(FirstNumber(origin, key))

LEMMA ConvertKeepsNumbers ==
    ASSUME path = "diagnostics", path' = path, DiagnosticsInv, NumbersInv, Diag!Convert
    PROVE  NumbersInv'
<1>1. /\ stage = "message" /\ stage' = "packet" /\ pkt' = Repack(msg)
      /\ UNCHANGED <<device, node, origin, msg, rounds>>
  BY ConvertIs
<1>2. Machines /\ rounds \in Nat /\ Diag!IsMessage(origin)
  BY DEF DiagnosticsInv
<1>. SUFFICES ASSUME NEW key \in Diag!Numbers,
                     rounds = 0 \/ (rounds > 0 /\ Target = "spel_device")
              PROVE  Repack(msg).numbers[key] =
                         Diag!Digits(FirstNumber(origin, key), Diag!Width[key])
  BY <1>1, <1>2 DEF NumbersInv
<1>3. CASE rounds = 0
  <2>1. msg = origin
    BY <1>1, <1>3 DEF DiagnosticsInv
  <2>. QED
    BY <1>2, <2>1, RepackedNumber
<1>4. CASE rounds > 0 /\ Target = "spel_device"
  <2>1. Normal(pkt) /\ msg = <<Diag!Status(pkt)>>
    BY <1>1, <1>4 DEF DiagnosticsInv
  <2>2. pkt.numbers[key] = Diag!Digits(FirstNumber(origin, key), Diag!Width[key])
    BY <1>4 DEF NumbersInv
  <2>3. Repack(msg).numbers[key] = pkt.numbers[key]
    BY <1>2, <1>4, <2>1, RepackOfStatus
  <2>. QED
    BY <2>2, <2>3
<1>. QED
  BY <1>3, <1>4

LEMMA PublishKeepsNumbers ==
    ASSUME path = "diagnostics", path' = path, DiagnosticsInv, NumbersInv, Diag!Publish
    PROVE  NumbersInv'
<1>1. /\ stage = "packet" /\ stage' = "message" /\ msg' = <<Diag!Status(pkt)>>
      /\ rounds' = rounds + 1 /\ UNCHANGED <<device, node, origin, pkt>>
  BY PublishIs
<1>2. Machines /\ rounds \in Nat /\ Diag!IsMessage(origin) /\ Normal(pkt)
  BY <1>1 DEF DiagnosticsInv
<1>3. ASSUME NEW key \in Diag!Numbers,
             rounds = 0 \/ (rounds > 0 /\ Target = "spel_device")
      PROVE  /\ pkt.numbers[key] = Diag!Digits(FirstNumber(origin, key), Diag!Width[key])
             /\ Diag!LastEntry(msg'[1], key, Diag!Empty) =
                    Diag!Decimal(FirstNumber(origin, key))
  <2>1. pkt.numbers[key] = Diag!Digits(FirstNumber(origin, key), Diag!Width[key])
    BY <1>1, <1>3 DEF NumbersInv
  <2>2. FirstNumber(origin, key) \in 0 .. Diag!Power(Diag!Width[key]) - 1
    BY <1>2, RepackedNumber
  <2>3. Diag!LastEntry(Diag!Status(pkt), key, Diag!Empty) =
            Diag!Decimal(FirstNumber(origin, key))
    BY <1>2, <2>1, <2>2, PublishedNumber
  <2>4. msg'[1] = Diag!Status(pkt)
    BY <1>1
  <2>. QED
    BY <2>1, <2>3, <2>4
<1>4. /\ rounds' = 1 => rounds = 0
      /\ rounds' > 1 => rounds > 0
      /\ rounds' # 0
  BY <1>1, <1>2
<1>. QED
  BY <1>1, <1>2, <1>3, <1>4 DEF NumbersInv

\* Every number of the first status with the name is shown as it was or, if the member
\* has no room for it, as 0, whatever the two byte orders; only strtoul and strtoull
\* show a negative number as another one.
THEOREM NumbersOfDiagnosticsKept == Spec => []NumbersKept
<1>1. Init => NumbersInv
  BY DiagnosticsPath DEF Diag!Init, NumbersInv
<1>2. DiagnosticsInv /\ NumbersInv /\ [Next]_vars => NumbersInv'
  <2>. SUFFICES ASSUME DiagnosticsInv, NumbersInv, [Next]_vars, path' = "diagnostics"
                PROVE  NumbersInv'
    BY DEF NumbersInv
  <2>1. path = "diagnostics" /\ path' = path
    BY DiagnosticsPath
  <2>2. CASE Diag!Convert
    BY <2>1, <2>2, ConvertKeepsNumbers
  <2>3. CASE Diag!Publish
    BY <2>1, <2>3, PublishKeepsNumbers
  <2>4. CASE UNCHANGED diagnosticVars
    BY <2>1, <2>4 DEF diagnosticVars, NumbersInv
  <2>. QED
    BY <2>1, <2>2, <2>3, <2>4, DiagnosticsPath DEF Diag!Next
<1>3. DiagnosticsInv /\ NumbersInv => NumbersKept
  <2>. SUFFICES ASSUME DiagnosticsInv, NumbersInv, path = "diagnostics",
                       rounds = 1 \/ (rounds > 1 /\ Target = "spel_device"),
                       NEW key \in Diag!Numbers
                PROVE  LET t == IF Diag!Described(origin) = {} THEN Diag!Empty
                                ELSE Diag!LastEntry(origin[Diag!Min(Diag!Described(origin))],
                                                    key, Diag!Empty)
                           shown == Diag!LastEntry(msg[1], key, Diag!Empty)
                       IN  \/ shown = Diag!Decimal(Diag!Meant(t, Diag!Width[key]))
                           \/ /\ Diag!Width[key] > 2 /\ Diag!IsNumber(t) /\ t.parts[1] < 0
                              /\ shown = Diag!Decimal(t.parts[1] + Diag!Power(8))
    BY DEF NumbersKept, Diag!NumbersKept
  <2>. DEFINE status == origin[Diag!Min(Diag!Described(origin))]
              w == Diag!Width[key]
              shown == Diag!LastEntry(msg[1], key, Diag!Empty)
              last == Diag!LastEntry(status, key, Diag!Empty)
  <2>1. shown = Diag!Decimal(FirstNumber(origin, key)) /\ Diag!IsMessage(origin)
    BY DEF NumbersInv, DiagnosticsInv
  <2>2. w \in Widths
    BY WidthIs
  <2>3. CASE Diag!Described(origin) = {}
    <3>1. FirstNumber(origin, key) = 0
      BY <2>3 DEF FirstNumber
    <3>2. Diag!Meant(Diag!Empty, w) = 0
      <4>1. ~ Diag!IsNumber(Diag!Empty)
        BY DEF Diag!IsNumber, Diag!Empty, Diag!Word
      <4>. QED
        BY <4>1 DEF Diag!Meant
    <3>. HIDE DEF w, shown
    <3>. QED
      BY <2>1, <2>3, <3>1, <3>2 DEF w, shown
  <2>4. CASE Diag!Described(origin) # {}
    <3>1. Diag!IsStatus(status)
      BY <2>1, <2>4, FirstDescribed
    <3>2. FirstNumber(origin, key) = Diag!Parsed(Diag!Get(status, key), w)
      BY <2>4 DEF FirstNumber, PackedNumber
    <3>3. Diag!IsText(last) /\ Diag!Get(status, key) = Diag!Trim(last)
      <4>. HIDE DEF status
      <4>. QED
        BY <3>1, GetIs DEF last
    <3>. HIDE DEF w, shown, status, last
    <3>4. \/ Diag!Parsed(Diag!Trim(last), w) = Diag!Meant(last, w)
          \/ /\ w > 2 /\ Diag!IsNumber(last) /\ last.parts[1] < 0
             /\ Diag!Parsed(Diag!Trim(last), w) = last.parts[1] + Diag!Power(8)
      BY <2>2, <3>3, ParsedIsMeant
    <3>5. \/ shown = Diag!Decimal(Diag!Meant(last, w))
          \/ /\ w > 2 /\ Diag!IsNumber(last) /\ last.parts[1] < 0
             /\ shown = Diag!Decimal(last.parts[1] + Diag!Power(8))
      BY <2>1, <3>2, <3>3, <3>4
    <3>. QED
      BY <2>4, <3>5 DEF last, w, shown, status
  <2>. QED
    BY <2>3, <2>4
<1>. QED
  BY <1>1, <1>2, <1>3, DiagnosticsKept, PTL DEF Spec

-----------------------------------------------------------------------------
(* The message of the sample publisher *)

\* The numbers of the sample fit.
LEMMA SampleNumbers ==
    ASSUME NEW i \in {2} \cup 6 .. 13
    PROVE  \E n \in 0 .. Diag!Power(Diag!Width[KeyAt[i]]) - 1 :
               Diag!Sample[1].values[i].value = Diag!Decimal(n)
<1>. DEFINE value == Diag!Sample[1].values[i].value
<1>1. Diag!Power(1) = Base /\ Diag!Power(2) = Base * Base
  BY PowersAre, DiagnosticsAssumption DEF Diag!Power
<1>2. /\ Diag!Power(4) >= Diag!Power(2) /\ Diag!Power(8) >= Diag!Power(2)
      /\ Diag!Power(4) \in Nat /\ Diag!Power(8) \in Nat
  <2>1. ASSUME NEW j \in 0 .. 7
        PROVE  Diag!Power(j + 1) >= Diag!Power(j) /\ Diag!Power(j + 1) \in Nat
    <3>. DEFINE x == Diag!Power(j)
    <3>1. x \in Nat /\ Diag!Power(j + 1) = x * Base
      BY PowerSteps
    <3>. HIDE DEF x
    <3>2. x * Base >= x /\ x * Base \in Nat
      BY <3>1, DiagnosticsAssumption
    <3>. QED
      BY <3>1, <3>2 DEF x
  <2>2. /\ Diag!Power(2 + 1) >= Diag!Power(2) /\ Diag!Power(3 + 1) >= Diag!Power(3)
        /\ Diag!Power(4 + 1) >= Diag!Power(4) /\ Diag!Power(5 + 1) >= Diag!Power(5)
        /\ Diag!Power(6 + 1) >= Diag!Power(6) /\ Diag!Power(7 + 1) >= Diag!Power(7)
        /\ \A j \in 0 .. 8 : Diag!Power(j) \in Nat
    BY <2>1, PowerSteps
  <2>. QED
    BY <2>2
<1>3. Base + 3 < Base * Base
  BY DiagnosticsAssumption
<1>4. CASE i \in {2, 7, 9}
  <2>1. PICK n \in {0, 3, Base + 1, Base + 2, Base + 3} : value = Diag!Decimal(n)
    BY SampleIs
  <2>2. Diag!Width[KeyAt[i]] \in {2, 4, 8}
    BY <1>4 DEF KeyAt, Diag!Width
  <2>3. n \in Nat /\ n <= Base + 3
    BY DiagnosticsAssumption
  <2>4. n < Diag!Power(2) /\ Diag!Power(2) \in Nat
    BY <1>1, <1>3, <2>3, DiagnosticsAssumption
  <2>5. n \in 0 .. Diag!Power(2) - 1 /\ n \in 0 .. Diag!Power(4) - 1
        /\ n \in 0 .. Diag!Power(8) - 1
    BY <1>2, <2>3, <2>4
  <2>. QED
    BY <2>1, <2>2, <2>5
<1>5. CASE i \in {6, 8} \cup 10 .. 13
  <2>1. PICK n \in {0, 3} : value = Diag!Decimal(n)
    BY <1>5, SampleIs
  <2>2. Diag!Width[KeyAt[i]] = 1
    BY <1>5 DEF KeyAt, Diag!Width
  <2>3. n \in 0 .. Diag!Power(1) - 1
    BY <1>1, DiagnosticsAssumption
  <2>. QED
    BY <2>1, <2>2, <2>3
<1>. QED
  BY <1>4, <1>5

\* A packet of the sample is published as the sample.
LEMMA SampleSurvives ==
    ASSUME Machines, Target = "spel_device"
    PROVE  /\ Normal(Repack(Diag!Sample))
           /\ <<Diag!Status(Repack(Diag!Sample))>> = Diag!Sample
<1>. DEFINE s == Diag!Sample[1]
            p == Repack(Diag!Sample)
            shown(key) == Diag!ToNetwork(node, Diag!Loaded(node, p.numbers[key]),
                                         Diag!Width[key])
<1>1. Diag!IsStatus(s)
  BY SampleIs, SampleIsMessage DEF Diag!IsMessage
<1>2. p = Diag!Packet(s)
  <2>1. Diag!Described(<<s>>) = {1} /\ Diag!Min(Diag!Described(<<s>>)) = 1
    BY SampleIs, DescribedOfOne
  <2>2. Diag!Sample = <<s>>
    BY SampleIs
  <2>3. Diag!Described(Diag!Sample) # {} /\ Diag!Min(Diag!Described(Diag!Sample)) = 1
    BY <2>1, <2>2
  <2>. QED
    BY <2>3 DEF Repack
<1>3. Normal(p)
  <2>. HIDE DEF s, p
  <2>. QED
    BY <1>1, <1>2, PacketIsNormal
<1>4. ASSUME NEW i \in {2} \cup 6 .. 13
      PROVE  Diag!Decimal(shown(KeyAt[i])) = s.values[i].value
  <2>. DEFINE key == KeyAt[i]
              w == Diag!Width[key]
  <2>1. PICK n \in 0 .. Diag!Power(w) - 1 : s.values[i].value = Diag!Decimal(n)
    BY SampleNumbers
  <2>2. key \in Diag!Numbers
    BY WidthIs DEF KeyAt
  <2>3. w \in Widths
    BY <2>2, WidthIs
  <2>4. Diag!Get(s, key) = Diag!Trim(s.values[i].value)
    <3>1. Laid(s)
      BY SampleIs
    <3>. HIDE DEF s
    <3>. QED
      BY <3>1, EntryOfLaid
  <2>. HIDE DEF w
  <2>5. Diag!Trim(Diag!Decimal(n)) = Diag!Decimal(n)
    <3>1. n \in Int
      BY <2>3, WidthSmall
    <3>2. Diag!Decimal(n).blanks = FALSE
      BY DEF Diag!Decimal, Diag!Dotted
    <3>. QED
      BY <3>1, <3>2, TrimIs, TextsAre
  <2>6. PackedNumber(s, key) = n
    <3>1. Diag!Parsed(Diag!Decimal(n), w) = n
      BY <2>3, ParsedDecimal
    <3>2. PackedNumber(s, key) = Diag!Parsed(Diag!Get(s, key), w)
      BY DEF PackedNumber, w
    <3>. QED
      BY <2>1, <2>4, <2>5, <3>1, <3>2
  <2>7. p.numbers[key] = Diag!Digits(PackedNumber(s, key), w)
    <3>. HIDE DEF s, p, key
    <3>. QED
      BY <1>1, <1>2, <2>2, PacketIsNormal DEF w
  <2>8. NumberShown(p, key) = n
    <3>. HIDE DEF s, p, key
    <3>. QED
      BY <1>3, <2>2, <2>6, <2>7, PublishedNumber DEF w
  <2>9. shown(key) = n
    BY <2>8 DEF NumberShown
  <2>. QED
    BY <2>1, <2>9
<1>5. /\ Diag!Get(s, "ip_address") = Diag!Trim(Diag!Dotted(<<Base - 1, 1, 0, 1>>))
      /\ Diag!Get(s, "product_name") = Diag!Trim(Diag!Word("RSF-X001"))
      /\ Diag!Get(s, "firmware_version") = Diag!Trim(Diag!Dotted(<<1, 0, 0>>))
      /\ Diag!Get(s, "device_id") = Diag!Trim(Diag!Word("H0000001"))
  <2>1. Laid(s)
    BY SampleIs
  <2>2. ASSUME NEW i \in 1 .. 13
        PROVE  Diag!Get(s, KeyAt[i]) = Diag!Trim(s.values[i].value)
    <3>. HIDE DEF s
    <3>. QED
      BY <2>1, EntryOfLaid
  <2>3. /\ KeyAt[1] = "ip_address" /\ KeyAt[3] = "product_name"
        /\ KeyAt[4] = "firmware_version" /\ KeyAt[5] = "device_id"
    BY DEF KeyAt
  <2>4. /\ Diag!Get(s, KeyAt[1]) = Diag!Trim(s.values[1].value)
        /\ Diag!Get(s, KeyAt[3]) = Diag!Trim(s.values[3].value)
        /\ Diag!Get(s, KeyAt[4]) = Diag!Trim(s.values[4].value)
        /\ Diag!Get(s, KeyAt[5]) = Diag!Trim(s.values[5].value)
    BY <2>2
  <2>. QED
    BY <2>3, <2>4, SampleIs
<1>6. \A x : /\ Diag!Word(x).blanks = FALSE /\ Diag!Word(x).word = x
             /\ Diag!Trim(Diag!Word(x)) = Diag!Word(x)
             /\ x # Diag!LongName => Diag!First8(Diag!Word(x)) = Diag!Word(x)
  <2>. TAKE x
  <2>1. Diag!Word(x).blanks = FALSE /\ Diag!Word(x).word = x
    BY DEF Diag!Word
  <2>2. Diag!IsText(Diag!Word(x))
    <3>1. <<>> \in Seq(Int) /\ FALSE \in BOOLEAN
      OBVIOUS
    <3>. QED
      BY <3>1 DEF Diag!IsText, Diag!Word
  <2>. QED
    BY <2>1, <2>2, TrimIs DEF Diag!First8
<1>7. p.product_name = Diag!Word("RSF-X001")
  <2>1. p.product_name = Diag!First8(Diag!Get(s, "product_name"))
    BY <1>2 DEF Diag!Packet
  <2>2. "RSF-X001" # Diag!LongName
    BY DEF Diag!LongName
  <2>. QED
    BY <1>5, <1>6, <2>1, <2>2
<1>8. p.device_id = Diag!Word("H0000001")
  <2>1. p.device_id = Diag!First8(Diag!DeviceId(s))
    BY <1>2 DEF Diag!Packet
  <2>2. "H0000001" # Diag!LongName
    BY DEF Diag!LongName
  <2>3. Diag!Get(s, "device_id") = Diag!Word("H0000001")
    BY <1>5, <1>6
  <2>4. s.hardware_id = Diag!Word("H0000001")
    BY SampleIs
  <2>5. Diag!DeviceId(s) = Diag!Word("H0000001")
    BY <2>3, <2>4 DEF Diag!DeviceId
  <2>. QED
    BY <1>6, <2>1, <2>2, <2>5
<1>9. p.ip_address = <<Base - 1, 1, 0, 1>> /\ p.firmware = <<1, 0, 0>>
  <2>1. 0 \in Byte /\ 1 \in Byte /\ Base - 1 \in Byte
    BY DiagnosticsAssumption DEF Byte
  <2>2. /\ <<Base - 1, 1, 0, 1>> \in [1 .. 4 -> Byte]
        /\ <<1, 0, 0>> \in [1 .. 3 -> Byte]
    BY <2>1
  <2>3. /\ \A b \in [1 .. 4 -> Byte] : Diag!Trim(Diag!Dotted(b)) = Diag!Dotted(b)
        /\ \A b \in [1 .. 3 -> Byte] : Diag!Trim(Diag!Dotted(b)) = Diag!Dotted(b)
    <3>1. \A b : Diag!Dotted(b).blanks = FALSE
      BY DEF Diag!Dotted
    <3>2. /\ \A b \in [1 .. 4 -> Byte] : Diag!IsText(Diag!Dotted(b))
          /\ \A b \in [1 .. 3 -> Byte] : Diag!IsText(Diag!Dotted(b))
      BY TextsAre
    <3>. QED
      BY <3>1, <3>2, TrimIs
  <2>4. /\ p.ip_address = Diag!Bytes(Diag!Get(s, "ip_address"), 4)
        /\ p.firmware = Diag!Bytes(Diag!Get(s, "firmware_version"), 3)
    BY <1>2 DEF Diag!Packet
  <2>. HIDE DEF p, s
  <2>5. /\ p.ip_address = Diag!Bytes(Diag!Dotted(<<Base - 1, 1, 0, 1>>), 4)
        /\ p.firmware = Diag!Bytes(Diag!Dotted(<<1, 0, 0>>), 3)
    BY <1>5, <2>2, <2>3, <2>4
  <2>. QED
    BY <2>2, <2>5, BytesOfDotted
<1>10. Diag!Loaded(node, p.numbers["device_status"]) = 0
  <2>1. /\ KeyAt[6] = "device_status" /\ Diag!Width["device_status"] = 1
        /\ s.values[6].value = Diag!Decimal(0)
    BY SampleIs DEF KeyAt, Diag!Width
  <2>2. Diag!Decimal(shown("device_status")) = Diag!Decimal(0)
    BY <1>4, <2>1
  <2>3. shown("device_status") = 0
    <3>1. \A n : Diag!Decimal(n).parts[1] = n
      BY DEF Diag!Decimal, Diag!Dotted
    <3>. HIDE DEF shown
    <3>2. Diag!Decimal(shown("device_status")).parts[1] = Diag!Decimal(0).parts[1]
      BY <2>2
    <3>. QED
      BY <3>1, <3>2
  <2>4. shown("device_status") = Diag!Loaded(node, p.numbers["device_status"])
    BY <2>1 DEF Diag!ToNetwork
  <2>. QED
    BY <2>3, <2>4
<1>. HIDE DEF p
<1>11. Diag!Status(p).values = s.values
  <2>. DEFINE entry(k, x) == [key |-> k, value |-> x]
              a == <<entry("ip_address", Diag!Dotted(p.ip_address)),
                     entry("ip_port", Diag!Decimal(shown("ip_port"))),
                     entry("product_name", p.product_name),
                     entry("firmware_version", Diag!Dotted(p.firmware)),
                     entry("device_id", p.device_id),
                     entry("device_status", Diag!Decimal(shown("device_status"))),
                     entry("device_temperature", Diag!Decimal(shown("device_temperature"))),
                     entry("cpu_usage", Diag!Decimal(shown("cpu_usage"))),
                     entry("elapsed_time", Diag!Decimal(shown("elapsed_time"))),
                     entry("odometry_state", Diag!Decimal(shown("odometry_state"))),
                     entry("odometry_type", Diag!Decimal(shown("odometry_type"))),
                     entry("gnss_state", Diag!Decimal(shown("gnss_state"))),
                     entry("gnss_type", Diag!Decimal(shown("gnss_type")))>>
  <2>1. Diag!Status(p).values = a
    BY DEF Diag!Status, Diag!Entry
  <2>2. s.values = <<entry("ip_address", s.values[1].value),
                     entry("ip_port", s.values[2].value),
                     entry("product_name", s.values[3].value),
                     entry("firmware_version", s.values[4].value),
                     entry("device_id", s.values[5].value),
                     entry("device_status", s.values[6].value),
                     entry("device_temperature", s.values[7].value),
                     entry("cpu_usage", s.values[8].value),
                     entry("elapsed_time", s.values[9].value),
                     entry("odometry_state", s.values[10].value),
                     entry("odometry_type", s.values[11].value),
                     entry("gnss_state", s.values[12].value),
                     entry("gnss_type", s.values[13].value)>>
    BY DEF Diag!Sample, Diag!Entry
  <2>3. /\ s.values[1].value = Diag!Dotted(p.ip_address)
        /\ s.values[3].value = p.product_name
        /\ s.values[4].value = Diag!Dotted(p.firmware)
        /\ s.values[5].value = p.device_id
    BY <1>7, <1>8, <1>9, SampleIs
  <2>. HIDE DEF shown, s
  <2>4. /\ s.values[2].value = Diag!Decimal(shown("ip_port"))
        /\ s.values[6].value = Diag!Decimal(shown("device_status"))
        /\ s.values[7].value = Diag!Decimal(shown("device_temperature"))
        /\ s.values[8].value = Diag!Decimal(shown("cpu_usage"))
        /\ s.values[9].value = Diag!Decimal(shown("elapsed_time"))
        /\ s.values[10].value = Diag!Decimal(shown("odometry_state"))
        /\ s.values[11].value = Diag!Decimal(shown("odometry_type"))
        /\ s.values[12].value = Diag!Decimal(shown("gnss_state"))
        /\ s.values[13].value = Diag!Decimal(shown("gnss_type"))
    BY <1>4 DEF KeyAt
  <2>. HIDE DEF entry
  <2>. QED
    BY <2>1, <2>2, <2>3, <2>4
<1>12. Diag!Status(p) = s
  <2>1. /\ s.name = "spel_device" /\ s.level = "OK"
        /\ s.hardware_id = Diag!Word("H0000001")
    BY SampleIs
  <2>2. s = [name |-> s.name, hardware_id |-> s.hardware_id, level |-> s.level,
             values |-> s.values]
    BY DEF Diag!Sample
  <2>. HIDE DEF s
  <2>3. Diag!Status(p) = [name |-> "spel_device", hardware_id |-> p.device_id,
                          level |-> "OK", values |-> Diag!Status(p).values]
    BY <1>10 DEF Diag!Status
  <2>. QED
    BY <1>8, <1>11, <2>1, <2>2, <2>3
<1>13. Diag!Sample = <<s>>
  BY SampleIs
<1>. HIDE DEF s
<1>14. <<Diag!Status(p)>> = Diag!Sample
  BY <1>12, <1>13
<1>. QED
  BY <1>3, <1>14 DEF p

SampleInv ==
    path = "diagnostics" /\ origin = Diag!Sample /\ Target = "spel_device" =>
        /\ msg = Diag!Sample
        /\ stage = "packet" => <<Diag!Status(pkt)>> = Diag!Sample

\* The message of the sample publisher is published as it was, however often.
THEOREM SampleComesBack == Spec => []SampleUnchanged
<1>1. Init => SampleInv
  BY DiagnosticsPath DEF Diag!Init, SampleInv
<1>2. DiagnosticsInv /\ SampleInv /\ [Next]_vars => SampleInv'
  <2>. SUFFICES ASSUME DiagnosticsInv, SampleInv, [Next]_vars,
                       path' = "diagnostics", origin' = Diag!Sample, Target = "spel_device"
                PROVE  /\ msg' = Diag!Sample
                       /\ stage' = "packet" => (<<Diag!Status(pkt)>> = Diag!Sample)'
    BY DEF SampleInv
  <2>1. path = "diagnostics" /\ Machines
    BY DiagnosticsPath DEF DiagnosticsInv
  <2>2. CASE Diag!Convert
    <3>1. /\ stage = "message" /\ stage' = "packet" /\ pkt' = Repack(msg)
          /\ UNCHANGED <<device, node, origin, msg, rounds>>
      BY <2>2, ConvertIs
    <3>2. msg = Diag!Sample
      BY <2>1, <3>1 DEF SampleInv
    <3>3. PICK q : q = Repack(Diag!Sample)
      OBVIOUS
    <3>4. <<Diag!Status(q)>> = Diag!Sample
      BY <2>1, <3>3, SampleSurvives
    <3>5. pkt' = q
      BY <3>1, <3>2, <3>3
    <3>6. (<<Diag!Status(pkt)>> = Diag!Sample)'
      BY <3>1, <3>4, <3>5 DEF Diag!Status
    <3>. QED
      BY <3>1, <3>2, <3>6
  <2>3. CASE Diag!Publish
    BY <2>1, <2>3, PublishIs DEF SampleInv
  <2>4. CASE UNCHANGED diagnosticVars
    BY <2>1, <2>4 DEF diagnosticVars, SampleInv, Diag!Status
  <2>. QED
    BY <2>1, <2>2, <2>3, <2>4, DiagnosticsPath DEF Diag!Next
<1>3. SampleInv => SampleUnchanged
  BY DEF SampleInv, SampleUnchanged, Diag!SampleUnchanged
<1>. QED
  BY <1>1, <1>2, <1>3, DiagnosticsKept, PTL DEF Spec

=============================================================================
