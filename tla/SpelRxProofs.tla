----------------------------- MODULE SpelRxProofs -----------------------------
(* Proofs about SpelRx: what the node publishes of the frames it receives, for *)
(* any payloads, connections and period of the transforms.                     *)
EXTENDS SpelRx, FiniteSetTheorems, SequenceTheorems, TLAPS

Odometry == "IMU_RATE_ODOMETRY"
CloudType == "HOKUYO_CLOUD2"

Frame == [conn : Nat, type : {"ACK", "WARN", "DATA", "ERROR", "unknown"},
          data : DataTypes \cup {"unknown"}, pl : Payloads \cup {NoPayload}]
Msg   == [topic : Topics, stamp : Nat, pkt : Nat]

\* Frames come over connections in succession; the one over which an ERROR came is
\* not read any more.
Succession ==
    /\ \A n \in DOMAIN log : log[n].conn <= conn
    /\ rpc = "recv" => \A n \in DOMAIN log : log[n].type = "ERROR" => log[n].conn < conn
    /\ ErrorEndsConnection

\* The packet that is kept is that of the last odometry published.
LastOdometry ==
    /\ isSet <=> On(Odometry) # {}
    /\ isSet => \E i \in On(Odometry) :
                    out[i].pkt = odom /\ \A j \in On(Odometry) : j <= i

\* The counter counts the odometries since the last transform.
Counting ==
    /\ BroadcastTf =>
          Cardinality(On(Odometry)) = TfPeriod * Cardinality(On("TF")) + tfcnt
    /\ ~BroadcastTf => On("TF") = {}

\* TfCadence, and that there is no transform with broadcast_tf off
Cadence ==
    /\ Cardinality(On("TF")) =
          IF BroadcastTf THEN Cardinality(On(Odometry)) \div TfPeriod ELSE 0
    /\ \A i \in On("TF") :
          /\ Cardinality(Before(i, Odometry)) =
                TfPeriod * Cardinality(Before(i + 1, "TF"))
          /\ i > 1 /\ out[i - 1] = [out[i] EXCEPT !.topic = Odometry]

RxInv == /\ TypeOK /\ Succession /\ Forwarded
         /\ LastOdometry /\ LidarRatePaired
         /\ Counting /\ Cadence

-----------------------------------------------------------------------------
(* Topics, places and what is appended *)

\* The topics that bear no name of a data type are two others.
LEMMA Names ==
    /\ DataTypes \subseteq Topics /\ CloudType \in DataTypes /\ Odometry \in DataTypes
    /\ "LIDAR_RATE_ODOM" \in Topics /\ "TF" \in Topics
    /\ "LIDAR_RATE_ODOM" \notin DataTypes /\ "TF" \notin DataTypes
    /\ "unknown" \notin DataTypes
    /\ CloudType # Odometry
  BY DEF DataTypes, FixTypes, OdomTypes, StringTypes, Topics, CloudType, Odometry

\* The places of frames and messages
LEMMA Shape ==
    ASSUME TypeOK
    PROVE  /\ log \in Seq(Frame) /\ Len(log) \in Nat /\ DOMAIN log = 1..Len(log)
           /\ \A n \in DOMAIN log : log[n] \in Frame
           /\ out \in Seq(Msg) /\ Len(out) \in Nat /\ DOMAIN out = 1..Len(out)
           /\ \A i \in DOMAIN out : out[i] \in Msg
<1>1. log \in Seq(Frame) /\ out \in Seq(Msg)
  BY DEF TypeOK, Frame, Msg
<1>. QED
  BY <1>1, LenProperties, ElementOfSeq

\* One message, or one and another, appear behind those that are there.
AddsOne(m) ==
    /\ out' \in Seq(Msg) /\ Len(out') = Len(out) + 1
    /\ DOMAIN out' = 1..(Len(out) + 1)
    /\ \A i \in DOMAIN out : out'[i] = out[i]
    /\ out'[Len(out) + 1] = m

AddsTwo(m, n) ==
    /\ out' \in Seq(Msg) /\ Len(out') = Len(out) + 2
    /\ DOMAIN out' = 1..(Len(out) + 2)
    /\ \A i \in DOMAIN out : out'[i] = out[i]
    /\ out'[Len(out) + 1] = m /\ out'[Len(out) + 2] = n

\* Appending a message adds one.
LEMMA Appended ==
    ASSUME TypeOK, NEW m \in Msg, out' = Append(out, m)
    PROVE  AddsOne(m)
<1>1. out \in Seq(Msg) /\ Len(out) \in Nat /\ DOMAIN out = 1..Len(out)
  BY Shape
<1>2. /\ out' \in Seq(Msg) /\ Len(out') = Len(out) + 1 /\ out'[Len(out) + 1] = m
      /\ \A i \in 1..Len(out) : out'[i] = out[i]
  BY <1>1, AppendProperties
<1>. QED
  BY <1>1, <1>2, LenProperties DEF AddsOne

\* A message and nothing is one.
LEMMA AndNothing ==
    ASSUME TypeOK, NEW m \in Msg, out' = (out \o <<m>>) \o <<>>
    PROVE  AddsOne(m)
<1>1. out \in Seq(Msg) /\ <<m>> \in Seq(Msg) /\ out \o <<m>> = Append(out, m)
  BY Shape
<1>2. out \o <<m>> \in Seq(Msg)
  BY <1>1, ConcatProperties
<1>3. (out \o <<m>>) \o <<>> = out \o <<m>>
  BY <1>2, ConcatEmptySeq
<1>. QED
  BY <1>1, <1>3, Appended

\* A message and another are two.
LEMMA AndAnother ==
    ASSUME TypeOK, NEW m \in Msg, NEW n \in Msg, out' = (out \o <<m>>) \o <<n>>
    PROVE  AddsTwo(m, n)
<1>. DEFINE q == out \o <<m>>
<1>1. /\ out \in Seq(Msg) /\ Len(out) \in Nat /\ DOMAIN out = 1..Len(out)
      /\ q = Append(out, m)
  BY Shape
<1>2. /\ q \in Seq(Msg) /\ Len(q) = Len(out) + 1 /\ q[Len(out) + 1] = m
      /\ \A i \in 1..Len(out) : q[i] = out[i]
  BY <1>1, AppendProperties
<1>3. out' = q \o <<n>>
  OBVIOUS
<1>. HIDE DEF q
<1>4. out' = Append(q, n)
  BY <1>2, <1>3
<1>5. /\ out' \in Seq(Msg) /\ Len(out') = Len(q) + 1 /\ out'[Len(q) + 1] = n
      /\ \A i \in 1..Len(q) : out'[i] = q[i]
  <2>1. /\ Append(q, n) \in Seq(Msg) /\ Len(Append(q, n)) = Len(q) + 1
        /\ Append(q, n)[Len(q) + 1] = n
        /\ \A i \in 1..Len(q) : Append(q, n)[i] = q[i]
    BY <1>2, AppendProperties
  <2>. QED
    BY <1>4, <2>1
<1>6. /\ Len(out') = Len(out) + 2 /\ out'[Len(out) + 2] = n
      /\ out'[Len(out) + 1] = m /\ \A i \in 1..Len(out) : out'[i] = out[i]
  <2>1. Len(q) + 1 = Len(out) + 2 /\ Len(out) + 1 \in 1..Len(q)
    BY <1>1, <1>2
  <2>2. \A i \in 1..Len(out) : i \in 1..Len(q)
    BY <1>1, <1>2
  <2>. QED
    BY <1>2, <1>5, <2>1, <2>2
<1>. QED
  BY <1>1, <1>5, <1>6, LenProperties DEF AddsTwo

\* The places of a topic after one message more
LEMMA OneMore ==
    ASSUME TypeOK, NEW m \in Msg, AddsOne(m), NEW t
    PROVE  /\ On(t)' = IF m.topic = t THEN On(t) \cup {Len(out) + 1} ELSE On(t)
           /\ \A i \in On(t) : out'[i] = out[i]
  BY Shape DEF AddsOne, On

\* The places of a topic after two messages more
LEMMA TwoMore ==
    ASSUME TypeOK, NEW m \in Msg, NEW n \in Msg, AddsTwo(m, n), NEW t
    PROVE  /\ On(t)' = On(t) \cup (IF m.topic = t THEN {Len(out) + 1} ELSE {})
                             \cup (IF n.topic = t THEN {Len(out) + 2} ELSE {})
           /\ \A i \in On(t) : out'[i] = out[i]
<1>1. Len(out) \in Nat /\ DOMAIN out = 1..Len(out)
  BY Shape
<1>2. \A i \in 1..(Len(out) + 2) :
          i \in DOMAIN out \/ i = Len(out) + 1 \/ i = Len(out) + 2
  BY <1>1
<1>. QED
  BY <1>1, <1>2 DEF AddsTwo, On

\* What came before a place does not change when something is added.
LEMMA PastStays ==
    ASSUME TypeOK,
           \/ \E m \in Msg : AddsOne(m)
           \/ \E m, n \in Msg : AddsTwo(m, n),
           NEW i \in 1..(Len(out) + 1), NEW t
    PROVE  Before(i, t)' = Before(i, t)
<1>1. \A j \in 1..(i - 1) : out'[j] = out[j]
  BY Shape DEF AddsOne, AddsTwo
<1>. QED
  BY <1>1 DEF Before

\* All places of a topic lie before the next.
LEMMA Passed ==
    ASSUME TypeOK, NEW t
    PROVE  Before(Len(out) + 1, t) = On(t)
  BY Shape DEF Before, On

\* There are as many as there are.
LEMMA Counts ==
    ASSUME TypeOK, NEW t
    PROVE  /\ IsFiniteSet(On(t)) /\ Cardinality(On(t)) \in Nat
           /\ \A x : x \notin On(t) => Cardinality(On(t) \cup {x}) = Cardinality(On(t)) + 1
<1>1. On(t) \subseteq 1..Len(out) /\ Len(out) \in Nat
  BY Shape DEF On
<1>2. IsFiniteSet(On(t))
  <2>1. IsFiniteSet(1..Len(out))
    BY <1>1, FS_Interval
  <2>. QED
    BY <1>1, <2>1, FS_Subset
<1>. QED
  BY <1>2, FS_CardinalityType, FS_AddElement

-----------------------------------------------------------------------------
(* What is kept by steps that publish *)

\* A frame is taken in.
Taken(f) ==
    /\ log' \in Seq(Frame) /\ Len(log') = Len(log) + 1
    /\ DOMAIN log' = 1..(Len(log) + 1)
    /\ \A n \in DOMAIN log : log'[n] = log[n]
    /\ log'[Len(log) + 1] = f

LEMMA TakenIn ==
    ASSUME TypeOK, NEW f \in Frame, log' = Append(log, f)
    PROVE  Taken(f)
<1>1. log \in Seq(Frame) /\ Len(log) \in Nat /\ DOMAIN log = 1..Len(log)
  BY Shape
<1>2. /\ log' \in Seq(Frame) /\ Len(log') = Len(log) + 1 /\ log'[Len(log) + 1] = f
      /\ \A n \in 1..Len(log) : log'[n] = log[n]
  BY <1>1, AppendProperties
<1>. QED
  BY <1>1, <1>2, LenProperties DEF Taken

\* The frame after the last is sound or it is not; the others are as they were.
LEMMA SoundMore ==
    ASSUME TypeOK, NEW f \in Frame, Taken(f), NEW d
    PROVE  Sound(d)' = IF f.type = "DATA" /\ f.data = d /\ Parses(d, f.pl)
                       THEN Sound(d) \cup {Len(log) + 1} ELSE Sound(d)
<1>1. Len(log) \in Nat /\ DOMAIN log = 1..Len(log)
  BY Shape
<1>2. \A n \in 1..(Len(log) + 1) : n \in DOMAIN log \/ n = Len(log) + 1
  BY <1>1
<1>. QED
  BY <1>1, <1>2 DEF Taken, Sound

\* A frame that is not sound and publishes nothing leaves the topics alone.
LEMMA QuietForward ==
    ASSUME TypeOK, Forwarded, out' = out, NEW f \in Frame, Taken(f),
           \A d \in DataTypes : ~(f.type = "DATA" /\ f.data = d /\ Parses(d, f.pl))
    PROVE  Forwarded'
<1>1. \A d \in DataTypes : Sound(d)' = Sound(d) /\ On(d)' = On(d)
  <2>. TAKE d \in DataTypes
  <2>1. Sound(d)' = Sound(d)
    BY SoundMore
  <2>. QED
    BY <2>1 DEF On
<1>. QED
  BY <1>1 DEF Forwarded

\* A sound frame appears on its topic and on no other of a data type.
LEMMA LoudForward ==
    ASSUME TypeOK, Forwarded,
           NEW d \in DataTypes, NEW f \in Frame, Taken(f),
           f.type = "DATA", f.data = d, Parses(d, f.pl),
           NEW m \in Msg, m = Message(d, This, This),
           \/ AddsOne(m)
           \/ \E n \in Msg : AddsTwo(m, n) /\ n.topic \notin DataTypes
    PROVE  Forwarded'
<1>. DEFINE L == Len(out) + 1
            N == Len(log) + 1
<1>1. /\ Len(out) \in Nat /\ DOMAIN out = 1..Len(out)
      /\ Len(log) \in Nat /\ DOMAIN log = 1..Len(log)
      /\ m.topic = d /\ m.stamp = N /\ m.pkt = N
      /\ out'[L] = m
  BY Shape DEF Message, This, AddsOne, AddsTwo
<1>2. ASSUME NEW e \in DataTypes
      PROVE  /\ On(e)' = IF e = d THEN On(e) \cup {L} ELSE On(e)
             /\ \A i \in On(e) : out'[i] = out[i] /\ i < L
             /\ Sound(e)' = IF e = d THEN Sound(e) \cup {N} ELSE Sound(e)
             /\ \A n \in Sound(e) : n < N
  <2>1. /\ \A i \in On(e) : i < L
        /\ \A n \in Sound(e) : n < N
    BY <1>1 DEF On, Sound
  <2>2. Sound(e)' = IF e = d THEN Sound(e) \cup {N} ELSE Sound(e)
    BY SoundMore
  <2>3. CASE AddsOne(m)
    BY <1>1, <2>1, <2>2, <2>3, OneMore
  <2>4. CASE \E n \in Msg : AddsTwo(m, n) /\ n.topic \notin DataTypes
    <3>1. PICK n \in Msg : AddsTwo(m, n) /\ n.topic \notin DataTypes
      BY <2>4
    <3>2. n.topic # e
      BY <3>1
    <3>3. /\ On(e)' = On(e) \cup (IF m.topic = e THEN {L} ELSE {})
                            \cup (IF n.topic = e THEN {Len(out) + 2} ELSE {})
          /\ \A i \in On(e) : out'[i] = out[i]
      BY <3>1, TwoMore
    <3>. QED
      BY <1>1, <2>1, <2>2, <3>2, <3>3
  <2>. QED
    BY <2>3, <2>4
<1>. HIDE DEF L, N
<1>3. ASSUME NEW e \in DataTypes
      PROVE  /\ {out'[i].stamp : i \in On(e)'} = Sound(e)'
             /\ \A i \in On(e)' : out'[i].pkt = out'[i].stamp
             /\ \A i, j \in On(e)' : i < j => out'[i].stamp < out'[j].stamp
  <2>1. /\ {out[i].stamp : i \in On(e)} = Sound(e)
        /\ \A i \in On(e) : out[i].pkt = out[i].stamp
        /\ \A i, j \in On(e) : i < j => out[i].stamp < out[j].stamp
    BY DEF Forwarded
  <2>2. \A i \in On(e) : out[i].stamp < N
    BY <1>2, <2>1
  <2>3. CASE e # d
    BY <1>2, <2>1, <2>3
  <2>4. CASE e = d
    <3>1. /\ On(e)' = On(e) \cup {L} /\ Sound(e)' = Sound(e) \cup {N}
          /\ out'[L].stamp = N /\ out'[L].pkt = N
          /\ \A i \in On(e) : out'[i] = out[i] /\ i < L
      BY <1>1, <1>2, <2>4
    <3>2. {out'[i].stamp : i \in On(e)'} = {out[i].stamp : i \in On(e)} \cup {N}
      BY <3>1
    <3>3. \A i, j \in On(e)' : i < j => out'[i].stamp < out'[j].stamp
      <4>1. \A i \in On(e) : ~(L < i)
        <5>1. L \in Nat /\ On(e) \subseteq Nat
          BY <1>1 DEF L, On
        <5>. QED
          BY <3>1, <5>1
      <4>2. ~(L < L)
        BY <1>1 DEF L
      <4>. QED
        BY <2>1, <2>2, <3>1, <4>1, <4>2
    <3>. QED
      BY <2>1, <3>1, <3>2, <3>3
  <2>. QED
    BY <2>3, <2>4
<1>. QED
  BY <1>3 DEF Forwarded
-----------------------------------------------------------------------------
(* Clouds and odometry *)

\* What LidarRatePaired says of one place
PairedAt(i) ==
    LET odoms  == Before(i, Odometry)
        paired == i < Len(out) /\ out[i + 1].topic = "LIDAR_RATE_ODOM"
    IN  /\ out[i].topic = CloudType =>
             IF odoms = {} THEN ~paired
             ELSE /\ paired
                  /\ out[i + 1].stamp = out[i].stamp
                  /\ \E j \in odoms : /\ out[i + 1].pkt = out[j].pkt
                                      /\ \A k \in odoms : k <= j
        /\ out[i].topic = "LIDAR_RATE_ODOM" =>
             i > 1 /\ out[i - 1].topic = CloudType

LEMMA EveryPlace == LidarRatePaired <=> \A i \in DOMAIN out : PairedAt(i)
  BY DEF LidarRatePaired, PairedAt, Odometry, CloudType

\* A place keeps its pair when what is added begins with a message of a data type.
LEMMA PairStays ==
    ASSUME TypeOK, NEW m \in Msg, m.topic \in DataTypes,
           AddsOne(m) \/ \E n \in Msg : AddsTwo(m, n),
           NEW i \in DOMAIN out, PairedAt(i)
    PROVE  PairedAt(i)'
<1>1. /\ Len(out) \in Nat /\ DOMAIN out = 1..Len(out) /\ m.topic # "LIDAR_RATE_ODOM"
      /\ \A j \in DOMAIN out : out'[j] = out[j]
      /\ out'[Len(out) + 1] = m /\ Len(out') \in Nat /\ Len(out') > Len(out)
  BY Shape, Names DEF AddsOne, AddsTwo
<1>2. i \in 1..(Len(out) + 1) /\ i <= Len(out) /\ out'[i] = out[i]
  BY <1>1
<1>3. Before(i, Odometry)' = Before(i, Odometry)
  BY <1>2, PastStays
<1>4. \A j \in Before(i, Odometry) : out'[j] = out[j]
  BY <1>1, <1>2 DEF Before
<1>5. i > 1 => out'[i - 1] = out[i - 1]
  BY <1>1, <1>2
<1>6. CASE i < Len(out)
  <2>1. i < Len(out') /\ out'[i + 1] = out[i + 1]
    BY <1>1, <1>2, <1>6
  <2>. QED
    BY <1>2, <1>3, <1>4, <1>5, <1>6, <2>1 DEF PairedAt
<1>7. CASE i = Len(out)
  <2>1. ~(i < Len(out)) /\ out'[i + 1].topic # "LIDAR_RATE_ODOM"
    BY <1>1, <1>7
  <2>. QED
    BY <1>2, <1>3, <1>4, <1>5, <2>1 DEF PairedAt
<1>. QED
  BY <1>1, <1>2, <1>6, <1>7

\* A message that stands alone is no cloud that has an odometry to go with.
LEMMA SinglePaired ==
    ASSUME TypeOK, LastOdometry, LidarRatePaired,
           NEW m \in Msg, m.topic \in DataTypes, AddsOne(m),
           m.topic = CloudType => ~isSet
    PROVE  LidarRatePaired'
<1>0. PICK L \in Nat : L = Len(out) + 1
  BY Shape
<1>1. L \in Nat /\ out'[L] = m /\ Len(out') = L /\ m.topic # "LIDAR_RATE_ODOM"
      /\ DOMAIN out' = 1..L /\ DOMAIN out = 1..(L - 1)
  BY <1>0, Shape, Names DEF AddsOne
<1>2. m.topic = CloudType => Before(L, Odometry)' = {}
  BY <1>0, PastStays, Passed, Shape DEF LastOdometry
<1>3. PairedAt(L)'
  BY <1>1, <1>2 DEF PairedAt
<1>4. \A i \in DOMAIN out : PairedAt(i)'
  BY PairStays, EveryPlace
<1>5. \A i \in DOMAIN out' : i \in DOMAIN out \/ i = L
  BY <1>1
<1>6. \A i \in DOMAIN out' : PairedAt(i)'
  BY <1>3, <1>4, <1>5
<1>. QED
  BY <1>6 DEF LidarRatePaired, PairedAt, Odometry, CloudType

\* Of two messages the second is a transform, or the odometry that is kept.
LEMMA DoublePaired ==
    ASSUME TypeOK, LastOdometry, LidarRatePaired,
           NEW m \in Msg, m.topic \in DataTypes, NEW n \in Msg, AddsTwo(m, n),
           \/ m.topic = Odometry /\ n.topic = "TF"
           \/ /\ m.topic = CloudType /\ n.topic = "LIDAR_RATE_ODOM" /\ isSet
              /\ n.stamp = m.stamp /\ n.pkt = odom
    PROVE  LidarRatePaired'
<1>0. PICK L \in Nat : L = Len(out) + 1
  BY Shape
<1>1. /\ L \in Nat /\ out'[L] = m /\ out'[L + 1] = n /\ Len(out') = L + 1
      /\ DOMAIN out' = 1..(L + 1) /\ DOMAIN out = 1..(L - 1)
      /\ \A j \in DOMAIN out : out'[j] = out[j]
      /\ m.topic # "LIDAR_RATE_ODOM" /\ m.topic # "TF"
  BY <1>0, Shape, Names DEF AddsTwo
<1>2. PairedAt(L)'
  <2>1. CASE m.topic = Odometry /\ n.topic = "TF"
    BY <1>1, <2>1, Names DEF PairedAt
  <2>2. CASE /\ m.topic = CloudType /\ n.topic = "LIDAR_RATE_ODOM" /\ isSet
             /\ n.stamp = m.stamp /\ n.pkt = odom
    <3>1. Before(L, Odometry)' = On(Odometry)
      BY <1>0, PastStays, Passed, Shape
    <3>2. PICK j \in On(Odometry) : out[j].pkt = odom /\ \A k \in On(Odometry) : k <= j
      BY <2>2 DEF LastOdometry
    <3>3. out'[j] = out[j]
      BY <1>1 DEF On
    <3>4. L < Len(out')
      BY <1>1
    <3>. QED
      BY <1>1, <2>2, <3>1, <3>2, <3>3, <3>4 DEF PairedAt
  <2>. QED
    BY <2>1, <2>2
<1>3. PairedAt(L + 1)'
  <2>1. n.topic # CloudType
    BY Names
  <2>2. L + 1 > 1 /\ (L + 1) - 1 = L
    BY <1>0, Shape
  <2>3. n.topic = "LIDAR_RATE_ODOM" => out'[(L + 1) - 1].topic = CloudType
    BY <1>1, <2>2
  <2>4. out'[L + 1].topic = n.topic
    BY <1>1
  <2>. QED
    BY <2>1, <2>2, <2>3, <2>4 DEF PairedAt
<1>4. \A i \in DOMAIN out : PairedAt(i)'
  BY PairStays, EveryPlace
<1>5. \A i \in DOMAIN out' : i \in DOMAIN out \/ i = L \/ i = L + 1
  BY <1>1
<1>6. \A i \in DOMAIN out' : PairedAt(i)'
  BY <1>2, <1>3, <1>4, <1>5
<1>. QED
  BY <1>6 DEF LidarRatePaired, PairedAt, Odometry, CloudType
-----------------------------------------------------------------------------
(* Transforms *)

\* A period and a rest that is less make whole periods.
LEMMA Periods ==
    ASSUME NEW p \in Nat \ {0}, NEW k \in Nat, NEW c \in 0..(p - 1)
    PROVE  (p * k + c) \div p = k
  OBVIOUS

\* The counter tells how many transforms there are.
LEMMA CounterTells ==
    ASSUME TypeOK, Counting
    PROVE  Cardinality(On("TF")) =
              IF BroadcastTf THEN Cardinality(On(Odometry)) \div TfPeriod ELSE 0
<1>1. CASE BroadcastTf
  <2>1. Cardinality(On(Odometry)) = TfPeriod * Cardinality(On("TF")) + tfcnt
    BY <1>1 DEF Counting
  <2>2. /\ TfPeriod \in Nat \ {0} /\ Cardinality(On("TF")) \in Nat
        /\ tfcnt \in 0..(TfPeriod - 1)
    BY <1>1, PeriodAssumption, Counts DEF TypeOK
  <2>. QED
    BY <1>1, <2>1, <2>2, Periods
<1>2. CASE ~BroadcastTf
  BY <1>2, FS_EmptySet DEF Counting
<1>. QED
  BY <1>1, <1>2

\* What Cadence says of one transform
BehindOdometry(i) ==
    /\ Cardinality(Before(i, Odometry)) = TfPeriod * Cardinality(Before(i + 1, "TF"))
    /\ i > 1 /\ out[i - 1] = [out[i] EXCEPT !.topic = Odometry]

\* A transform that was sent stays what it is.
LEMMA TransformStays ==
    ASSUME TypeOK,
           \/ \E m \in Msg : AddsOne(m)
           \/ \E m, n \in Msg : AddsTwo(m, n),
           NEW i \in On("TF"), BehindOdometry(i)
    PROVE  BehindOdometry(i)'
<1>1. i \in 1..(Len(out) + 1) /\ i + 1 \in 1..(Len(out) + 1) /\ Len(out) \in Nat
  BY Shape DEF On
<1>2. Before(i, Odometry)' = Before(i, Odometry) /\ Before(i + 1, "TF")' = Before(i + 1, "TF")
  BY <1>1, PastStays
<1>3. i \in DOMAIN out /\ i - 1 \in DOMAIN out /\ \A j \in DOMAIN out : out'[j] = out[j]
  BY Shape DEF On, AddsOne, AddsTwo, BehindOdometry
<1>. QED
  BY <1>2, <1>3 DEF BehindOdometry

\* Messages that are neither odometry nor transform change nothing of it.
LEMMA OthersKeepCadence ==
    ASSUME TypeOK, TypeOK', Counting, Cadence, tfcnt' = tfcnt,
           \/ out' = out
           \/ \E m \in Msg : AddsOne(m) /\ m.topic \notin {Odometry, "TF"}
           \/ \E m, n \in Msg : AddsTwo(m, n) /\ m.topic \notin {Odometry, "TF"}
                                              /\ n.topic \notin {Odometry, "TF"}
    PROVE  Counting' /\ Cadence'
<1>1. On(Odometry)' = On(Odometry) /\ On("TF")' = On("TF")
  <2>1. CASE out' = out
    BY <2>1 DEF On
  <2>2. ASSUME NEW m \in Msg, AddsOne(m), m.topic \notin {Odometry, "TF"}
        PROVE  On(Odometry)' = On(Odometry) /\ On("TF")' = On("TF")
    BY <2>2, OneMore
  <2>3. ASSUME NEW m \in Msg, NEW n \in Msg, AddsTwo(m, n),
               m.topic \notin {Odometry, "TF"}, n.topic \notin {Odometry, "TF"}
        PROVE  On(Odometry)' = On(Odometry) /\ On("TF")' = On("TF")
    <3>1. \A t : On(t)' = On(t) \cup (IF m.topic = t THEN {Len(out) + 1} ELSE {})
                               \cup (IF n.topic = t THEN {Len(out) + 2} ELSE {})
      BY <2>3, TwoMore
    <3>2. \A t \in {Odometry, "TF"} : m.topic # t /\ n.topic # t
      BY <2>3
    <3>. QED
      BY <3>1, <3>2
  <2>. QED
    BY <2>1, <2>2, <2>3
<1>2. Counting'
  BY <1>1 DEF Counting
<1>3. \A i \in On("TF")' : BehindOdometry(i)'
  <2>1. \A i \in On("TF") : BehindOdometry(i)
    BY DEF Cadence, BehindOdometry, Odometry
  <2>2. CASE out' = out
    BY <1>1, <2>1, <2>2 DEF BehindOdometry, Before
  <2>. QED
    BY <1>1, <2>1, <2>2, TransformStays
<1>4. Cardinality(On("TF"))' =
         IF BroadcastTf THEN Cardinality(On(Odometry))' \div TfPeriod ELSE 0
  BY <1>1, CounterTells
<1>. QED
  BY <1>2, <1>3, <1>4 DEF Cadence, BehindOdometry, Odometry

\* An odometry alone is counted.
LEMMA OdometryKeepsCadence ==
    ASSUME TypeOK, TypeOK', Counting, Cadence, NEW m \in Msg, AddsOne(m),
           m.topic = Odometry, BroadcastTf => tfcnt' = tfcnt + 1
    PROVE  Counting' /\ Cadence'
<1>0. PICK L \in Nat : L = Len(out) + 1
  BY Shape
<1>1. /\ On(Odometry)' = On(Odometry) \cup {L} /\ On("TF")' = On("TF")
      /\ L \notin On(Odometry)
  <2>1. \A t : On(t)' = IF m.topic = t THEN On(t) \cup {L} ELSE On(t)
    BY <1>0, OneMore
  <2>2. m.topic = Odometry /\ m.topic # "TF"
    BY DEF Odometry
  <2>3. L \notin On(Odometry)
    BY <1>0, Shape DEF On
  <2>. QED
    BY <2>1, <2>2, <2>3
<1>2. Cardinality(On(Odometry))' = Cardinality(On(Odometry)) + 1
  BY <1>1, Counts
<1>3. Counting'
  <2>1. CASE BroadcastTf
    <3>1. Cardinality(On(Odometry)) = TfPeriod * Cardinality(On("TF")) + tfcnt
      BY <2>1 DEF Counting
    <3>2. tfcnt \in Int /\ TfPeriod * Cardinality(On("TF")) \in Int
      BY PeriodAssumption, Counts, <2>1 DEF TypeOK
    <3>3. Cardinality(On(Odometry)) + 1 = TfPeriod * Cardinality(On("TF")) + (tfcnt + 1)
      <4>. HIDE DEF On
      <4>. QED
        BY <3>1, <3>2
    <3>. QED
      BY <1>1, <1>2, <2>1, <3>3 DEF Counting
  <2>2. CASE ~BroadcastTf
    BY <1>1, <2>2 DEF Counting
  <2>. QED
    BY <2>1, <2>2
<1>4. \A i \in On("TF")' : BehindOdometry(i)'
  <2>1. \A i \in On("TF") : BehindOdometry(i)
    BY DEF Cadence, BehindOdometry, Odometry
  <2>. QED
    BY <1>1, <2>1, TransformStays
<1>5. (Cardinality(On("TF")) =
         IF BroadcastTf THEN Cardinality(On(Odometry)) \div TfPeriod ELSE 0)'
  <2>1. TypeOK' /\ Counting'
    BY <1>3
  <2>. QED
    BY <2>1, CounterTells, PTL
<1>. QED
  BY <1>3, <1>4, <1>5 DEF Cadence, BehindOdometry, Odometry

\* The odometry that ends a period brings a transform, which is of that odometry.
LEMMA TransformKeepsCadence ==
    ASSUME TypeOK, TypeOK', Counting, Cadence,
           NEW m \in Msg, NEW n \in Msg, AddsTwo(m, n),
           m.topic = Odometry, n.topic = "TF", n.stamp = m.stamp, n.pkt = m.pkt,
           BroadcastTf, tfcnt + 1 = TfPeriod, tfcnt' = 0
    PROVE  Counting' /\ Cadence'
<1>0. PICK L \in Nat : L = Len(out) + 1
  BY Shape
<1>1. /\ On(Odometry)' = On(Odometry) \cup {L} /\ On("TF")' = On("TF") \cup {L + 1}
      /\ L \notin On(Odometry) /\ L + 1 \notin On("TF")
  <2>1. \A t : On(t)' = On(t) \cup (IF m.topic = t THEN {L} ELSE {})
                             \cup (IF n.topic = t THEN {L + 1} ELSE {})
    <3>1. L + 1 = Len(out) + 2
      BY <1>0, Shape
    <3>2. \A t : On(t)' = On(t) \cup (IF m.topic = t THEN {Len(out) + 1} ELSE {})
                               \cup (IF n.topic = t THEN {Len(out) + 2} ELSE {})
      BY TwoMore
    <3>. QED
      BY <1>0, <3>1, <3>2
  <2>2. m.topic = Odometry /\ n.topic = "TF" /\ Odometry # "TF"
    BY DEF Odometry, Msg
  <2>3. L \notin On(Odometry) /\ L + 1 \notin On("TF")
    BY <1>0, Shape DEF On
  <2>. QED
    BY <2>1, <2>2, <2>3
<1>2. /\ Cardinality(On(Odometry))' = Cardinality(On(Odometry)) + 1
      /\ Cardinality(On("TF"))' = Cardinality(On("TF")) + 1
  BY <1>1, Counts
<1>3. Cardinality(On(Odometry)) + 1 = TfPeriod * (Cardinality(On("TF")) + 1)
  <2>1. PICK k \in Nat : k = Cardinality(On("TF"))
    BY Counts
  <2>2. Cardinality(On(Odometry)) = TfPeriod * k + tfcnt
    BY <2>1 DEF Counting
  <2>3. TfPeriod \in Nat /\ TfPeriod * (k + 1) = TfPeriod * k + TfPeriod
        /\ TfPeriod * k \in Nat
    BY PeriodAssumption
  <2>4. Cardinality(On(Odometry)) + 1 = TfPeriod * k + TfPeriod
    BY <2>2, <2>3 DEF TypeOK
  <2>. QED
    BY <2>1, <2>3, <2>4
<1>4. Counting'
  <2>1. \A a, b : a = TfPeriod * b /\ b \in Nat => a = TfPeriod * b + 0
    BY PeriodAssumption
  <2>2. Cardinality(On("TF")) + 1 \in Nat
    BY Counts
  <2>. QED
    BY <1>2, <1>3, <2>1, <2>2 DEF Counting
<1>5. BehindOdometry(L + 1)'
  <2>1. /\ Before(L, Odometry)' = On(Odometry) /\ Before(L, "TF")' = On("TF")
    BY <1>0, PastStays, Passed, Shape
  <2>2. /\ out'[L] = m /\ out'[L + 1] = n /\ DOMAIN out' = 1..(L + 1)
        /\ L \in 1..(L + 1) /\ L >= 1
    BY <1>0, Shape DEF AddsTwo
  <2>3. m.topic = Odometry /\ m.topic # "TF" /\ n.topic = "TF"
    BY DEF Odometry, Msg
  <2>4. /\ 1..(L + 1 - 1) = 1..(L - 1) \cup {L}
        /\ 1..(L + 1 + 1 - 1) = 1..(L - 1) \cup {L, L + 1}
    BY <2>2
  <2>5. Before(L + 1, Odometry)' = Before(L, Odometry)' \cup {L}
    BY <2>2, <2>3, <2>4 DEF Before
  <2>6. Before(L + 1 + 1, "TF")' = Before(L, "TF")' \cup {L + 1}
    <3>1. out'[L].topic # "TF" /\ out'[L + 1].topic = "TF"
      BY <2>2, <2>3
    <3>2. {j \in 1..(L - 1) \cup {L, L + 1} : out'[j].topic = "TF"} =
          {j \in 1..(L - 1) : out'[j].topic = "TF"} \cup {L + 1}
      BY <3>1
    <3>. QED
      BY <2>4, <3>2 DEF Before
  <2>7. /\ Cardinality(Before(L + 1, Odometry)') = Cardinality(On(Odometry)) + 1
        /\ Cardinality(Before(L + 1 + 1, "TF")') = Cardinality(On("TF")) + 1
    BY <1>1, <2>1, <2>5, <2>6, Counts
  <2>8. m = [n EXCEPT !.topic = Odometry] /\ L + 1 > 1 /\ L + 1 - 1 = L
    <3>1. /\ m = [topic |-> Odometry, stamp |-> m.stamp, pkt |-> m.pkt]
          /\ n = [topic |-> "TF", stamp |-> m.stamp, pkt |-> m.pkt]
      BY DEF Msg
    <3>2. [n EXCEPT !.topic = Odometry] =
          [topic |-> Odometry, stamp |-> m.stamp, pkt |-> m.pkt]
      BY <3>1
    <3>. QED
      BY <2>2, <3>1, <3>2
  <2>9. out'[L + 1 - 1] = [out'[L + 1] EXCEPT !.topic = Odometry]
    BY <2>2, <2>8
  <2>. QED
    BY <1>3, <2>7, <2>8, <2>9 DEF BehindOdometry
<1>6. \A i \in On("TF") : BehindOdometry(i)'
  <2>1. \A i \in On("TF") : BehindOdometry(i)
    BY DEF Cadence, BehindOdometry, Odometry
  <2>. QED
    BY <2>1, TransformStays
<1>7. \A i \in On("TF")' : BehindOdometry(i)'
  BY <1>1, <1>5, <1>6
<1>8. (Cardinality(On("TF")) =
         IF BroadcastTf THEN Cardinality(On(Odometry)) \div TfPeriod ELSE 0)'
  <2>1. TypeOK' /\ Counting'
    BY <1>4
  <2>. QED
    BY <2>1, CounterTells, PTL
<1>. QED
  BY <1>4, <1>7, <1>8 DEF Cadence, BehindOdometry, Odometry
-----------------------------------------------------------------------------
(* Connections, and the odometry that is kept *)

\* A frame that is taken in comes over the connection of the loop.
LEMMA TakenKeepsSuccession ==
    ASSUME TypeOK, Succession, NEW f \in Frame, Taken(f), f.conn = conn,
           rpc = "recv", conn' = conn, f.type = "ERROR" => rpc' # "recv"
    PROVE  Succession'
<1>0. PICK N \in Nat : N = Len(log) + 1
  BY Shape
<1>1. /\ conn \in Nat /\ DOMAIN log = 1..(N - 1) /\ DOMAIN log' = 1..N /\ log'[N] = f
      /\ \A n \in DOMAIN log : log'[n] = log[n] /\ log[n].conn \in Nat
  BY <1>0, Shape DEF Taken, TypeOK, Frame
<1>2. \A n \in DOMAIN log' : n \in DOMAIN log \/ n = N
  BY <1>1
<1>3. \A n \in DOMAIN log' : log'[n].conn <= conn
  BY <1>1, <1>2 DEF Succession
<1>4. rpc' = "recv" => \A n \in DOMAIN log' : log'[n].type = "ERROR" => log'[n].conn < conn
  BY <1>1, <1>2 DEF Succession
<1>5. ASSUME NEW i \in DOMAIN log', NEW j \in DOMAIN log', i < j, log'[i].type = "ERROR"
      PROVE  log'[i].conn < log'[j].conn
  <2>1. i \in DOMAIN log
    BY <1>1, <1>5
  <2>. QED
    BY <1>1, <1>2, <1>5, <2>1 DEF Succession, ErrorEndsConnection
<1>. QED
  BY <1>1, <1>3, <1>4, <1>5 DEF Succession, ErrorEndsConnection

\* Messages that are no odometry leave the one that is kept the last.
LEMMA OthersKeepOdometry ==
    ASSUME TypeOK, LastOdometry, UNCHANGED <<odom, isSet>>,
           \/ out' = out
           \/ \E m \in Msg : AddsOne(m) /\ m.topic # Odometry
           \/ \E m, n \in Msg : AddsTwo(m, n) /\ m.topic # Odometry /\ n.topic # Odometry
    PROVE  LastOdometry'
<1>1. On(Odometry)' = On(Odometry) /\ \A i \in On(Odometry) : out'[i] = out[i]
  <2>1. CASE out' = out
    BY <2>1 DEF On
  <2>2. ASSUME NEW m \in Msg, AddsOne(m), m.topic # Odometry
        PROVE  On(Odometry)' = On(Odometry) /\ \A i \in On(Odometry) : out'[i] = out[i]
    BY <2>2, OneMore
  <2>3. ASSUME NEW m \in Msg, NEW n \in Msg, AddsTwo(m, n),
               m.topic # Odometry, n.topic # Odometry
        PROVE  On(Odometry)' = On(Odometry) /\ \A i \in On(Odometry) : out'[i] = out[i]
    <3>1. /\ On(Odometry)' = On(Odometry)
                \cup (IF m.topic = Odometry THEN {Len(out) + 1} ELSE {})
                \cup (IF n.topic = Odometry THEN {Len(out) + 2} ELSE {})
          /\ \A i \in On(Odometry) : out'[i] = out[i]
      BY <2>3, TwoMore
    <3>. QED
      BY <2>3, <3>1
  <2>. QED
    BY <2>1, <2>2, <2>3
<1>. QED
  BY <1>1 DEF LastOdometry

\* An odometry becomes the one that is kept.
LEMMA OdometryIsKept ==
    ASSUME TypeOK, NEW m \in Msg, m.topic = Odometry, odom' = m.pkt, isSet' = TRUE,
           \/ AddsOne(m)
           \/ \E n \in Msg : AddsTwo(m, n) /\ n.topic # Odometry
    PROVE  LastOdometry'
<1>0. PICK L \in Nat : L = Len(out) + 1
  BY Shape
<1>1. On(Odometry)' = On(Odometry) \cup {L} /\ out'[L] = m
  <2>1. CASE AddsOne(m)
    BY <1>0, <2>1, OneMore DEF AddsOne
  <2>2. ASSUME NEW n \in Msg, AddsTwo(m, n), n.topic # Odometry
        PROVE  On(Odometry)' = On(Odometry) \cup {L} /\ out'[L] = m
    <3>1. On(Odometry)' = On(Odometry) \cup (IF m.topic = Odometry THEN {L} ELSE {})
                             \cup (IF n.topic = Odometry THEN {Len(out) + 2} ELSE {})
      BY <1>0, <2>2, TwoMore
    <3>. QED
      BY <1>0, <2>2, <3>1 DEF AddsTwo
  <2>. QED
    BY <2>1, <2>2
<1>2. \A j \in On(Odometry) \cup {L} : j <= L
  BY <1>0, Shape DEF On
<1>. QED
  BY <1>1, <1>2 DEF LastOdometry

-----------------------------------------------------------------------------
(* The steps *)

\* What a frame of the loop is, and the message a sound one becomes
LEMMA FrameOf ==
    ASSUME TypeOK, NEW t \in {"ACK", "WARN", "DATA", "ERROR", "unknown"},
           NEW d \in DataTypes \cup {"unknown"}, NEW p \in Payloads \cup {NoPayload},
           Receive(t, d, p)
    PROVE  /\ \E f \in Frame : /\ Taken(f)
                               /\ f.conn = conn /\ f.type = t /\ f.data = d /\ f.pl = p
           /\ This \in Nat /\ This = Len(log')
           /\ \A n \in Topics : \A k \in 0..This : Message(n, This, k) \in Msg
<1>1. /\ log' = Append(log, [conn |-> conn, type |-> t, data |-> d, pl |-> p])
      /\ [conn |-> conn, type |-> t, data |-> d, pl |-> p] \in Frame
  BY DEF Receive, TypeOK, Frame
<1>2. Taken([conn |-> conn, type |-> t, data |-> d, pl |-> p])
  BY <1>1, TakenIn
<1>3. This \in Nat /\ This = Len(log')
  BY <1>2, Shape DEF Taken, This
<1>4. \A n \in Topics : \A k \in 0..This : Message(n, This, k) \in Msg
  BY <1>3 DEF Message, Msg
<1>. QED
  BY <1>1, <1>2, <1>3, <1>4

\* The shape is kept when a frame is taken in and messages are added.
LEMMA ShapeKept ==
    ASSUME TypeOK, NEW f \in Frame, Taken(f), conn' = conn, rpc' \in {"recv", "exit"},
           out' \in Seq(Msg), odom' \in 0..Len(log'), isSet' \in BOOLEAN,
           tfcnt' \in (-IntMax - 1)..IntMax, BroadcastTf => tfcnt' \in 0..(TfPeriod - 1)
    PROVE  TypeOK'
<1>1. log' \in Seq(Frame) /\ conn' \in Nat
  BY DEF Taken, TypeOK
<1>. QED
  BY <1>1 DEF TypeOK, Frame, Msg

\* What was kept is not of a frame to come.
LEMMA OldOdometry ==
    ASSUME TypeOK, NEW f \in Frame, Taken(f)
    PROVE  odom \in 0..Len(log')
  BY Shape DEF TypeOK, Taken

\* A frame that publishes nothing keeps the invariant.
LEMMA QuietKeeps ==
    ASSUME RxInv, NEW f \in Frame, Taken(f), f.conn = conn, rpc = "recv",
           UNCHANGED <<conn, out, odom, isSet, tfcnt>>,
           rpc' \in {"recv", "exit"}, f.type = "ERROR" => rpc' # "recv",
           \A d \in DataTypes : ~(f.type = "DATA" /\ f.data = d /\ Parses(d, f.pl))
    PROVE  RxInv'
<1>1. /\ TypeOK /\ Succession /\ Forwarded /\ LastOdometry /\ LidarRatePaired
      /\ Counting /\ Cadence
  BY DEF RxInv
<1>2. TypeOK'
  <2>1. out' \in Seq(Msg) /\ odom' \in 0..Len(log')
    BY <1>1, Shape, OldOdometry
  <2>. QED
    BY <1>1, <2>1, ShapeKept DEF TypeOK
<1>3. Succession' /\ Forwarded'
  BY <1>1, TakenKeepsSuccession, QuietForward
<1>4. LastOdometry' /\ Counting' /\ Cadence'
  BY <1>1, <1>2, OthersKeepOdometry, OthersKeepCadence
<1>5. LidarRatePaired'
  BY <1>1 DEF LidarRatePaired, Before
<1>. QED
  BY <1>2, <1>3, <1>4, <1>5 DEF RxInv

\* So does a frame whose packet is published as it is.
LEMMA ForwardKeeps ==
    ASSUME RxInv, NEW d \in Subtypes, NEW p \in Payloads, Forward(d, p)
    PROVE  RxInv'
<1>1. /\ TypeOK /\ Succession /\ Forwarded /\ LastOdometry /\ LidarRatePaired
      /\ Counting /\ Cadence
      /\ rpc = "recv" /\ UNCHANGED <<conn, rpc, odom, isSet, tfcnt>>
      /\ d \in DataTypes /\ d \notin {CloudType, Odometry} /\ Parses(d, p)
      /\ Receive("DATA", d, p)
  BY InputAssumption DEF RxInv, Forward, Receive, CloudType, Odometry
<1>2. PICK f \in Frame : /\ Taken(f)
                         /\ f.conn = conn /\ f.type = "DATA" /\ f.data = d /\ f.pl = p
  BY <1>1, FrameOf
<1>3. PICK m \in Msg : m = Message(d, This, This)
  <2>1. This \in 0..This
    BY <1>1, FrameOf
  <2>. QED
    BY <1>1, <2>1, FrameOf, Names
<1>4. AddsOne(m) /\ m.topic = d
  <2>1. out' = Append(out, m)
    BY <1>3 DEF Forward
  <2>. QED
    BY <1>1, <1>3, <2>1, Appended DEF Message
<1>5. d \notin {Odometry, "TF", CloudType}
  BY <1>1, Names
<1>6. TypeOK'
  <2>1. out' \in Seq(Msg) /\ odom' \in 0..Len(log')
    BY <1>1, <1>2, <1>4, OldOdometry DEF AddsOne
  <2>. QED
    BY <1>1, <1>2, <2>1, ShapeKept DEF TypeOK
<1>7. Succession'
  BY <1>1, <1>2, TakenKeepsSuccession
<1>8. Forwarded'
  BY <1>1, <1>2, <1>3, <1>4, LoudForward
<1>9. LastOdometry' /\ Counting' /\ Cadence'
  BY <1>1, <1>4, <1>5, <1>6, OthersKeepOdometry, OthersKeepCadence
<1>10. LidarRatePaired'
  BY <1>1, <1>4, <1>5, SinglePaired
<1>. QED
  BY <1>6, <1>7, <1>8, <1>9, <1>10 DEF RxInv

\* So does a cloud, with the odometry that is kept or without.
LEMMA CloudKeeps ==
    ASSUME RxInv, NEW p \in Payloads, Cloud(p)
    PROVE  RxInv'
<1>1. /\ TypeOK /\ Succession /\ Forwarded /\ LastOdometry /\ LidarRatePaired
      /\ Counting /\ Cadence
      /\ rpc = "recv" /\ UNCHANGED <<conn, rpc, odom, isSet, tfcnt>>
      /\ Parses(CloudType, p) /\ Receive("DATA", CloudType, p)
      /\ out' = (out \o <<Message(CloudType, This, This)>>) \o LidarRate
  BY DEF RxInv, Cloud, Receive, CloudType
<1>2. PICK f \in Frame : /\ Taken(f) /\ f.conn = conn
                         /\ f.type = "DATA" /\ f.data = CloudType /\ f.pl = p
  BY <1>1, FrameOf, Names
<1>3. PICK m \in Msg : m = Message(CloudType, This, This)
  <2>1. This \in 0..This
    BY <1>1, FrameOf, Names
  <2>. QED
    BY <1>1, <2>1, FrameOf, Names
<1>4. PICK n \in Msg : n = Message("LIDAR_RATE_ODOM", This, odom)
  <2>1. odom \in 0..This
    BY <1>1, <1>2, FrameOf, OldOdometry, Names
  <2>. QED
    BY <1>1, <2>1, FrameOf, Names
<1>5. /\ m.topic = CloudType /\ n.topic = "LIDAR_RATE_ODOM"
      /\ n.stamp = m.stamp /\ n.pkt = odom
      /\ CloudType \notin {Odometry, "TF"} /\ n.topic \notin {Odometry, "TF"}
      /\ CloudType \in DataTypes /\ n.topic \notin DataTypes
  BY <1>3, <1>4, Names DEF Message
<1>6. \/ isSet /\ AddsTwo(m, n)
      \/ ~isSet /\ AddsOne(m)
  <2>1. CASE isSet
    <3>1. out' = (out \o <<m>>) \o <<n>>
      BY <1>1, <1>3, <1>4, <2>1 DEF LidarRate
    <3>. QED
      BY <1>1, <2>1, <3>1, AndAnother
  <2>2. CASE ~isSet
    <3>1. out' = (out \o <<m>>) \o <<>>
      BY <1>1, <1>3, <2>2 DEF LidarRate
    <3>. QED
      BY <1>1, <2>2, <3>1, AndNothing
  <2>. QED
    BY <2>1, <2>2
<1>7. TypeOK'
  <2>1. out' \in Seq(Msg) /\ odom' \in 0..Len(log')
    BY <1>1, <1>2, <1>6, OldOdometry DEF AddsOne, AddsTwo
  <2>. QED
    BY <1>1, <1>2, <2>1, ShapeKept DEF TypeOK
<1>8. Succession'
  BY <1>1, <1>2, TakenKeepsSuccession
<1>9. Forwarded'
  BY <1>1, <1>2, <1>3, <1>5, <1>6, LoudForward
<1>10. LastOdometry' /\ Counting' /\ Cadence'
  <2>1. \/ \E x \in Msg : AddsOne(x) /\ x.topic \notin {Odometry, "TF"}
        \/ \E x, y \in Msg : AddsTwo(x, y) /\ x.topic \notin {Odometry, "TF"}
                                           /\ y.topic \notin {Odometry, "TF"}
    BY <1>5, <1>6
  <2>2. LastOdometry'
    BY <1>1, <2>1, OthersKeepOdometry
  <2>. QED
    BY <1>1, <1>7, <2>1, <2>2, OthersKeepCadence
<1>11. LidarRatePaired'
  BY <1>1, <1>5, <1>6, SinglePaired, DoublePaired
<1>. QED
  BY <1>7, <1>8, <1>9, <1>10, <1>11 DEF RxInv

\* The counter does not go round before a transform is due.
LEMMA CounterKept ==
    ASSUME TypeOK, tfcnt' = IF TfDue THEN 0 ELSE Counted
    PROVE  /\ tfcnt' \in (-IntMax - 1)..IntMax
           /\ BroadcastTf => tfcnt' \in 0..(TfPeriod - 1)
           /\ BroadcastTf /\ ~TfDue => tfcnt' = tfcnt + 1
           /\ TfDue => BroadcastTf /\ tfcnt + 1 = TfPeriod /\ tfcnt' = 0
<1>1. TfPeriod \in Nat \ {0} /\ IntMax \in Nat /\ TfPeriod <= IntMax
  BY PeriodAssumption
<1>2. tfcnt \in (-IntMax - 1)..IntMax
  BY DEF TypeOK
<1>3. Counted \in (-IntMax - 1)..IntMax
  BY <1>1, <1>2 DEF Counted
<1>4. CASE BroadcastTf
  <2>1. tfcnt \in 0..(TfPeriod - 1)
    BY <1>4 DEF TypeOK
  <2>2. Counted = tfcnt + 1
    BY <1>1, <2>1 DEF Counted
  <2>. QED
    BY <1>1, <1>3, <1>4, <2>1, <2>2 DEF TfDue
<1>5. CASE ~BroadcastTf
  BY <1>1, <1>3, <1>5 DEF TfDue
<1>. QED
  BY <1>4, <1>5

\* So does an odometry, with its transform or without.
LEMMA OdometryKeeps ==
    ASSUME RxInv, NEW p \in Payloads, ImuRateOdometry(p)
    PROVE  RxInv'
<1>1. /\ TypeOK /\ Succession /\ Forwarded /\ LastOdometry /\ LidarRatePaired
      /\ Counting /\ Cadence
      /\ rpc = "recv" /\ UNCHANGED <<conn, rpc>> /\ odom' = This /\ isSet' = TRUE
      /\ Parses(Odometry, p) /\ Receive("DATA", Odometry, p)
      /\ out' = (out \o <<Message(Odometry, This, This)>>)
                     \o (IF TfDue THEN <<Message("TF", This, This)>> ELSE <<>>)
      /\ tfcnt' = IF TfDue THEN 0 ELSE Counted
  BY DEF RxInv, ImuRateOdometry, Receive, Odometry
<1>2. PICK f \in Frame : /\ Taken(f) /\ f.conn = conn
                         /\ f.type = "DATA" /\ f.data = Odometry /\ f.pl = p
  BY <1>1, FrameOf, Names
<1>3. This \in 0..This /\ This \in 0..Len(log')
  BY <1>1, FrameOf, Names
<1>4. PICK m \in Msg : m = Message(Odometry, This, This)
  BY <1>1, <1>3, FrameOf, Names
<1>5. PICK n \in Msg : n = Message("TF", This, This)
  BY <1>1, <1>3, FrameOf, Names
<1>6. /\ m.topic = Odometry /\ m.pkt = This /\ n.topic = "TF"
      /\ n.stamp = m.stamp /\ n.pkt = m.pkt
      /\ Odometry \in DataTypes /\ n.topic \notin DataTypes
      /\ n.topic # Odometry /\ m.topic # CloudType
  BY <1>4, <1>5, Names DEF Message
<1>7. /\ tfcnt' \in (-IntMax - 1)..IntMax
      /\ BroadcastTf => tfcnt' \in 0..(TfPeriod - 1)
      /\ BroadcastTf /\ ~TfDue => tfcnt' = tfcnt + 1
      /\ TfDue => BroadcastTf /\ tfcnt + 1 = TfPeriod /\ tfcnt' = 0
  BY <1>1, CounterKept
<1>8. \/ TfDue /\ AddsTwo(m, n)
      \/ ~TfDue /\ AddsOne(m)
  <2>1. CASE TfDue
    <3>1. out' = (out \o <<m>>) \o <<n>>
      BY <1>1, <1>4, <1>5, <2>1
    <3>. QED
      BY <1>1, <2>1, <3>1, AndAnother
  <2>2. CASE ~TfDue
    <3>1. out' = (out \o <<m>>) \o <<>>
      BY <1>1, <1>4, <2>2
    <3>. QED
      BY <1>1, <2>2, <3>1, AndNothing
  <2>. QED
    BY <2>1, <2>2
<1>9. TypeOK'
  <2>1. out' \in Seq(Msg) /\ odom' \in 0..Len(log')
    BY <1>1, <1>3, <1>8 DEF AddsOne, AddsTwo
  <2>. QED
    BY <1>1, <1>2, <1>7, <2>1, ShapeKept
<1>10. Succession'
  BY <1>1, <1>2, TakenKeepsSuccession
<1>11. Forwarded'
  BY <1>1, <1>2, <1>4, <1>6, <1>8, LoudForward
<1>12. LastOdometry'
  BY <1>1, <1>6, <1>8, OdometryIsKept
<1>13. LidarRatePaired'
  BY <1>1, <1>6, <1>8, SinglePaired, DoublePaired
<1>14. Counting' /\ Cadence'
  <2>1. CASE TfDue /\ AddsTwo(m, n)
    BY <1>1, <1>6, <1>7, <1>9, <2>1, TransformKeepsCadence
  <2>2. CASE ~TfDue /\ AddsOne(m)
    BY <1>1, <1>6, <1>7, <1>9, <2>2, OdometryKeepsCadence
  <2>. QED
    BY <1>8, <2>1, <2>2
<1>. QED
  BY <1>9, <1>10, <1>11, <1>12, <1>13, <1>14 DEF RxInv

\* So does a frame that is skipped, ignored or ends the loop.
LEMMA SilentKeeps ==
    ASSUME RxInv,
           \/ \E d \in Subtypes, p \in Payloads : Skip(d, p)
           \/ \E type \in {"ACK", "WARN", "DATA", "unknown"} : Ignore(type)
           \/ Error
    PROVE  RxInv'
<1>1. TypeOK
  BY DEF RxInv
<1>2. ASSUME NEW d \in Subtypes, NEW p \in Payloads, Skip(d, p)
      PROVE  RxInv'
  <2>1. /\ d \in DataTypes /\ Receive("DATA", d, p) /\ ~Parses(d, p) /\ rpc = "recv"
        /\ UNCHANGED <<conn, rpc, out, odom, isSet, tfcnt>>
    BY <1>2, InputAssumption DEF Skip, Receive
  <2>2. PICK f \in Frame : /\ Taken(f) /\ f.conn = conn
                           /\ f.type = "DATA" /\ f.data = d /\ f.pl = p
    BY <1>1, <2>1, FrameOf
  <2>. QED
    BY <2>1, <2>2, QuietKeeps
<1>3. ASSUME NEW type \in {"ACK", "WARN", "DATA", "ERROR", "unknown"},
             Receive(type, "unknown", NoPayload), rpc' \in {"recv", "exit"},
             type = "ERROR" => rpc' # "recv",
             UNCHANGED <<conn, out, odom, isSet, tfcnt>>
      PROVE  RxInv'
  <2>1. PICK f \in Frame : Taken(f) /\ f.conn = conn /\ f.type = type /\ f.data = "unknown"
    BY <1>1, <1>3, FrameOf
  <2>2. rpc = "recv"
    BY <1>3 DEF Receive
  <2>. QED
    BY <1>3, <2>1, <2>2, QuietKeeps, Names
<1>4. ASSUME NEW type \in {"ACK", "WARN", "DATA", "unknown"}, Ignore(type)
      PROVE  RxInv'
  <2>1. /\ Receive(type, "unknown", NoPayload) /\ rpc' \in {"recv", "exit"}
        /\ UNCHANGED <<conn, out, odom, isSet, tfcnt>>
    BY <1>4 DEF Ignore, Receive
  <2>. QED
    BY <1>3, <2>1
<1>5. CASE Error
  BY <1>3, <1>5 DEF Error
<1>. QED
  BY <1>2, <1>4, <1>5

\* So does the end of a connection and the beginning of the next.
LEMMA ConnectionKeeps ==
    ASSUME RxInv, Leave \/ Restart \/ UNCHANGED vars
    PROVE  RxInv'
<1>1. /\ TypeOK /\ Succession /\ Forwarded /\ LastOdometry /\ LidarRatePaired
      /\ Counting /\ Cadence
      /\ UNCHANGED <<log, out, odom, isSet, tfcnt>> /\ rpc' \in {"recv", "exit"}
      /\ \/ conn' = conn /\ (rpc' = "recv" => rpc = "recv")
         \/ conn' = conn + 1
  BY DEF RxInv, Leave, Restart, vars, TypeOK
<1>2. TypeOK'
  BY <1>1 DEF TypeOK
<1>3. Succession'
  <2>1. conn \in Nat /\ \A n \in DOMAIN log : log[n].conn \in Nat /\ log[n].conn <= conn
    BY <1>1, Shape DEF TypeOK, Frame, Succession
  <2>2. CASE conn' = conn /\ (rpc' = "recv" => rpc = "recv")
    <3>1. log' = log /\ \A n \in DOMAIN log : log[n].conn <= conn'
      BY <1>1, <2>1, <2>2
    <3>2. rpc' = "recv" =>
              \A n \in DOMAIN log : log[n].type = "ERROR" => log[n].conn < conn'
      BY <1>1, <2>2 DEF Succession
    <3>. QED
      BY <1>1, <3>1, <3>2 DEF Succession, ErrorEndsConnection
  <2>3. CASE conn' = conn + 1
    <3>1. \A n \in DOMAIN log : log[n].conn <= conn + 1 /\ log[n].conn < conn + 1
      BY <2>1
    <3>. QED
      BY <1>1, <2>3, <3>1 DEF Succession, ErrorEndsConnection
  <2>. QED
    BY <1>1, <2>2, <2>3
<1>4. Forwarded' /\ LastOdometry' /\ LidarRatePaired'
  BY <1>1 DEF Forwarded, On, Sound, LastOdometry, LidarRatePaired, Before
<1>5. Counting' /\ Cadence'
  BY <1>1, <1>2, OthersKeepCadence
<1>. QED
  BY <1>2, <1>3, <1>4, <1>5 DEF RxInv

\* A node that starts has published nothing and kept nothing.
LEMMA InitRx == Init => RxInv
<1>. SUFFICES ASSUME Init PROVE RxInv
  OBVIOUS
<1>1. log = <<>> /\ out = <<>> /\ DOMAIN out = {} /\ DOMAIN log = {} /\ Len(log) = 0
  BY EmptySeq DEF Init
<1>2. TypeOK
  <2>1. log \in Seq(Frame) /\ out \in Seq(Msg)
    BY <1>1, EmptySeq
  <2>2. /\ odom = 0 /\ isSet = FALSE /\ tfcnt = 0 /\ conn = 1 /\ rpc = "recv"
        /\ TfPeriod \in Nat \ {0} /\ IntMax \in Nat
    BY PeriodAssumption DEF Init
  <2>3. /\ tfcnt \in (-IntMax - 1)..IntMax /\ tfcnt \in 0..(TfPeriod - 1)
        /\ odom \in 0..Len(log) /\ conn \in Nat
    <3>1. Len(log) = 0
      BY <1>1
    <3>. QED
      BY <2>2, <3>1
  <2>. QED
    BY <2>1, <2>2, <2>3 DEF TypeOK, Frame, Msg
<1>3. \A t : On(t) = {}
  BY <1>1 DEF On
<1>4. Succession /\ LidarRatePaired
  BY <1>1 DEF Succession, ErrorEndsConnection, LidarRatePaired
<1>5. Forwarded /\ LastOdometry
  <2>1. \A d : Sound(d) = {}
    BY <1>1 DEF Sound
  <2>. QED
    BY <1>3, <2>1 DEF Forwarded, LastOdometry, Init
<1>6. Counting
  <2>1. Cardinality(On(Odometry)) = 0 /\ Cardinality(On("TF")) = 0
    BY <1>3, FS_EmptySet
  <2>2. 0 = TfPeriod * 0 + 0
    BY PeriodAssumption
  <2>. QED
    BY <1>3, <2>1, <2>2 DEF Counting, Init
<1>7. Cadence
  BY <1>2, <1>3, <1>6, CounterTells DEF Cadence, Odometry
<1>. QED
  BY <1>2, <1>4, <1>5, <1>6, <1>7 DEF RxInv

\* What the loop keeps is enough to say what it publishes.
THEOREM DispatchCorrect == Spec => []RxInv
<1>1. ASSUME RxInv, [Next]_vars
      PROVE  RxInv'
  <2>1. CASE \E d \in Subtypes, p \in Payloads : Forward(d, p)
    BY <1>1, <2>1, ForwardKeeps
  <2>2. CASE \E p \in Payloads : Cloud(p)
    BY <1>1, <2>2, CloudKeeps
  <2>3. CASE \E p \in Payloads : ImuRateOdometry(p)
    BY <1>1, <2>3, OdometryKeeps
  <2>4. CASE \/ \E d \in Subtypes, p \in Payloads : Skip(d, p)
             \/ \E type \in {"ACK", "WARN", "DATA", "unknown"} : Ignore(type)
             \/ Error
    BY <1>1, <2>4, SilentKeeps
  <2>5. CASE Leave \/ Restart \/ UNCHANGED vars
    BY <1>1, <2>5, ConnectionKeeps
  <2>. QED
    BY <1>1, <2>1, <2>2, <2>3, <2>4, <2>5 DEF Next
<1>. QED
  BY <1>1, InitRx, PTL DEF Spec

-----------------------------------------------------------------------------
(* What subscribers are promised *)

\* The types of the loop's state; with broadcast_tf on its counter stays below the
\* period, however many odometries come.
THEOREM RxTypes == Spec => []TypeOK
<1>1. RxInv => TypeOK
  BY DEF RxInv
<1>. QED
  BY <1>1, DispatchCorrect, PTL

\* Every topic of a data type shows the frames that parse, all of them, once each
\* and in order.
THEOREM EveryFrameForwarded == Spec => []Forwarded
<1>1. RxInv => Forwarded
  BY DEF RxInv
<1>. QED
  BY <1>1, DispatchCorrect, PTL

\* Every cloud after the first odometry has the last odometry behind it, across
\* connections.
THEOREM CloudsArePaired == Spec => []LidarRatePaired
<1>1. RxInv => LidarRatePaired
  BY DEF RxInv
<1>. QED
  BY <1>1, DispatchCorrect, PTL

\* With broadcast_tf on, every TfPeriod-th odometry since the node started has a
\* transform, and no other has.
THEOREM TransformsKeepTime == Spec => []TfCadence
<1>1. RxInv => TfCadence
  BY DEF RxInv, Cadence, TfCadence, Odometry
<1>. QED
  BY <1>1, DispatchCorrect, PTL

\* The loop reads nothing more from a connection that brought an ERROR.
THEOREM ErrorsEndConnections == Spec => []ErrorEndsConnection
<1>1. RxInv => ErrorEndsConnection
  BY DEF RxInv, Succession
<1>. QED
  BY <1>1, DispatchCorrect, PTL
=============================================================================
