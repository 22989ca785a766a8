------------------------------- MODULE SpelRx -------------------------------
(***************************************************************************)
(* What spelClientRxLoop does with the frames recvFrame gives it: which    *)
(* parser looks at the payload, what is published where, and what is kept  *)
(* for later frames.  A thread runs the loop for every connection, one     *)
(* after the other; last_imu_rate_odom_pkt_, its flag and the static tfcnt *)
(* outlive them.  Publishing is a call of this thread: the messages of a   *)
(* frame appear in the order of the calls.                                 *)
(*                                                                         *)
(* The content of a packet is stood for by the number of the frame that    *)
(* brought it, its measurement time too.  A payload is what the parsers    *)
(* look at: its size in bytes and the num_points its first four hold.      *)
(***************************************************************************)
EXTENDS Integers, Sequences, FiniteSets

CONSTANTS
    Payloads,     \* the payloads frames arrive with: records [size, points]
    Subtypes,     \* the data types they arrive with, among those below
    TfPeriod,     \* 50: IMU-rate odometries per transform
    BroadcastTf,  \* the parameter broadcast_tf
    IntMax,       \* 2^31 - 1: the greatest int
    MaxFrames,    \* bound: frames received
    MaxConns      \* bound: connections

\* spnet::DataType, and the packet or text each of them carries
FixTypes    == {"NAV_SAT_FIX", "NAV_SAT_FIX_SWITCH"}
OdomTypes   == {"IMU_RATE_ODOMETRY", "UTM_ODOM", "SWITCH_ODOM"}
StringTypes == {"SWITCH_ODOM_STATE", "SWITCH_ODOM_TYPE", "SWITCH_FIX_STATE",
                "SWITCH_FIX_TYPE"}
DataTypes   == FixTypes \cup OdomTypes \cup StringTypes \cup
               {"GPGGA", "GPRMC", "GPZDA", "HOKUYO_CLOUD2", "IMU",
                "DIAGNOSTIC_ARRAY"}

\* sizeof the packed structs
PacketSize(d) == CASE d \in FixTypes           -> 100
                   [] d \in OdomTypes          -> 340
                   [] d = "GPGGA"              -> 66
                   [] d = "GPRMC"              -> 75
                   [] d = "GPZDA"              -> 16
                   [] d = "IMU"                -> 148
                   [] d = "DIAGNOSTIC_ARRAY"   -> 43

CloudHeaderSize == 4
PointSize       == 24
MaxStringBytes  == 1024 * 1024

ASSUME InputAssumption ==
    /\ \A pl \in Payloads : pl.size \in Nat /\ pl.points \in Nat
    /\ Subtypes \subseteq DataTypes
ASSUME PeriodAssumption ==
    /\ TfPeriod \in Nat \ {0} /\ BroadcastTf \in BOOLEAN
    /\ IntMax \in Nat /\ TfPeriod <= IntMax
ASSUME RxBoundAssumption == MaxFrames \in Nat /\ MaxConns \in Nat

VARIABLES
    conn,    \* the connection the loop runs for
    rpc,     \* "recv": in the loop; "exit": it has ended
    log,     \* history: the frames recvFrame returned
    out,     \* history: the messages published, and the transforms
    odom,    \* last_imu_rate_odom_pkt_, 0: nothing was ever assigned
    isSet,   \* is_set_last_imu_rate_odom_
    tfcnt    \* the static local

vars == <<conn, rpc, log, out, odom, isSet, tfcnt>>

\* What publisher calls appended to out: the topic, the stamp, the packet
Message(topic, stamp, pkt) == [topic |-> topic, stamp |-> stamp, pkt |-> pkt]

NoPayload == [size |-> 0, points |-> 0]

\* The frame being handled
This == Len(log) + 1

Init == /\ conn = 1 /\ rpc = "recv"
        /\ log = <<>> /\ out = <<>>
        /\ odom = 0 /\ isSet = FALSE
        /\ tfcnt = 0

-----------------------------------------------------------------------------
\* HokuyoSpelParser: a size that must be met, or may not be exceeded
Parses(d, pl) ==
    CASE d = "HOKUYO_CLOUD2" ->
            /\ pl.size >= CloudHeaderSize
            /\ pl.size = CloudHeaderSize + pl.points * PointSize
      [] d \in StringTypes -> pl.size <= MaxStringBytes
      [] OTHER -> pl.size = PacketSize(d)

\* recvFrame returned a frame.
Receive(type, d, pl) ==
    /\ rpc = "recv" /\ Len(log) < MaxFrames
    /\ log' = Append(log, [conn |-> conn, type |-> type, data |-> d, pl |-> pl])

\* DATA of a type that is published as it is.  The topic bears its name.
Forward(d, pl) ==
    /\ d \notin {"HOKUYO_CLOUD2", "IMU_RATE_ODOMETRY"}
    /\ Parses(d, pl)
    /\ Receive("DATA", d, pl)
    /\ out' = Append(out, Message(d, This, This))
    /\ UNCHANGED <<conn, rpc, odom, isSet, tfcnt>>

\* Faulty variant of LidarRate: the flag is not looked at.
LidarRateAlways == <<Message("LIDAR_RATE_ODOM", This, odom)>>

\* The odometry that accompanies a cloud, with the time of the cloud
LidarRate == IF isSet THEN <<Message("LIDAR_RATE_ODOM", This, odom)>> ELSE <<>>

Cloud(pl) ==
    /\ Parses("HOKUYO_CLOUD2", pl)
    /\ Receive("DATA", "HOKUYO_CLOUD2", pl)
    /\ out' = out \o <<Message("HOKUYO_CLOUD2", This, This)>> \o LidarRate
    /\ UNCHANGED <<conn, rpc, odom, isSet, tfcnt>>

\* tfcnt++.  A signed overflow is undefined; in the builds it goes round.
Counted == IF tfcnt < IntMax THEN tfcnt + 1 ELSE -IntMax - 1

\* Faulty variant of TfDue: one odometry late.
TfDueLate == BroadcastTf /\ tfcnt = TfPeriod

TfDue == BroadcastTf /\ Counted = TfPeriod

ImuRateOdometry(pl) ==
    /\ Parses("IMU_RATE_ODOMETRY", pl)
    /\ Receive("DATA", "IMU_RATE_ODOMETRY", pl)
    /\ odom' = This /\ isSet' = TRUE
    /\ out' = out \o <<Message("IMU_RATE_ODOMETRY", This, This)>>
                  \o (IF TfDue THEN <<Message("TF", This, This)>> ELSE <<>>)
    /\ tfcnt' = IF TfDue THEN 0 ELSE Counted
    /\ UNCHANGED <<conn, rpc>>

\* Faulty variant of Skip: the packet on the stack is published all the same.
SkipAndPublish(d, pl) ==
    /\ ~Parses(d, pl)
    /\ Receive("DATA", d, pl)
    /\ out' = Append(out, Message(d, This, 0))
    /\ UNCHANGED <<conn, rpc, odom, isSet, tfcnt>>

\* DATA that does not parse: logged, and the loop continues.
Skip(d, pl) ==
    /\ ~Parses(d, pl)
    /\ Receive("DATA", d, pl)
    /\ UNCHANGED <<conn, rpc, out, odom, isSet, tfcnt>>

\* ACK, WARN, a type or a data type that is none: at most a log line.  Neither
\* subtype nor payload matters.
Ignore(type) ==
    /\ Receive(type, "unknown", NoPayload)
    /\ UNCHANGED <<conn, rpc, out, odom, isSet, tfcnt>>

\* Faulty variant of Error: as a WARN.
ErrorLogged ==
    /\ Receive("ERROR", "unknown", NoPayload)
    /\ UNCHANGED <<conn, rpc, out, odom, isSet, tfcnt>>

Error ==
    /\ Receive("ERROR", "unknown", NoPayload)
    /\ rpc' = "exit"
    /\ UNCHANGED <<conn, out, odom, isSet, tfcnt>>

\* recvFrame fails, or run or rclcpp::ok() is false.
Leave ==
    /\ rpc = "recv"
    /\ rpc' = "exit"
    /\ UNCHANGED <<conn, log, out, odom, isSet, tfcnt>>

\* Faulty variant of Restart: tfcnt is a local of the loop.
RestartAnew ==
    /\ rpc = "exit" /\ conn < MaxConns
    /\ rpc' = "recv" /\ conn' = conn + 1
    /\ tfcnt' = 0
    /\ UNCHANGED <<log, out, odom, isSet>>

\* spelClientLoop starts the loop again on a new connection.
Restart ==
    /\ rpc = "exit" /\ conn < MaxConns
    /\ rpc' = "recv" /\ conn' = conn + 1
    /\ UNCHANGED <<log, out, odom, isSet, tfcnt>>

Next ==
    \/ \E d \in Subtypes, pl \in Payloads :
          \/ Forward(d, pl)
          \/ d = "HOKUYO_CLOUD2" /\ Cloud(pl)
          \/ d = "IMU_RATE_ODOMETRY" /\ ImuRateOdometry(pl)
          \/ Skip(d, pl)
    \/ \E type \in {"ACK", "WARN", "DATA", "unknown"} : Ignore(type)
    \/ Error
    \/ Leave
    \/ Restart

Spec == Init /\ [][Next]_vars

-----------------------------------------------------------------------------
(* Properties *)

Topics == DataTypes \cup {"LIDAR_RATE_ODOM", "TF"}

\* The shape of the state; the counter of transforms never passes the period.
TypeOK ==
    /\ conn \in Nat /\ rpc \in {"recv", "exit"}
    /\ log \in Seq([conn : Nat, type : {"ACK", "WARN", "DATA", "ERROR", "unknown"},
                    data : DataTypes \cup {"unknown"}, pl : Payloads \cup {NoPayload}])
    /\ out \in Seq([topic : Topics, stamp : Nat, pkt : Nat])
    /\ odom \in 0..Len(log) /\ isSet \in BOOLEAN
    /\ tfcnt \in (-IntMax - 1)..IntMax
    /\ BroadcastTf => tfcnt \in 0..(TfPeriod - 1)

\* The places in out of the messages on a topic, and those before place i
On(topic) == {i \in DOMAIN out : out[i].topic = topic}
Before(i, topic) == {j \in 1..(i - 1) : out[j].topic = topic}

\* The frames of data type d that parse
Sound(d) == {n \in DOMAIN log : /\ log[n].type = "DATA" /\ log[n].data = d
                                /\ Parses(d, log[n].pl)}

\* On the topic of every data type appear exactly the frames of that type that
\* parse, once each, in the order of receipt: a bad frame, a warning or a lost
\* connection in between costs no other frame, and nothing appears without one.
Forwarded ==
    \A d \in DataTypes :
        /\ {out[i].stamp : i \in On(d)} = Sound(d)
        /\ \A i \in On(d) : out[i].pkt = out[i].stamp
        /\ \A i, j \in On(d) : i < j => out[i].stamp < out[j].stamp

\* The lidar-rate odometry comes right behind a cloud, with its stamp and with
\* the packet of the last IMU-rate odometry published, on this connection or an
\* earlier one; every cloud has one as soon as there is any odometry.
LidarRatePaired ==
    \A i \in DOMAIN out :
        LET odoms == Before(i, "IMU_RATE_ODOMETRY")
            paired == i < Len(out) /\ out[i + 1].topic = "LIDAR_RATE_ODOM"
        IN  /\ out[i].topic = "HOKUYO_CLOUD2" =>
                 IF odoms = {} THEN ~paired
                 ELSE /\ paired
                      /\ out[i + 1].stamp = out[i].stamp
                      /\ \E j \in odoms : /\ out[i + 1].pkt = out[j].pkt
                                        /\ \A k \in odoms : k <= j
            /\ out[i].topic = "LIDAR_RATE_ODOM" =>
                 i > 1 /\ out[i - 1].topic = "HOKUYO_CLOUD2"

\* The k-th transform is that of the (k * TfPeriod)-th IMU-rate odometry since
\* the node started, whatever connections they came over; it is sent right
\* behind it, and none is missing.
TfCadence ==
    BroadcastTf =>
        /\ Cardinality(On("TF")) = Cardinality(On("IMU_RATE_ODOMETRY")) \div TfPeriod
        /\ \A i \in On("TF") :
              /\ Cardinality(Before(i, "IMU_RATE_ODOMETRY")) =
                    TfPeriod * Cardinality(Before(i + 1, "TF"))
              /\ i > 1 /\ out[i - 1] = [out[i] EXCEPT !.topic = "IMU_RATE_ODOMETRY"]

\* Nothing that follows an ERROR frame on its connection is taken in: what is
\* received after it came over a later connection.
ErrorEndsConnection ==
    \A m, n \in DOMAIN log :
        m < n /\ log[m].type = "ERROR" => log[m].conn < log[n].conn

=============================================================================
