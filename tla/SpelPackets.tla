----------------------------- MODULE SpelPackets -----------------------------
(***************************************************************************)
(* A ROS message on its way through a packet: PayloadConverter, which the  *)
(* device's side is built with, copies the message into a packed struct;   *)
(* the struct travels as the payload of a frame; the parser copies it back *)
(* and HokuyoSpelPublisher makes a message of it.  What is published may   *)
(* be converted again, as when a recording is played back.                 *)
(*                                                                         *)
(* The content of a field is abstracted to where it came from and how much *)
(* of it is left: of a text the number of characters, of a number whether  *)
(* it has the digits of a double or of a float.  Whole numbers are as      *)
(* doubles: the casts of gpzdaToPayload to uint32_t .. int8_t keep them if *)
(* the messages, whose types are not in the repository, have the same ones.*)
(* A vector or array copied component by component is one field.           *)
(***************************************************************************)
EXTENDS Naturals

CONSTANTS
    Lengths,   \* the lengths of texts in messages
    MaxPasses  \* bound: how often a message is converted and published

VARIABLES
    type,    \* which message it is
    source,  \* history: the message as it was at first
    msg,     \* the message at hand, or the one last published
    pkt,     \* the packet in the payload
    phase,   \* "message": to be converted; "packet": on its way to the node
    passes   \* how often it was published

vars == <<type, source, msg, pkt, phase, passes>>

Types == {"ODOM", "IMU", "NAV_SAT_FIX", "GPGGA", "GPRMC", "GPZDA"}

Float  == 1
Double == 2
Char   == 1

\* The packed structs: their members
Members(t) ==
    CASE t = "ODOM" ->
            {"position", "orientation", "pos_cov", "linear", "angular", "vel_cov"}
      [] t = "IMU" ->
            {"orientation", "angular_velocity", "linear_acceleration",
             "ori_cov", "ang_vel_cov", "lin_acc_cov"}
      [] t = "NAV_SAT_FIX" ->
            {"latitude", "longitude", "altitude", "pos_cov", "status_status",
             "status_service", "position_covariance_type"}
      [] t = "GPGGA" ->
            {"message_id", "utc_seconds", "lat", "lon", "lat_dir", "lon_dir",
             "altitude_units", "undulation_units", "gps_qual", "num_sats", "hdop",
             "alt", "undulation", "diff_age", "station_id"}
      [] t = "GPRMC" ->
            {"message_id", "utc_seconds", "lat", "lon", "lat_dir", "lon_dir", "speed",
             "track", "date", "mag_var", "mag_var_dir", "status", "mode"}
      [] t = "GPZDA" ->
            {"message_id", "utc_seconds", "day", "month", "year", "hour_offset_gmt",
             "minute_offset_gmt"}

CharMembers == {"lat_dir", "lon_dir", "altitude_units", "undulation_units",
                "mag_var_dir", "status", "mode"}

\* ... and the size of each
Size(t, f) ==
    CASE f = "message_id"    -> 6
      [] f = "station_id"    -> 8
      [] f = "date"          -> 16
      [] f \in CharMembers   -> Char
      [] OTHER               -> IF t \in {"ODOM", "IMU"} THEN Float ELSE Double

TextMembers == {"message_id", "station_id", "date"}

-----------------------------------------------------------------------------
(* PayloadConverter *)

\* The messages have other names for some members.
Renamed == [pos_cov     |-> "pose_covariance",  vel_cov        |-> "twist_covariance",
            ori_cov     |-> "orientation_covariance",
            ang_vel_cov |-> "angular_velocity_covariance",
            lin_acc_cov |-> "linear_acceleration_covariance",
            mag_var_dir |-> "mag_var_direction", status         |-> "position_status",
            mode        |-> "mode_indicator"]

\* The field of the message that a member of the packet is filled from
FilledFrom(f) == IF f \in DOMAIN Renamed THEN Renamed[f] ELSE f

\* Faulty variant of Room: strncpy may fill an array to its last byte.
RoomWithoutEnd(t, f) == Size(t, f)

\* How much a member takes.  strncpy is given one byte less than the array has,
\* which stays zero: a text ends within its array.
Room(t, f) == IF f \in TextMembers THEN Size(t, f) - 1 ELSE Size(t, f)

Cut(value, room) ==
    [value EXCEPT !.left = IF value.left <= room THEN value.left ELSE room]

\* gpzdaToPayload puts "GPZDA" for an empty message_id.
Given(t, f, value) ==
    IF t = "GPZDA" /\ f = "message_id" /\ value.left = 0
    THEN [of |-> "GPZDA", left |-> 5] ELSE value

Packed(t, m) ==
    [f \in Members(t) |-> Cut(Given(t, f, m[FilledFrom(f)]), Room(t, f))]

Convert ==
    /\ phase = "message" /\ passes < MaxPasses
    /\ pkt' = Packed(type, msg)
    /\ phase' = "packet"
    /\ UNCHANGED <<type, source, msg, passes>>

-----------------------------------------------------------------------------
(* HokuyoSpelParser and HokuyoSpelPublisher *)

\* The member of the packet that a field of the message is taken from
TakenFrom(g) ==
    CASE g = "pose_covariance"                -> "pos_cov"
      [] g = "twist_covariance"               -> "vel_cov"
      [] g = "orientation_covariance"         -> "ori_cov"
      [] g = "angular_velocity_covariance"    -> "ang_vel_cov"
      [] g = "linear_acceleration_covariance" -> "lin_acc_cov"
      [] g = "mag_var_direction"              -> "mag_var_dir"
      [] g = "position_status"                -> "status"
      [] g = "mode_indicator"                 -> "mode"
      [] OTHER                                -> g

MessageFields(t) == {FilledFrom(f) : f \in Members(t)}

\* What is read beyond the end of an array
Overrun == [of |-> "the bytes behind it", left |-> 0]

\* publishGpgga reads its texts up to a zero, wherever that is; publishGprmc and
\* publishGpzda stop at the end of the array.
Read(t, f, value) ==
    IF t = "GPGGA" /\ f \in TextMembers /\ value.left >= Size(t, f)
    THEN Overrun ELSE value

Unpacked(t, p) ==
    [g \in MessageFields(t) |-> Read(t, TakenFrom(g), p[TakenFrom(g)])]

Publish ==
    /\ phase = "packet"
    /\ msg' = Unpacked(type, pkt)
    /\ phase' = "message" /\ passes' = passes + 1
    /\ UNCHANGED <<type, source, pkt>>

-----------------------------------------------------------------------------
(* The messages at first *)

\* How much there may be in a field whose member is f: a text of any length,
\* for a single character too; digits only where the member may lack them.
Amounts(t, f) == IF f \in TextMembers THEN Lengths
                 ELSE IF Size(t, f) = Double THEN {Double}
                 ELSE IF t \in {"ODOM", "IMU"} THEN {Float, Double} ELSE {0, 1, 2}

\* All choices of an amount for the members in fs, which have the same choices
Choices(t, fs) == [fs -> UNION {Amounts(t, f) : f \in fs}]

Messages(t) ==
    LET wide  == {f \in Members(t) : Size(t, f) = Double}
        texts == Members(t) \cap TextMembers
        Field(g, left) == [of |-> g, left |-> left]
    IN  {[g \in MessageFields(t) |->
             LET f == TakenFrom(g)
             IN  Field(g, IF f \in wide THEN a[f] ELSE IF f \in texts THEN b[f] ELSE c[f])] :
            a \in Choices(t, wide), b \in Choices(t, texts),
            c \in Choices(t, Members(t) \ (wide \cup texts))}

Init == /\ type \in Types
        /\ source \in Messages(type) /\ msg = source
        /\ pkt = <<>> /\ phase = "message" /\ passes = 0

Next == Convert \/ Publish

Spec == Init /\ [][Next]_vars

-----------------------------------------------------------------------------
(* Properties *)

\* What is published has, in every field, what the source had in the same field,
\* and no more of it is lost than the packet has no room for: of a text, what does
\* not leave a byte for its end.  Nothing is read past the end of an array, whatever
\* the lengths of the texts.
FieldsSurvive ==
    passes > 0 =>
        \A g \in MessageFields(type) :
            LET f    == TakenFrom(g)
                room == Size(type, f) - (IF f \in TextMembers THEN 1 ELSE 0)
            IN  IF type = "GPZDA" /\ g = "message_id" /\ source[g].left = 0
                THEN msg[g] = [of |-> "GPZDA", left |-> 5]
                ELSE msg[g] = Cut(source[g], room)

=============================================================================
