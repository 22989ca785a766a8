--------------------------- MODULE SpelDiagnostics ---------------------------
(***************************************************************************)
(* A diagnostic message on its way through a packet.  The entries of a     *)
(* DiagnosticStatus are texts; diagnosticsToPayload reads numbers from     *)
(* them into the members of a struct, some in network byte order, and      *)
(* publishDiagnostics makes texts of the members again.  The device and    *)
(* the node may be machines of either byte order.                          *)
(*                                                                         *)
(* A text is a record: the numbers between its dots, or a word without any,*)
(* and whether there are blanks around it.  A byte has Base values.        *)
(***************************************************************************)
EXTENDS Integers, Sequences, FiniteSetsExt

CONSTANTS
    Base,      \* the values of a byte: 256
    Target,    \* target_status_name: the status the device is described by
    Reports,   \* messages to start with: sequences of status records
    MaxPasses  \* bound: how often a message is converted and published

VARIABLES
    device, node,  \* the byte orders of the two machines
    source,        \* history: the message at first
    msg,           \* the message at hand, or the one last published
    pkt,           \* the DiagnosticPacket in the payload
    phase,         \* "message": to be converted; "packet": on its way
    passes         \* how often it was published

vars == <<device, node, source, msg, pkt, phase, passes>>

Orders == {"little", "big"}

Word(w)     == [parts |-> <<>>, word |-> w, blanks |-> FALSE]
Dotted(s)   == [parts |-> s, word |-> "", blanks |-> FALSE]
Decimal(n)  == Dotted(<<n>>)
Empty       == Word("")
IsNumber(t) == Len(t.parts) = 1

IsText(t) ==
    /\ t = [parts |-> t.parts, word |-> t.word, blanks |-> t.blanks]
    /\ t.parts \in Seq(Int) /\ t.blanks \in BOOLEAN

IsStatus(s) ==
    /\ IsText(s.hardware_id)
    /\ DOMAIN s.values = 1 .. Len(s.values) /\ Len(s.values) \in Nat
    /\ \A i \in DOMAIN s.values : IsText(s.values[i].value)

IsMessage(m) ==
    /\ DOMAIN m = 1 .. Len(m) /\ Len(m) \in Nat
    /\ \A i \in DOMAIN m : IsStatus(m[i])

\* The bytes of the numbers in the packet
Width == [ip_port |-> 2, device_status |-> 1, device_temperature |-> 4,
          cpu_usage |-> 1, elapsed_time |-> 8, odometry_state |-> 1,
          odometry_type |-> 1, gnss_state |-> 1, gnss_type |-> 1]

Numbers == DOMAIN Width

-----------------------------------------------------------------------------
(* Integers in memory *)

\* Base ^ i, up to the eight bytes of the longest number
Powers[i \in 0 .. 8] == IF i = 0 THEN 1 ELSE Powers[i - 1] * Base
Power(i) == Powers[i]

\* The bytes of a number, the highest first, and the number of such bytes
Digits(n, width) == [i \in 1 .. width |-> (n \div Power(width - i)) % Base]

Number(digits) ==
    LET upTo[i \in 0 .. Len(digits)] ==
            IF i = 0 THEN 0 ELSE upTo[i - 1] * Base + digits[i]
    IN  upTo[Len(digits)]

\* Bytes at rising addresses as a machine has them, if the highest is the first
InOrder(order, bytes) ==
    [i \in 1 .. Len(bytes) |-> bytes[IF order = "big" THEN i ELSE Len(bytes) + 1 - i]]

\* A number in memory, and the number a machine reads there
Stored(order, n, width) == InOrder(order, Digits(n, width))
Loaded(order, bytes)    == Number(InOrder(order, bytes))

\* htons, htonl and their inverses
Hton(order, n, width) ==
    IF order = "big" THEN n ELSE Loaded("big", Stored("little", n, width))

Low(n)  == n % Power(4)
High(n) == n \div Power(4)

\* Faulty variant of Htonll: the halves are turned but stay in their places.
HtonllHalves(order, n) ==
    IF order = "big" THEN n
    ELSE (Hton(order, High(n), 4) * Power(4)) + Hton(order, Low(n), 4)

Htonll(order, n) ==
    IF order = "big" THEN n
    ELSE (Hton(order, Low(n), 4) * Power(4)) + Hton(order, High(n), 4)

ToNetwork(order, n, width) ==
    CASE width = 1 -> n
      [] width = 8 -> Htonll(order, n)
      [] OTHER     -> Hton(order, n, width)

-----------------------------------------------------------------------------
(* PayloadConverter::diagnosticsToPayload *)

Trim(t) == [t EXCEPT !.blanks = FALSE]

\* strtoul and strtoull turn a negative number into one of 64 bits; strtol does not.
Converted(n, width) == IF n < 0 /\ width > 2 THEN n + Power(8) ELSE n

\* ParseU8, ParseU16, ParseU32 and ParseU64, and the 0 their callers take instead
Parsed(t, width) ==
    IF /\ IsNumber(t) /\ ~t.blanks
       /\ t.parts[1] > -Power(8)
       /\ Converted(t.parts[1], width) \in 0 .. Power(width) - 1
    THEN Converted(t.parts[1], width) ELSE 0

\* ParseSemver3 and inet_pton take numbers of one byte, so many and no more.
Bytes(t, count) ==
    IF Len(t.parts) = count /\ \A i \in 1 .. count : t.parts[i] \in 0 .. Base - 1
    THEN t.parts ELSE [i \in 1 .. count |-> 0]

\* Eight bytes are copied of a name; a zero ends a shorter one.
LongName  == "H0000001 of a series"
First8(t) == IF t.word = LongName THEN [t EXCEPT !.word = "H0000001"] ELSE t

\* Faulty variant of Get: the first entry with a key counts.
GetFirst(status, key) ==
    LET found == {i \in DOMAIN status.values : status.values[i].key = key}
    IN  IF found = {} THEN Empty ELSE Trim(status.values[Min(found)].value)

\* getStr on ToMap(status): of several entries with a key the last one counts.
Get(status, key) ==
    LET found == {i \in DOMAIN status.values : status.values[i].key = key}
    IN  IF found = {} THEN Empty ELSE Trim(status.values[Max(found)].value)

\* device_id or, without one, the hardware_id as it is
DeviceId(status) ==
    IF Get(status, "device_id") = Empty THEN status.hardware_id ELSE Get(status, "device_id")

Packet(status) ==
    [numbers |-> [key \in Numbers |->
                     Stored(device,
                            ToNetwork(device, Parsed(Get(status, key), Width[key]), Width[key]),
                            Width[key])],
     ip_address   |-> Bytes(Get(status, "ip_address"), 4),
     firmware     |-> Bytes(Get(status, "firmware_version"), 3),
     product_name |-> First8(Get(status, "product_name")),
     device_id    |-> First8(DeviceId(status))]

ZeroPacket ==
    [numbers      |-> [key \in Numbers |-> [i \in 1 .. Width[key] |-> 0]],
     ip_address   |-> <<0, 0, 0, 0>>,
     firmware     |-> <<0, 0, 0>>,
     product_name |-> Empty,
     device_id    |-> Empty]

Described(m) == {i \in DOMAIN m : m[i].name = Target}

\* The first status of that name is converted; without one there are only zeros.
Convert ==
    /\ phase = "message" /\ passes < MaxPasses
    /\ pkt' = IF Described(msg) = {} THEN ZeroPacket ELSE Packet(msg[Min(Described(msg))])
    /\ phase' = "packet"
    /\ UNCHANGED <<device, node, source, msg, passes>>

-----------------------------------------------------------------------------
(* HokuyoSpelPublisher::publishDiagnostics *)

Entry(key, value) == [key |-> key, value |-> value]

Status(p) ==
    LET Shown(key) == Entry(key, Decimal(
                          ToNetwork(node, Loaded(node, p.numbers[key]), Width[key])))
        ok == Loaded(node, p.numbers["device_status"]) = 0
    IN  [name        |-> "spel_device",
         hardware_id |-> p.device_id,
         level       |-> IF ok THEN "OK" ELSE "WARN",
         values      |-> <<Entry("ip_address", Dotted(p.ip_address)),
                           Shown("ip_port"),
                           Entry("product_name", p.product_name),
                           Entry("firmware_version", Dotted(p.firmware)),
                           Entry("device_id", p.device_id),
                           Shown("device_status"), Shown("device_temperature"),
                           Shown("cpu_usage"), Shown("elapsed_time"),
                           Shown("odometry_state"), Shown("odometry_type"),
                           Shown("gnss_state"), Shown("gnss_type")>>]

Publish ==
    /\ phase = "packet"
    /\ msg' = <<Status(pkt)>>
    /\ phase' = "message" /\ passes' = passes + 1
    /\ UNCHANGED <<device, node, source, pkt>>

-----------------------------------------------------------------------------
(* SpelDiagnosticsPublisher::onTimer *)

\* Its numbers with smaller digits, each text with as many bytes as in the code
Sample ==
    <<[name        |-> "spel_device",
       hardware_id |-> Word("H0000001"),
       level       |-> "OK",
       values      |-> <<Entry("ip_address", Dotted(<<Base - 1, 1, 0, 1>>)),
                         Entry("ip_port", Decimal(Power(1) + 2)),
                         Entry("product_name", Word("RSF-X001")),
                         Entry("firmware_version", Dotted(<<1, 0, 0>>)),
                         Entry("device_id", Word("H0000001")),
                         Entry("device_status", Decimal(0)),
                         Entry("device_temperature", Decimal(Power(1) + 3)),
                         Entry("cpu_usage", Decimal(3)),
                         Entry("elapsed_time", Decimal(Power(1) + 1)),
                         Entry("odometry_state", Decimal(0)),
                         Entry("odometry_type", Decimal(0)),
                         Entry("gnss_state", Decimal(0)),
                         Entry("gnss_type", Decimal(0))>>]>>

Init == /\ device \in Orders /\ node \in Orders
        /\ source \in Reports \cup {Sample} /\ msg = source
        /\ pkt = ZeroPacket /\ phase = "message" /\ passes = 0

Next == Convert \/ Publish

Spec == Init /\ [][Next]_vars

-----------------------------------------------------------------------------
(* Properties *)

\* The message of the sample publisher is the same after every conversion, entry by
\* entry: keys, order, names and numbers agree in the three programs.
SampleUnchanged == source = Sample /\ Target = "spel_device" => msg = source

\* The last of the entries a status has for a key
LastEntry(status, key, default) ==
    LET found == {i \in DOMAIN status.values : status.values[i].key = key}
    IN  IF found = {} THEN default ELSE status.values[Max(found)].value

\* What a number in a text is to be shown as: itself, if its member has room for it,
\* else 0
Meant(t, width) ==
    IF IsNumber(t) /\ t.parts[1] \in 0 .. Power(width) - 1 THEN t.parts[1] ELSE 0

\* On machines of whatever byte orders, a number of the first status with the name is
\* shown as it was, blanks around it or not, or as 0; 0 too for everything without
\* such a status, which is then OK.  Only strtoul and strtoull show a negative number
\* as another one.  Played back it is the same if the converter looks for the name the
\* publisher gives.
NumbersKept ==
    passes = 1 \/ (passes > 1 /\ Target = "spel_device") =>
        \A key \in Numbers :
            LET t == IF Described(source) = {} THEN Empty
                     ELSE LastEntry(source[Min(Described(source))], key, Empty)
                shown == LastEntry(msg[1], key, Empty)
            IN  \/ shown = Decimal(Meant(t, Width[key]))
                \/ /\ Width[key] > 2 /\ IsNumber(t) /\ t.parts[1] < 0
                   /\ shown = Decimal(t.parts[1] + Power(8))

\* Played back, what was published stays as it is; the first time it may lose the
\* blanks around a hardware_id.
Stays == passes > 1 => msg' = msg

=============================================================================
