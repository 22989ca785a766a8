# Verification of hokuyo_rsf

Formal models of the ROS 2 node `hokuyo_rsf`, which connects to a Hokuyo SPEL
device over TCP, publishes what the device streams and relays commands to it.
The modules are TLA+; TLC checks them on small instances, and TLAPS proves the
main results for every value of the constants.

    tlc -config client_safety.cfg MCSpelClient     # one run; the others alike
    tlapm SpelDeliveryProofs.tla                   # one proof module

## 1. The system

| part | code | state | operations |
|---|---|---|---|
| connection manager | `src/hokuyo_rsf.cpp` 181-253, 429-568 | `sock_`, the `run` flag, two mailboxes with stamps under `mutex_`, locals of the threads | constructor, callbacks, destructor; `spelClientLoop`; rx and tx loop |
| framing | `spnet_utils.hpp` 75-83, 248-459 | none beside the TCP stream | `sendFrame`, `recvFrame` |
| dispatch and publication | `hokuyo_rsf.cpp` 255-427, `spel_parser.cpp`, `spel_publisher.cpp` | `last_imu_rate_odom_pkt_`, its flag, the static `tfcnt` | one branch per `DataType` |
| payload converter | `payload_converter.cpp/.hpp` | none | messages to packets: the device's half, linked but never called here |
| `send_uint8_command` | `send_uint8_command.cpp` | none; its message is retained by the middleware while it lives | publish one command and end |
| `spel_diagnostics_publisher` | `spel_diagnostics_publisher.cpp` | none | publish a sample message every second |
| setup | constructor 54-180, yaml and launch files | none | topics, parameters |

How they interact.  Four threads run: *main* spins the executor and runs the two
subscription callbacks; the *supervisor* (`spelClientLoop`) starts a *receive*
(rx) and a *transmit* (tx) thread for the socket, joins rx, then tx, and sets up
a new socket.  rx blocks in `recv`; tx sleeps a second, looks at the mailboxes,
and sends.  Either one stops the other through `run`.  On SIGINT
`rclcpp::spin` returns and the node's destructor, on the main thread, writes two
STOP frames on `sock_`, shuts it down, closes it and joins the supervisor, at
whatever point that one is.  The device is the other end of the TCP connection; what
it streams was made of ROS messages by the payload converter, and becomes ROS messages
again in the parser and the publisher.  Commands come from the tool through DDS.

What is hard: the destructor races with tx (frames on one socket) and with the
supervisor (`sock_` is a plain int, read and written by both); descriptor numbers
are used again; mailboxes keep the last message only and their stamps are their
versions; tx forgets everything at a reconnection and so sends the last command
again; three blocking calls must all be woken at the end; a frame is several
`send` calls and one damaged frame ends a connection; state survives reconnections
in rx; counts and sizes are `uint32_t` in one place and `size_t` in the next; numbers
change their byte order, texts are cut to arrays; the tool ends before it knows whether
it was heard, and the middleware may deliver its message late or to a restarted node.  `PROJECT.json` lists each hazard at its line with the properties for it.

What makes the parts correct:

- connection manager: no thread ever works on another thread's connection;
  commands reach the device in order, once per connection, never an older one
  after a newer one; the last command reaches every connection that stays up;
  a lost connection is replaced; SIGINT always ends the process; after the
  shutdown nothing is sent.
- framing: what is accepted is intact and in step with the stream, whatever two
  writers, signals and a RST do; an undisturbed stream is never given up; whole frames
  arrive unless the connection is reset.
- dispatch: every sound frame is published exactly once and in order, a bad one
  harms no other; the lidar-rate odometry and the transforms go with the right
  odometry, across connections.
- payloads: a message comes out of packet, parser and publisher as it went in, but for
  what the packet has no room for; the copies of the publisher end where their arrays do,
  whatever a header says; a cloud that is too large is not taken for a smaller one;
  diagnostics do not change any more after a second pass.
- tool: runs in succession are heard in succession; a number that an int has room for is
  heard as it was typed.

## 2. Modules

| module | what it is |
|---|---|
| `CommandRelay` | abstract: publications are numbered, the node may tell of the last one; a session hears of one at most once and in order, a new session of none older than the sessions before it |
| `SpelClient` | the four threads, descriptors, connections, mailboxes; properties; the refinement mapping to `CommandRelay` |
| `SpelClientProofs`, `SpelDeliveryProofs`, `SpelSessionProofs` | proofs about it |
| `FrameChannel` | abstract: the reader gets whole frames, each at most once, those of one writer in order; the channel may fail |
| `SpelWire` | `sendFrame` and `recvFrame` on one direction of a connection; the refinement mapping to `FrameChannel` |
| `SpelWireProofs`, `SpelChannelProofs` | proofs about it |
| `SpelRx`, `SpelRxProofs` | the rx loop's branches, publications, and kept state; proofs |
| `SpelPackets` | odometry, IMU, fix and NMEA messages: converter, packet, publisher |
| `SpelClouds` | point clouds, with counts and sizes in their widths |
| `SpelStamps` | the time of a header, from the sender's clock to the published stamp |
| `SpelDiagnostics` | the diagnostics: texts to numbers to bytes, and back; the sample publisher |
| `SpelPayloads`, `SpelPayloadsProofs` | the four above as the branches of one program: what a frame carries; proofs |
| `SpelSender`, `SpelSenderProofs` | runs of `send_uint8_command`, discovery, the node's subscription; proofs |
| `MC...` | values of constants for TLC |

`SpelClient` sends a frame in one step; `SpelWire` takes that step apart and shows
what may happen inside it, and that it keeps what `FrameChannel` promises, which is all
`SpelClient` assumes of a connection.  `SpelClient` has an rx thread that receives some
frame (`RxFrame`, `RxBreak`); `SpelRx` says what is published of the frame, and
`SpelPayloads` what stands in the message.  In every module an operator marked "Faulty
variant" is not part of the specification: it is a bug the code might have had, kept to
show that a property notices it.

### SpelClient

| code | model |
|---|---|
| position in the code of main, supervisor, rx, tx | `mpc`, `spc`, `rpc`, `tpc` |
| `sock_`, the threads' argument `sock`, the destructor's argument | `sock`, `tsock`, `msock` |
| the kernel's descriptors and TCP states | `fdTable`, `link`; `socks` numbers the sockets |
| `cmdToSpel_`/`cmdToSpelStamp_`, `ipAddress_`/`ipAddressStamp_` | `slot["cmd"]`, `slot["ip"]`: number of the publication, stamp |
| `prevCmdToSpelStamp`, `prevIpAddressStamp`, `seq` of tx | `prev`, `seq` |
| `run`, `rclcpp::ok()`, end of the process | `run`, `ok`, `status` |
| what was handed to TCP | `wire`, per connection (history) |

A step is a system call, a critical section, a loop test, or a join.  `socket()`
returns any free number.  A call in progress keeps its connection alive when the
descriptor is closed (`InUse`): a `recv` is woken by `shutdown`, not by `close`.
`sock_` is read and written without synchronization; the model reads whole values,
as the builds for the supported machines do.

Environment.  The device may close or reset a connection at any time, and may send
frames that keep or end the rx loop.  Commands are published at any time while the
node spins; SIGINT comes at any time after the constructor (before that
`rclcpp::ok()` is tested by nobody but `spin`).  Arrival of the signal and the end of
`ok()` are one step (`Sigint`): in rclcpp the handler sets a flag and a thread makes `ok()`
false later, so that there a `send` may fail with EINTR while `ok()` still holds.  Here
`send` may fail with EINTR only in tx and only once SIGINT has arrived.  A `send` always
returns (`SendResults`): it never blocks on a full buffer (section 5).  `now()` at two callbacks may differ always
(`StrictClock`) or stand still, as with `use_sim_time`.  With `Vanish` the device may
also fall silent without FIN or RST (`PeerVanishes`): nobody is told, `recv` waits, and
sends succeed, until the kernel gives up the first frame it cannot get acknowledged
(`GiveUp`, external).  The code sets neither a timeout nor keepalive: a device that
vanishes while nothing is sent to it is never noticed, and no property says it is.

### SpelWire

A cell is one or more bytes of a frame; `Put` is one `send`, taking any part of the
current `sendAll` buffer, so that writers interleave at every cell; `PutFails` is a
`send` that fails and leaves the frame as it stands.  `Total` and `PayLen` compute
Header.len and the payload size modulo `Modulus`, 2^32 in the code.  Two
abstractions: a CRC matches only the bytes it was computed from (a 16-bit CRC lets
one in 65536 random frames through), and a header mixed of several frames may bear
any length and may or may not begin with SP_HEAD.  The connection ends
in an orderly way (`Shut`: what TCP took is still delivered) or, with `Resets`, by a RST
(`Reset`): the reader then may or may not get what TCP took before.  A RST is what Linux
sends when a connection with unread data is closed, as the destructor may do.

### SpelRx

The content of a packet is the number of the frame that brought it, so that a
publication tells whose data it shows; a payload is its size and the count a cloud
begins with, which is all the parsers look at.  A frame's handling is one step: only
this thread sees its intermediate states.

### SpelPackets, SpelClouds, SpelStamps, SpelDiagnostics

Each follows a message from the converter into the payload, through the parser and out
of the publisher, and then, as a recording played back, through all of it again.  The
variables are the message at hand, the packet, and the message at first (history).  The
abstraction is of the content, to what a property tells apart:

- `SpelPackets`: a field is where it came from and how much of it is left: the
  characters of a text, the digits of a double or a float.  `Members` and `Size`
  give the members of the packed structs and their sizes.  Whole numbers are kept: the
  casts of `gpzdaToPayload` cut nothing if the messages, whose types are not in the
  repository, have the members' types.
- `SpelClouds`: a point is its number in the cloud it came from.  `Uint32` wraps at `Wrap`,
  2^32 in the code; the parser's sizes are `size_t` and do not.  An initial state is a
  cloud of any size, also one whose payload size wraps, or a payload of any size whose
  header says anything.  Where the size wraps, the converter writes past its payload,
  which is undefined: the process ends (`Overrun`), or nobody notices and the converter
  goes on (`ConvertCloud`).
- `SpelStamps`: nanoseconds, `Low32` and `Int32` at their widths.
- `SpelDiagnostics`: a text is the numbers between its dots or a word; a byte has `Base`
  values; device and node have byte orders of their own.

`publishString` and `stringToPayload` copy bytes; a text message is its payload, so
`SpelRx` treats it as a whole.

### SpelSender

A run of the tool is new, waiting, lingering (after its publication) or ended.
Discovery (`Match`) and the delivery of what a living publisher retains (`Deliver`,
transient local) are the middleware's and may happen late or never.  The node subscribes in
its constructor and hears nothing before it spins; it may stop and start again at any
time.  Its subscription keeps the last `Depth` messages, 10 in the code.  An argument is
nothing, a word or a number; `Atoi` is what the C library makes of it in the usual builds,
`strtol` (`Long`) cut to an int (`CutToInt`), and only then is the range checked.  That a
message goes to a subscription once at most, and only while its tool lives, is assumed of
the middleware.

## 3. Runs

| run | instance | states | shows |
|---|---|---|---|
| `client_safety` | 2 connections, 2 descriptors, 2 commands, 1 address, a vanishing device | 1.29 M | the safety properties below; the inductive invariant `SessionInv` |
| `client_relay` | 3 connections, 2 descriptors, 2 commands, clock may stand still | 846 k | `ImplementsRelay`, and the inductive invariants `SocketsInv`, `DeliveryInv` |
| `client_liveness` | 2 connections, 1 descriptor, 2 commands, a vanishing device | 55 k | liveness, under fairness of the threads |
| `wire_node` | tx with a frame without and one with payload, the destructor with one; signals, RST | 63 k | `InStep`, `GivenUpMeansMixed`, `WholeFramesArrive`, `ImplementsChannel` |
| `wire_device` | 4 frames, payloads up to the limit of the length field | 2469 | `NeverGivenUp` |
| `rx_pairing` | 5 frames, 2 connections, a transform every 2 odometries | 1.71 M | `LidarRatePaired`, `TfCadence`, `ErrorEndsConnection` |
| `rx_dispatch` | 2 frames of all 15 types, 13 payloads, one connection, `broadcast_tf` off | 80 k | `Forwarded` |
| `payloads` | texts, clouds, diagnostics and times around every limit, three passes | 452 k | `FieldsSurvive`, `CopyFits`, `PointsKept`, `SameInstant`, `SampleUnchanged`, `NumbersKept`, `DiagnosticsSettled` |
| `sender` | 3 runs of the tool, 2 lives of the node, a subscription of depth 2, 8 arguments | 2.14 M | `RunsHeardInOrder`, `HeardAsRead` |
| `client_reset_pair`, `client_seq`, `wire_length` | small | - | the findings of section 6 |

Properties of `SpelClient`: `ThreadsOnOwnConnection`, `OrderedDelivery`,
`GaplessSession` (a session begins with its START frames and has no gap in its
numbers while no signal arrived), `HandledMeansSent` (tx takes a command for handled
only if this very connection carried it), `BoundedOvertake` (at most two frames of tx
after the first STOP), `StopDelivered`, `QuietAfterShutdown`,
`LatestReachesEveryConnection`, `SigintEnds`, `LostConnectionReplaced`.  What these
properties call sent or heard was handed to TCP; what is lost behind that, with the
connection, they do not see.  `exit(1)`, on a `connect` that fails, is an end of the
process and satisfies the last two.

Why the bounds are enough.  Two connections give one reconnection with a number used
again (two descriptors also give one with another number); three, with two commands,
give a reconnection before, between and after the publications.  Two publications on a
topic are the least that can overtake or overwrite each other.  Every other counter
(`seq`, stamps) is bounded by these.  The last connection the bound admits is not lost
(guards `socks < MaxSocks` on the device's actions and `RxBreak`): otherwise the model
would stop where the code goes on.  In `SpelWire` the header has two cells and a CRC one,
so that a frame can be cut inside its header, before and inside its payload and before
its CRC.  In `SpelRx` the code's period of 50 odometries is the constant `TfPeriod`;
with 2, five frames contain two transforms.  In `payloads` the sizes 6, 8 and 16 of the
arrays are those of the code, with texts one shorter, as long and one longer; 2^32 is
29, which is no multiple of the 3 bytes of a point, so that a wrapped size is another number:
a payload has room for 8 points, its size wraps with 9, the number of points with 29, the
data of clouds of a foreign layout earlier, and clouds go up to 6 by 6; a byte has
4 values and an int32_t of seconds ends at 8.  Three passes are one to convert, one to
settle and one to see that it has.  In `sender` three runs are the least of which one
may begin after another has ended while a third is still there, and a depth of 2 lets the
subscription overflow; a byte ends at 4, an int at 8 and a long at 32, and the numbers
typed are below, between and beyond them, 18 being one that an int cuts to a byte.  Deadlock is checked for `SpelClient`, whose only terminal states
are those of an ended process; scripts and inputs of the other modules are finite, so
they stop.

Fairness (`client_liveness`).  Weak fairness of each of the four threads: the operating
system schedules a thread that can run.  None of the device, publishers and user, nor of
a successful `connect` (a failing one ends the process).  Weak fairness, too, of the
kernel's retransmission timer, for a frame it holds and cannot get acknowledged: that is
how TCP finds a peer that is gone.  `WholeFramesArrive` assumes that the
reader runs when it has something to read.

## 4. Proofs

All hold for every set of descriptors, every number of connections and publications
and either clock.

`SpelClientProofs`.  `TypeCorrect`: the type invariant.  `SocketsCorrect`: `SocketsInv`,
an inductive invariant with three parts: which threads can run together
(`ThreadPhases`), which descriptor the threads, `sock_` and the newest connection share
(`OwnSocket`), and that no other descriptor is ever open (`OnlyNewest`).  The property
wanted, `ThreadsOnOwnConnection`, is not inductive: that the number of an old thread is
not used again follows from the joins, hence from the phases.

`SpelDeliveryProofs`.  `OrderedDelivery` speaks of wires only; to be inductive it needs
to know that nothing is sent before it is published (`NothingEarly`), that a socket
carries no command before its threads start (`FreshConnection`), that tx remembers
the stamp of what it sent on its connection (`Stamped`), and that a command in its hand is
newer than all on the wire (`InHand`).  Together they are `DeliveryInv`; it needs no
assumption on the clock.  `ClientImplementsRelay` maps every step to one of
`CommandRelay` or to a stutter, from these invariants.  `RelayKeepsOrder` shows that the
abstract specification says what it is meant to: from its own steps alone, nothing is
told that was not published, twice on a connection, or after something newer (`Promise` is
the inductive form); `NodeKeepsOrder` takes that down to the node along the refinement.

`SpelSessionProofs`.  What a session carries.  `SessionInv` has five parts: whoever works
on a connection that was up has been told so (`Reached`); while no signal arrived the
counter of tx is the number of frames on the wire (`Numbered`); what the stamps of tx take
for handled is heard, in its hand, or lost with the connection (`Handled`); frames that
stand behind the destructor's and those tx may still send are two at most (`Overtaking`);
the destructor stops the connection the threads serve (`Stopping`).  From it follow
`SessionsAreGapless`, `NoCommandSwallowed` (the only theorem that needs a clock that
moves: with one that stands still the property is false), `OvertakeIsBounded` and
`DeviceIsStopped`.  `NothingAfterShutdown` is an action property: a step that adds a frame
finds the connection up.

`SpelWireProofs`.  `ReaderStaysInStep`: for any writers, scripts and sizes the accepted
frames are the beginning of the stream, frame by frame.  The strengthening is that
accepted frames end before the reader's place.  `LengthRoundTrip`: the length arithmetic
of `recvFrame` inverts that of `sendFrame` below the modulus.  `OnlyMixedFramesEndIt`: the
reader gives up only where frames are mixed.  Its place must then be known to be the
beginning of a frame whenever the stream before it is clean, which is a statement about
every beginning of the stream; instead of an induction over the stream, the invariant
(`Unbroken`, `ReaderInv`) is kept by every `Put`, which adds the last cell.
`LoneWriterIsHeard` adds that a single writer whom no signal interrupts never mixes
anything (`Alone`).

`SpelChannelProofs`.  `WireImplementsChannel`: `SpelWire` implements `FrameChannel`.  That
frames of one writer arrive in order does not follow from `InStep`, which knows nothing
of how the stream came about.  The strengthening is `CellOrder`: in the stream, and
between the stream and what a writer puts next, the cells of one writer stand in the
order of their frames and places.  An accepted frame is complete in the stream
(`InStep`), so its last cell was put: its writer is done with it (`AcceptedIsSent`);
frames accepted earlier stand earlier (`AcceptedComesNext`).  `ChannelKeepsOrder` is what
`FrameChannel` promises by itself, the order of each writer's frames and that none comes
twice or unsent; `WireKeepsOrder` hands it down.

`SpelRxProofs`.  All five properties of the receive loop, for any payloads, any number of
frames and connections, any period.  They follow from `RxInv`: the packet that is kept is
that of the last odometry published (`LastOdometry`), which makes the pairing of clouds
hold over connections; with `broadcast_tf` the counter is what the odometries exceed whole
periods by (`Counting`), from which the number of transforms follows by division
(`CounterTells`); an ERROR leaves the loop only for a later connection (`Succession`).
`Forwarded` and `TfCadence` (which speaks of a node with `broadcast_tf` on) are stated with
sets of places and their cardinalities, which say the same as a comparison of subsequences,
so that adding a message is a lemma about sets (`OneMore`, `TwoMore`) and needs no induction
over sequences.

`SpelPayloadsProofs`.  `EveryCopyFits` and `EveryPointKept`, for every modulus, size of
header and of point, and clouds of every size.  The argument of the first is
that a payload the parser lets through has a size below 2^32, hence so has its row step
(`RowStepIsExact`); of the second, that a payload passes the parser's test exactly if its
size has not wrapped (`RoomTells`), so that no cloud is published with a part of its points
unless their number itself wraps, that the converter then copies what starts below the
modulus (`ConverterKeeps`), and that what the publisher makes is again a cloud the converter
keeps (`PublisherKeeps`).  A cloud without room is not promised to survive the converter.  `StampsShowTheirInstant`, for every width and length
of a second: quotient and remainder of an instant before 2038 have room in their types
(`Narrow`), so header and stamp name the same instant (`HeaderTells`, `BothShow`).
`EveryFieldSurvives`, for texts of any length: what the first pass
leaves of a field (`RoundTrip`) is what every later pass leaves of it (`PublishKeeps`).

The diagnostics, in the same module, for every number `Base` of values of a byte (the
code's is 256), all messages and either byte order of either machine.  `NumbersCrossMachines`:
`htons`, `htonl` and the `htonll` of the code undo on one machine what they did on the other.
The argument: bytes in memory, turned to the order of the machine, are the digits of the
number in network order, whatever the machine (`SentInNetworkOrder`); digits and number
determine each other below the power of the width (`NumberOfDigits`, `DigitsOfNumber`); so
does the other machine read them (`ReadInNetworkOrder`); and the halves that `htonll` turns
one by one join to the whole (`NumberOfJoin`, `HtonllTurns`).  A sum over digits needs an
induction: `Counting` proves it for sets of numbers, from the library's fact that `<` is
well-founded, and takes no operator.  From it `NumbersOfDiagnosticsKept`, with `NumbersInv`:
what the packet has as digits is the first status's number, pass after pass;
`DiagnosticsSettle`, with `DiagnosticsInv`: every packet is `Normal` (full members, texts that
are not cut again), and after the second pass `Fixed`; `SampleComesBack`, with `SampleInv`.
Attempting the first corrected the property twice: `strtoul` takes negative numbers for
`device_temperature` just as `strtoull` does for `elapsed_time`, and a converter that looks
for another name than `spel_device` finds nothing in what was published, and sends zeros from
the second pass on.

`SpelSenderProofs`.  `RunsAreHeardInOrder`, for any number of runs and lives and any depth of
the queue.  The strengthening `SenderInv` speaks of what was heard and what still waits
together (`InOrder`); that a run delivered now did not end before one that is heard
already began holds because who has ended stays ended (`EndedStay`).  `ArgumentsAreRead`, for
all widths: what is heard is what `atoi` made of the argument, if that is a byte
(`Accepted`), and `atoi` changes a number by multiples of 2^32 (`Multiple`, `Remainder`), or
makes a 0 of it.

Assumptions are those on the constants in the modules (`FdsAssumption` ... ,
`SizeAssumption`, `ScriptAssumption`, `CloudAssumption`, `StampAssumption`,
`DiagnosticsAssumption`, `PeriodAssumption`, `SenderAssumption`), which TLC evaluates in every run, and those a
theorem names: `StrictClock` in `NoCommandSwallowed`; one writer and no interrupted send in
`LoneWriterIsHeard`, which are the conditions of the run `wire_device` too.

Only model-checked: the liveness properties (outside the prover's reach, like everything
under fairness): `LatestReachesEveryConnection`, `SigintEnds`, `LostConnectionReplaced`,
`WholeFramesArrive`.

## 5. Not modelled

The bytes of text messages; names of nodes, topics, frames and parameters; the sleep of tx
as time; SIGINT during the constructor; static destructors during `exit(1)`; a `send` that
blocks because the device, still there, reads nothing and the buffers are full, in tx or in
the destructor before its shutdown, where nothing would wake it and SIGINT would not end the
process; a `send` interrupted while `rclcpp::ok()` still holds; other descriptors of the
process, as those of DDS, that take the number of a socket the threads have closed; the casts
of `gpzdaToPayload`, where the message should have wider types; what a converter that writes
past its payload destroys, if the process does not end; a packet of a device that
does not use PayloadConverter and fills a text array to its end, which `publishGpgga` would
read past; the fields a cloud did not have, which the converter fills from other bytes; a
length that passes the tests of `recvFrame` and asks for more memory than there is, which
ends the process (the limit is commented out).
`LIOStatus` is an enumeration nothing uses; docker and rviz files hold no program.

## 6. Where documents and code differ

1. README.md:52 says command 5 equals sending 4 and 3 in succession.  The mailbox holds
   one command and tx looks once a second: the 4 is overwritten.  (`client_reset_pair`)
2. spnet_utils.hpp:81 calls `seq` a "request/response correlation".  The STOP frames
   of `spelClientClose` start at 0 again on the connection of tx.  (`client_seq`)
3. spnet_utils.hpp:82 gives the length as header, payload and 2.  `recvFrame` refuses
   lengths below the header only; 20 and 21 pass, and the payload size wraps.
   (`wire_length`)

## 7. State

Done: the models of all parts, the refinements of `CommandRelay` and `FrameChannel`, and
the proofs of section 4, which state every safety property of the runs.  What stays with
TLC is the liveness of section 4's last paragraph.
