----------------------------- MODULE SpelClient -----------------------------
(***************************************************************************)
(* The TCP client of hokuyo_rsf.cpp: the node's main thread (constructor,  *)
(* rclcpp::spin and its callbacks, destructor), the supervisor thread      *)
(* spelClientLoop, and the pair of threads spelClientRxLoop and            *)
(* spelClientTxLoop it starts for every connection.  They share the atomic *)
(* run, the int sock_, and the two mailboxes guarded by mutex_.            *)
(*                                                                         *)
(* A step is a system call, a critical section, a loop test or a join: the *)
(* points at which another thread can be seen.  A frame is the unit sent   *)
(* here; module SpelWire takes sendFrame and recvFrame apart.              *)
(***************************************************************************)
EXTENDS Naturals, Sequences, FiniteSets

CONSTANTS
    Fds,          \* descriptor numbers socket() may return
    CmdValues,    \* data published on the topic cmd_to_spel (uint8)
    IpValues,     \* data published on the topic ip_address (strings)
    ValidIps,     \* those that inet_pton accepts
    StrictClock,  \* TRUE: now() is different at every callback (system time)
                  \* FALSE: it may stand still, at 0 too (use_sim_time)
    Vanish,       \* may the device fall silent without FIN or RST?
    MaxSocks,     \* bound: calls of socket(), hence of connections
    MaxPubs       \* bound: publications per topic, a function on Channels

Channels == {"cmd", "ip"}
Conns    == 1..MaxSocks
NoFd     == 0

ASSUME FdsAssumption   == Fds \subseteq Nat \ {NoFd} /\ Cardinality(Fds) > 0
ASSUME ValueAssumption == CmdValues \subseteq 0..255 /\ ValidIps \subseteq IpValues
ASSUME ClockAssumption == StrictClock \in BOOLEAN /\ Vanish \in BOOLEAN
ASSUME BoundAssumption == MaxSocks \in Nat \ {0} /\ MaxPubs \in [Channels -> Nat]

\* spnet::CmdType
START_STREAMING == 1
STOP_STREAMING  == 2
START_RSF       == 3
STOP_RSF        == 4
RESET_RSF       == 5
SET_IP_ADDRESS  == 6

Values == [ch \in Channels |-> IF ch = "cmd" THEN CmdValues ELSE IpValues]

-----------------------------------------------------------------------------
VARIABLES
    ok,       \* rclcpp::ok()
    status,   \* "up", or how the process ended: "exit0", "exit1"
    mpc,      \* where the main thread is
    msock,    \* the argument of spelClientClose: sock_ as the destructor read it
    spc,      \* where the supervisor is
    rpc,      \* where the receive thread is
    tpc,      \* where the transmit thread is
    tsock,    \* the descriptor the two threads were given
    sess,     \* history: the connection they were started for
    rxOn,     \* the connection a blocked recv is on; 0: none (EBADF)
    run,      \* the atomic<bool> of spelClientLoop
    sock,     \* sock_
    fdTable,  \* the kernel's table: descriptor -> connection, 0: not open
    link,     \* the TCP state of every connection; this end cannot tell "mute"
              \* and "lost" from "up": the device is gone, and in "lost" what
              \* was sent to it since is not acknowledged
    socks,    \* how many times socket() was called: the newest connection
    wire,     \* history: the frames handed to TCP, per connection
    slot,     \* the mailboxes: cmdToSpel_/cmdToSpelStamp_, ipAddress_/...;
              \* the message is its number, its value is pub[ch][id]
    pub,      \* history: the values published, per topic
    clock,    \* the last value now() gave to a callback
    prev,     \* prevCmdToSpelStamp, prevIpAddressStamp: locals of tx
    job,      \* the copy of a message that tx is about to send
    seq       \* the sequence counter of tx

mainVars == <<mpc, msock>>
rxVars   == <<rpc, rxOn>>
txVars   == <<tpc, prev, job, seq>>
pairVars == <<tsock, sess>>
netVars  == <<sock, fdTable, link, socks>>
boxVars  == <<slot, pub, clock>>
vars     == <<ok, status, mainVars, spc, rxVars, txVars, pairVars, run,
              netVars, wire, boxVars>>

\* "ctl" frames are START_*, STOP_*; id is the number of the publication a
\* "cmd" or "ip" frame stands for, counted per topic.
Frame == [by : {"tx", "main"}, ch : Channels \cup {"ctl"}, sub : 0..6,
          seq : Nat, id : Nat]

Mail == [id : Nat, stamp : Nat]

Init ==
    /\ ok = TRUE /\ status = "up"
    /\ mpc = "socket" /\ msock = NoFd
    /\ spc = "off" /\ rpc = "off" /\ tpc = "off"
    /\ tsock = NoFd /\ sess = 0 /\ rxOn = 0
    /\ run = TRUE
    /\ sock = NoFd
    /\ fdTable = [f \in Fds |-> 0]
    /\ link = [c \in Conns |-> "none"]
    /\ socks = 0
    /\ wire = [c \in Conns |-> <<>>]
    /\ slot = [ch \in Channels |-> [id |-> 0, stamp |-> 0]]
    /\ pub = [ch \in Channels |-> <<>>]
    /\ clock = 0
    /\ prev = [ch \in Channels |-> 0]
    /\ job = 0 /\ seq = 0

-----------------------------------------------------------------------------
(* Sockets, as the kernel gives them *)

On(f) == IF f \in Fds THEN fdTable[f] ELSE 0

\* socket(): any number that is not in use
OpenSocket ==
    /\ socks < MaxSocks
    /\ \E f \in {g \in Fds : fdTable[g] = 0} :
          /\ sock' = f
          /\ fdTable' = [fdTable EXCEPT ![f] = socks + 1]
    /\ socks' = socks + 1
    /\ link' = [link EXCEPT ![socks + 1] = "new"]

\* connect() on the newest socket succeeds.  It may have been shut meanwhile.
Connected ==
    link' = [link EXCEPT ![socks] = IF @ = "new" THEN "up" ELSE @]

\* Faulty variant of Shutdown: SHUT_RD leaves the sending half open.
ShutdownReadOnly(f) == UNCHANGED <<sock, fdTable, link, socks>>

\* ::shutdown(f, SHUT_RDWR).  It may have no effect before connect().
Shutdown(f) ==
    /\ IF On(f) = 0
       THEN UNCHANGED link
       ELSE \/ link' = [link EXCEPT ![On(f)] = "shut"]
            \/ link[On(f)] = "new" /\ UNCHANGED link
    /\ UNCHANGED <<sock, fdTable, socks>>

\* A call in progress keeps the connection when its descriptor is closed.
InUse(c) == \/ rpc = "recv" /\ rxOn = c
            \/ spc = "connect" /\ socks = c

\* ::close(f).  EBADF when f is not open.
Close(f) ==
    /\ IF On(f) = 0
       THEN UNCHANGED <<fdTable, link>>
       ELSE /\ fdTable' = [fdTable EXCEPT ![f] = 0]
            /\ link' = IF InUse(On(f)) THEN link
                       ELSE [link EXCEPT ![On(f)] = "shut"]
    /\ UNCHANGED <<sock, socks>>

\* What sendFrame on connection c may come to.  After the peer's FIN TCP still
\* accepts data, until the RST, and after its silence until the kernel gives up;
\* a signal may interrupt send() (EINTR), which sendAll does not retry.
\* The call always returns here: that it may block, while a device that is up
\* reads nothing and the send buffer is full, is left out.
SendResults(c, interruptible) ==
    LET state == IF c = 0 THEN "none" ELSE link[c]
    IN  {r \in {"sent", "dropped", "failed"} :
            \/ r = "sent" /\ state = "up"
            \/ r = "dropped" /\ state \in {"fin", "mute", "lost"}
            \/ r = "failed" /\ (state \notin {"up", "mute", "lost"} \/ interruptible)}

Transmit(c, frame, result) ==
    /\ wire' = IF result = "sent" THEN [wire EXCEPT ![c] = Append(@, frame)]
               ELSE wire
    /\ link' = IF result = "dropped" /\ link[c] = "mute" THEN [link EXCEPT ![c] = "lost"]
               ELSE link

-----------------------------------------------------------------------------
(* The main thread: constructor, spin and callbacks, destructor *)

MainSocket ==
    /\ mpc = "socket"
    /\ OpenSocket
    /\ mpc' = "connect"
    /\ UNCHANGED <<ok, status, msock, spc, rxVars, txVars, pairVars, run, wire,
                   boxVars>>

\* The constructor ends by starting spelClientLoop, whose run begins TRUE.
MainConnect ==
    /\ mpc = "connect"
    /\ \/ /\ Connected
          /\ mpc' = "spin" /\ spc' = "loop" /\ run' = TRUE
          /\ UNCHANGED status
       \/ /\ status' = "exit1"                               \* exit(1)
          /\ UNCHANGED <<mpc, spc, run, link>>
    /\ UNCHANGED <<ok, msock, rxVars, txVars, pairVars, sock, fdTable, socks,
                   wire, boxVars>>

\* now(), as the callback on any topic sees it
Stamps == IF StrictClock THEN {clock + 1} ELSE {clock, clock + 1}

\* cmdToSpelCallback and ipAddressCallback: overwrite the mailbox
Callback(ch) ==
    /\ mpc = "spin"
    /\ Len(pub[ch]) < MaxPubs[ch]
    /\ \E v \in Values[ch], t \in Stamps :
          /\ pub' = [pub EXCEPT ![ch] = Append(@, v)]
          /\ slot' = [slot EXCEPT ![ch] = [id |-> slot[ch].id + 1, stamp |-> t]]
          /\ clock' = t
    /\ UNCHANGED <<ok, status, mainVars, spc, rxVars, txVars, pairVars, run,
                   netVars, wire>>

\* rclcpp::spin returns; the destructor evaluates spelClientClose(sock_).
MainSpinReturns ==
    /\ mpc = "spin" /\ ~ok
    /\ mpc' = "stopRsf" /\ msock' = sock
    /\ UNCHANGED <<ok, status, spc, rxVars, txVars, pairVars, run, netVars, wire,
                   boxVars>>

StopFrame(k) == [by |-> "main", ch |-> "ctl", seq |-> k, id |-> 0,
                 sub |-> IF k = 0 THEN STOP_RSF ELSE STOP_STREAMING]

\* Faulty variant of MainStop: the second sendFrame is forgotten.
MainStopOnce(k) ==
    /\ mpc = "stopRsf" /\ k = 0
    /\ \E r \in SendResults(On(msock), FALSE) :
          Transmit(On(msock), StopFrame(0), r)
    /\ mpc' = "shutdown"
    /\ UNCHANGED <<ok, status, msock, spc, rxVars, txVars, pairVars, run, sock, fdTable, socks,
                   boxVars>>

\* The two sendFrame calls of spelClientClose; their results are ignored.
MainStop(k) ==
    /\ mpc = IF k = 0 THEN "stopRsf" ELSE "stopStreaming"
    /\ \E r \in SendResults(On(msock), FALSE) :
          Transmit(On(msock), StopFrame(k), r)
    /\ mpc' = IF k = 0 THEN "stopStreaming" ELSE "shutdown"
    /\ UNCHANGED <<ok, status, msock, spc, rxVars, txVars, pairVars, run, sock, fdTable, socks,
                   boxVars>>

\* Faulty variant of MainShutdown: the descriptor is only closed.
MainNoShutdown ==
    /\ mpc = "shutdown"
    /\ mpc' = "close"
    /\ UNCHANGED <<ok, status, msock, spc, rxVars, txVars, pairVars, run, netVars,
                   wire, boxVars>>

\* The destructor reads sock_ anew for shutdown and for close.
MainShutdown ==
    /\ mpc = "shutdown"
    /\ Shutdown(sock)
    /\ mpc' = "close"
    /\ UNCHANGED <<ok, status, msock, spc, rxVars, txVars, pairVars, run, wire,
                   boxVars>>

MainClose ==
    /\ mpc = "close"
    /\ Close(sock)
    /\ mpc' = "join"
    /\ UNCHANGED <<ok, status, msock, spc, rxVars, txVars, pairVars, run, wire,
                   boxVars>>

MainJoin ==
    /\ mpc = "join" /\ spc = "done"
    /\ status' = "exit0"
    /\ UNCHANGED <<ok, mainVars, spc, rxVars, txVars, pairVars, run, netVars, wire,
                   boxVars>>

-----------------------------------------------------------------------------
(* The supervisor: spelClientLoop *)

\* Faulty variants of FreshLocals: the counter, or the stamps, outlive the
\* connection, as they would as members of the node.
SeqOutlives    == prev' = [ch \in Channels |-> 0] /\ job' = 0 /\ UNCHANGED seq
StampsOutlive  == seq' = 0 /\ job' = 0 /\ UNCHANGED prev

\* The pair of threads for the present socket.  What tx keeps about the
\* mailboxes and its sequence numbers are locals of spelClientTxLoop.
FreshLocals ==
    /\ prev' = [ch \in Channels |-> 0]
    /\ seq' = 0
    /\ job' = 0

SupSpawn ==
    /\ spc = "loop" /\ ok
    /\ spc' = "joinRx"
    /\ rpc' = "check" /\ rxOn' = 0
    /\ tpc' = "start1"
    /\ tsock' = sock /\ sess' = socks
    /\ FreshLocals
    /\ UNCHANGED <<ok, status, mainVars, run, netVars, wire, boxVars>>

SupEnds ==
    /\ spc = "loop" /\ ~ok
    /\ spc' = "done"
    /\ UNCHANGED <<ok, status, mainVars, rxVars, txVars, pairVars, run, netVars,
                   wire, boxVars>>

\* Faulty variant of Joined: the thread is detached.
Detached(pc) == TRUE

Joined(pc) == pc = "done"

SupJoinRx ==
    /\ spc = "joinRx" /\ Joined(rpc)
    /\ run' = FALSE
    /\ spc' = "joinTx"
    /\ UNCHANGED <<ok, status, mainVars, rxVars, txVars, pairVars, netVars, wire,
                   boxVars>>

SupJoinTx ==
    /\ spc = "joinTx" /\ Joined(tpc)
    /\ spc' = IF ok THEN "shut" ELSE "loop"
    /\ UNCHANGED <<ok, status, mainVars, rxVars, txVars, pairVars, run, netVars,
                   wire, boxVars>>

\* cleanupSocket
SupShut ==
    /\ spc = "shut"
    /\ Shutdown(sock)
    /\ spc' = "close"
    /\ UNCHANGED <<ok, status, mainVars, rxVars, txVars, pairVars, run, wire,
                   boxVars>>

SupClose ==
    /\ spc = "close"
    /\ Close(sock)
    /\ spc' = "socket"
    /\ UNCHANGED <<ok, status, mainVars, rxVars, txVars, pairVars, run, wire,
                   boxVars>>

\* setupSocket
SupSocket ==
    /\ spc = "socket"
    /\ OpenSocket
    /\ spc' = "connect"
    /\ UNCHANGED <<ok, status, mainVars, rxVars, txVars, pairVars, run, wire,
                   boxVars>>

SupConnect ==
    /\ spc = "connect"
    /\ \/ /\ Connected
          /\ run' = TRUE /\ spc' = "loop"
          /\ UNCHANGED status
       \/ /\ status' = "exit1"
          /\ UNCHANGED <<run, spc, link>>
    /\ UNCHANGED <<ok, mainVars, rxVars, txVars, pairVars, sock, fdTable, socks,
                   wire, boxVars>>

-----------------------------------------------------------------------------
(* The receive thread: spelClientRxLoop.  Module SpelRx models what it does *)
(* with the frames.                                                         *)

\* Faulty variant of KeepGoing: rclcpp::ok() is not tested.
KeepGoingAnyway == run

KeepGoing == run /\ ok

RxCheck ==
    /\ rpc = "check"
    /\ IF KeepGoing THEN rpc' = "recv" /\ rxOn' = On(tsock)
                    ELSE rpc' = "exit" /\ UNCHANGED rxOn
    /\ UNCHANGED <<ok, status, mainVars, spc, txVars, pairVars, run, netVars, wire,
                   boxVars>>

\* A frame that keeps the loop going: DATA (parsed or not), ACK, WARN, unknown
RxFrame ==
    /\ rpc = "recv" /\ rxOn # 0 /\ link[rxOn] = "up"
    /\ rpc' = "check" /\ rxOn' = 0
    /\ UNCHANGED <<ok, status, mainVars, spc, txVars, pairVars, run, netVars, wire,
                   boxVars>>

\* An ERROR frame, or one that recvFrame rejects (head, length, CRC)
RxBreak ==
    /\ rpc = "recv" /\ rxOn # 0 /\ link[rxOn] = "up"
    /\ socks < MaxSocks
    /\ rpc' = "exit" /\ rxOn' = 0
    /\ UNCHANGED <<ok, status, mainVars, spc, txVars, pairVars, run, netVars, wire,
                   boxVars>>

\* Nothing tells recv() that anything is wrong.
Quiet(c) == link[c] \in {"up", "mute", "lost"}

\* Faulty variant of RxFail: every failure is taken for EINTR and tried again.
RxRetry ==
    /\ rpc = "recv" /\ rxOn \in {0} \cup {c \in Conns : ~Quiet(c)}
    /\ rpc' = "check" /\ rxOn' = 0
    /\ UNCHANGED <<ok, status, mainVars, spc, txVars, pairVars, run, netVars, wire,
                   boxVars>>

\* recv returns 0 or an error: the peer's FIN or RST, a shutdown here, EBADF
RxFail ==
    /\ rpc = "recv" /\ rxOn \in {0} \cup {c \in Conns : ~Quiet(c)}
    /\ rpc' = "exit" /\ rxOn' = 0
    /\ UNCHANGED <<ok, status, mainVars, spc, txVars, pairVars, run, netVars, wire,
                   boxVars>>

RxExit ==
    /\ rpc = "exit"
    /\ run' = FALSE
    /\ rpc' = "done"
    /\ UNCHANGED <<ok, status, mainVars, spc, rxOn, txVars, pairVars, netVars, wire,
                   boxVars>>

-----------------------------------------------------------------------------
(* The transmit thread: spelClientTxLoop *)

TxFrame(ch, sub, id) ==
    [by |-> "tx", ch |-> ch, sub |-> sub, seq |-> seq, id |-> id]

\* START_STREAMING and START_RSF; the results of sendFrame are ignored.
TxStart(from, sub, to) ==
    /\ tpc = from
    /\ \E r \in SendResults(On(tsock), ~ok) :
          Transmit(On(tsock), TxFrame("ctl", sub, 0), r)
    /\ seq' = seq + 1
    /\ tpc' = to
    /\ UNCHANGED <<ok, status, mainVars, spc, rxVars, prev, job, pairVars, run,
                   sock, fdTable, socks, boxVars>>

\* The test of the loop, and the sleep of a second that follows it
TxCheck ==
    /\ tpc = "check"
    /\ tpc' = IF KeepGoing THEN "pollCmd" ELSE "exit"
    /\ UNCHANGED <<ok, status, mainVars, spc, rxVars, prev, job, seq, pairVars, run,
                   netVars, wire, boxVars>>

\* Faulty variant of Updated: any message is new, as if prev stayed 0.
UpdatedAlways(ch) == slot[ch].stamp # 0

Updated(ch)  == slot[ch].stamp # prev[ch]
Sendable(ch) == ch = "cmd" \/ (slot[ch].id > 0 /\ pub[ch][slot[ch].id] \in ValidIps)

\* The critical section on a mailbox.  An address that Ipv4StringToUint32
\* rejects is taken and dropped.
TxPoll(ch, from, send, next) ==
    /\ tpc = from
    /\ IF Updated(ch)
       THEN /\ prev' = [prev EXCEPT ![ch] = slot[ch].stamp]
            /\ job' = slot[ch].id
            /\ tpc' = IF Sendable(ch) THEN send ELSE next
       ELSE /\ tpc' = next
            /\ UNCHANGED <<prev, job>>
    /\ UNCHANGED <<ok, status, mainVars, spc, rxVars, seq, pairVars, run, netVars,
                   wire, boxVars>>

\* Faulty variant of Subtype: an unknown command goes out as it is.
SubtypeVerbatim(ch, id) == IF ch = "ip" THEN SET_IP_ADDRESS ELSE pub[ch][id]

Subtype(ch, id) ==
    IF ch = "ip" THEN SET_IP_ADDRESS
    ELSE IF pub[ch][id] \in START_STREAMING..RESET_RSF THEN pub[ch][id] ELSE 0

\* sendFrame for the message taken.  The counter moves even when it fails.
TxSend(ch, from, next) ==
    /\ tpc = from
    /\ \E r \in SendResults(On(tsock), ~ok) :
          /\ Transmit(On(tsock), TxFrame(ch, Subtype(ch, job), job), r)
          /\ IF r = "failed" THEN tpc' = "exit" ELSE tpc' = next
    /\ seq' = seq + 1
    /\ UNCHANGED <<ok, status, mainVars, spc, rxVars, prev, job, pairVars, run,
                   sock, fdTable, socks, boxVars>>

TxExit ==
    /\ tpc = "exit"
    /\ run' = FALSE
    /\ tpc' = "done"
    /\ UNCHANGED <<ok, status, mainVars, spc, rxVars, prev, job, seq, pairVars,
                   netVars, wire, boxVars>>

-----------------------------------------------------------------------------
(* The environment: the device at the other end, and SIGINT *)

PeerCloses(c) ==
    /\ link[c] = "up" /\ socks < MaxSocks
    /\ link' = [link EXCEPT ![c] = "fin"]
    /\ UNCHANGED <<ok, status, mainVars, spc, rxVars, txVars, pairVars, run, sock,
                   fdTable, socks, wire, boxVars>>

PeerResets(c) ==
    /\ link[c] \in {"up", "fin"} /\ socks < MaxSocks
    /\ link' = [link EXCEPT ![c] = "rst"]
    /\ UNCHANGED <<ok, status, mainVars, spc, rxVars, txVars, pairVars, run, sock,
                   fdTable, socks, wire, boxVars>>

\* Power or cable fails: no FIN, no RST, and no answer any more.  Nothing in the
\* code asks for keepalives or sets a timeout.
PeerVanishes(c) ==
    /\ Vanish /\ link[c] = "up" /\ socks < MaxSocks
    /\ link' = [link EXCEPT ![c] = "mute"]
    /\ UNCHANGED <<ok, status, mainVars, spc, rxVars, txVars, pairVars, run, sock,
                   fdTable, socks, wire, boxVars>>

\* The kernel ends a connection on which retransmissions find no answer.
GiveUp(c) ==
    /\ link[c] = "lost"
    /\ link' = [link EXCEPT ![c] = "rst"]
    /\ UNCHANGED <<ok, status, mainVars, spc, rxVars, txVars, pairVars, run, sock,
                   fdTable, socks, wire, boxVars>>

\* The signal handler of rclcpp sets a flag, and a thread of rclcpp then shuts
\* the context down, which spin and ok() see.  The two are one step here: no
\* send() fails with EINTR while ok() is still true.
Sigint ==
    /\ ok /\ mpc \notin {"socket", "connect"}
    /\ ok' = FALSE
    /\ UNCHANGED <<status, mainVars, spc, rxVars, txVars, pairVars, run, netVars,
                   wire, boxVars>>

-----------------------------------------------------------------------------
MainStep == \/ MainSocket \/ MainConnect \/ MainSpinReturns
            \/ MainStop(0) \/ MainStop(1)
            \/ MainShutdown \/ MainClose \/ MainJoin

SupStep  == \/ SupSpawn \/ SupEnds \/ SupJoinRx \/ SupJoinTx
            \/ SupShut \/ SupClose \/ SupSocket \/ SupConnect

RxLocal  == RxCheck \/ RxFail \/ RxExit

TxStep   == \/ TxStart("start1", START_STREAMING, "start2")
            \/ TxStart("start2", START_RSF, "check")
            \/ TxCheck
            \/ TxPoll("cmd", "pollCmd", "sendCmd", "pollIp")
            \/ TxSend("cmd", "sendCmd", "pollIp")
            \/ TxPoll("ip", "pollIp", "sendIp", "check")
            \/ TxSend("ip", "sendIp", "check")
            \/ TxExit

User     == \E ch \in Channels : Callback(ch)
Kernel   == \E c \in Conns : GiveUp(c)
Device   == \/ RxFrame \/ RxBreak \/ Kernel
            \/ \E c \in Conns : PeerCloses(c) \/ PeerResets(c) \/ PeerVanishes(c)

\* The process has ended; nothing is left to run.
Terminated == status # "up" /\ UNCHANGED vars

Next == \/ /\ status = "up"
           /\ MainStep \/ SupStep \/ RxLocal \/ TxStep \/ User \/ Device \/ Sigint
        \/ Terminated

Spec == Init /\ [][Next]_vars

\* The operating system schedules every thread that can run, and its timer of
\* retransmissions expires.  Nothing obliges the device, the publishers of
\* commands or the user to do anything.
Fairness == /\ WF_vars(status = "up" /\ MainStep)
            /\ WF_vars(status = "up" /\ SupStep)
            /\ WF_vars(status = "up" /\ RxLocal)
            /\ WF_vars(status = "up" /\ TxStep)
            /\ WF_vars(status = "up" /\ Kernel)

FairSpec == Spec /\ Fairness

-----------------------------------------------------------------------------
(* Properties *)

TypeControl ==
    /\ ok \in BOOLEAN /\ run \in BOOLEAN
    /\ status \in {"up", "exit0", "exit1"}
    /\ mpc \in {"socket", "connect", "spin", "stopRsf", "stopStreaming",
               "shutdown", "close", "join"}
    /\ spc \in {"off", "loop", "joinRx", "joinTx", "shut", "close", "socket",
               "connect", "done"}
    /\ rpc \in {"off", "check", "recv", "exit", "done"}
    /\ tpc \in {"off", "start1", "start2", "check", "pollCmd", "sendCmd",
               "pollIp", "sendIp", "exit", "done"}

TypeSockets ==
    /\ sock \in Fds \cup {NoFd} /\ msock \in Fds \cup {NoFd}
    /\ tsock \in Fds \cup {NoFd}
    /\ socks \in 0..MaxSocks /\ sess \in 0..MaxSocks /\ rxOn \in 0..MaxSocks
    /\ fdTable \in [Fds -> 0..MaxSocks]
    /\ link \in [Conns -> {"none", "new", "up", "mute", "lost", "fin", "rst", "shut"}]

TypeMessages ==
    /\ slot \in [Channels -> Mail]
    /\ pub \in [Channels -> Seq(CmdValues \cup IpValues)]
    /\ prev \in [Channels -> Nat]
    /\ clock \in Nat /\ job \in Nat /\ seq \in Nat

TypeWires == wire \in [Conns -> Seq(Frame)]

\* The shape of the state.
TypeOK == TypeControl /\ TypeSockets /\ TypeMessages /\ TypeWires

Live(pc) == pc \notin {"off", "done"}

\* A receive or transmit thread that still runs never works on a connection
\* other than the one it was started for: its descriptor names that one, or
\* nothing once the destructor has closed it.  The descriptor number is used
\* again by the next socket(), so this rests on the two joins.
ThreadsOnOwnConnection ==
    Live(rpc) \/ Live(tpc) =>
        \/ On(tsock) = sess
        \/ On(tsock) = 0 /\ mpc = "join"

\* Why: who runs when, and which socket is open when.  These are inductive
\* together, and ThreadsOnOwnConnection follows from the first two.
ThreadPhases ==
    /\ mpc \in {"socket", "connect"} <=> spc = "off"
    /\ ~ok => mpc \notin {"socket", "connect"}
    /\ mpc \notin {"socket", "connect", "spin"} => ~ok
    /\ Live(rpc) => spc = "joinRx"
    /\ Live(tpc) => spc \in {"joinRx", "joinTx"}

OwnSocket ==
    /\ spc \in {"joinRx", "joinTx"} =>
           /\ tsock = sock /\ sess = socks
           /\ On(sock) = socks \/ (On(sock) = 0 /\ mpc = "join")
    /\ (spc = "loop" /\ ok) \/ (spc = "connect" /\ ok) \/ mpc = "connect"
           => On(sock) = socks

OnlyNewest ==
    /\ \A f \in Fds : fdTable[f] # 0 => f = sock /\ fdTable[f] = socks
    /\ spc = "socket" \/ mpc = "socket" => \A f \in Fds : fdTable[f] = 0
    /\ mpc # "socket" => socks > 0

SocketsInv == ThreadPhases /\ OwnSocket /\ OnlyNewest

\* On a connection the frames of a topic go out in the order of publication,
\* none twice; a later connection never carries an older publication than an
\* earlier one did, whatever was lost, sent again or overwritten in between.
OrderedDelivery ==
    \A c, d \in Conns : \A i \in DOMAIN wire[c], j \in DOMAIN wire[d] :
        wire[c][i].ch = wire[d][j].ch /\ wire[c][i].ch # "ctl" =>
            /\ c = d /\ i < j => wire[c][i].id < wire[d][j].id
            /\ c < d => wire[c][i].id <= wire[d][j].id

\* Why: nothing is on a wire that was not published, a connection is fresh until
\* its threads start, tx knows the stamp of what it sent on the connection it is
\* on, and a message in its hand is newer than all that went out there.
NothingEarly ==
    /\ \A c \in Conns : \A i \in DOMAIN wire[c] :
          /\ c <= socks
          /\ \A ch \in Channels : wire[c][i].ch = ch => wire[c][i].id <= slot[ch].id
    /\ \A ch \in Channels : slot[ch].id = 0 => slot[ch].stamp = 0 /\ prev[ch] = 0

FreshConnection ==
    (spc = "loop" /\ ok) \/ (spc = "connect" /\ ok) \/ mpc = "connect" =>
        \A i \in DOMAIN wire[socks] : wire[socks][i].ch = "ctl"

Stamped ==
    Live(tpc) =>
        \A ch \in Channels, i \in DOMAIN wire[socks] :
            wire[socks][i].ch = ch /\ wire[socks][i].id = slot[ch].id
                => prev[ch] = slot[ch].stamp

Sending(ch) == IF ch = "cmd" THEN "sendCmd" ELSE "sendIp"

InHand ==
    \A ch \in Channels : tpc = Sending(ch) =>
        /\ job \in 1..slot[ch].id
        /\ job = slot[ch].id => prev[ch] = slot[ch].stamp
        /\ \A c \in Conns : \A i \in DOMAIN wire[c] :
              wire[c][i].ch = ch =>
                  wire[c][i].id <= job /\ (c = socks => wire[c][i].id < job)

DeliveryInv == NothingEarly /\ FreshConnection /\ Stamped /\ InHand /\ OrderedDelivery

\* As long as no signal arrived, every connection begins with START_STREAMING
\* and START_RSF, and the frames on it are numbered from 0 without a gap.
GaplessSession ==
    ok => \A c \in Conns : \A i \in DOMAIN wire[c] :
              /\ wire[c][i].seq = i - 1
              /\ i = 1 => wire[c][i].sub = START_STREAMING
              /\ i = 2 => wire[c][i].sub = START_RSF

\* The places of the frames of a topic on the wires, with their publications
Told(ch) == UNION {{<<c, i, wire[c][i].id>> :
                        i \in {k \in DOMAIN wire[c] : wire[c][k].ch = ch}} : c \in Conns}

Heard(c, ch) == {p[3] : p \in {q \in Told(ch) : q[1] = c}}

\* When tx, back at the mailbox, takes it for handled, the message in it went
\* out on this very connection, or the connection is lost: a reconnection
\* never swallows a command.  (With a clock that moves between callbacks.)
HandledMeansSent ==
    \A ch \in Channels :
        /\ tpc = IF ch = "cmd" THEN "pollCmd" ELSE "pollIp"
        /\ slot[ch].id > 0 /\ ~Updated(ch) /\ Sendable(ch)
        => slot[ch].id \in Heard(sess, ch) \/ link[sess] # "up"

\* The places of the frames of tx from place i on
Behind(c, i) == {j \in i..Len(wire[c]) : wire[c][j].by = "tx"}

\* The destructor writes its STOP frames on a descriptor that tx may be using.
\* At most two frames of tx follow the first STOP frame on a connection.
BoundedOvertake ==
    \A c \in Conns : \A i \in DOMAIN wire[c] :
        wire[c][i].by = "main" => Cardinality(Behind(c, i)) <= 2

\* If the threads still serve a live connection when the destructor is about
\* to shut it down, STOP_RSF and then STOP_STREAMING are on it.
StopDelivered ==
    mpc = "shutdown" /\ spc = "joinRx" /\ link[sess] = "up" =>
        \E i, j \in DOMAIN wire[sess] :
            /\ i < j
            /\ wire[sess][i] = StopFrame(0)
            /\ wire[sess][j] = StopFrame(1)

\* Why those four hold, and the next one.  A connection in use is an established
\* one until something ends it, and the shutdown of the destructor does.
Reached ==
    /\ spc \in {"loop", "joinRx", "joinTx"} => link[socks] # "new"
    /\ mpc \in {"close", "join"} /\ spc \in {"joinRx", "joinTx"} => link[socks] # "up"

\* As long as no signal arrived, a connection in preparation carries nothing, and
\* on one that is up the counter of tx is the number of frames sent.
Numbered ==
    ok => /\ spc \in {"loop", "connect"} \/ mpc = "connect" => wire[socks] = <<>>
          /\ Live(tpc) /\ link[sess] = "up" =>
                /\ seq = Len(wire[sess])
                /\ tpc = "start1" <=> seq = 0
                /\ tpc = "start2" <=> seq = 1

\* What the stamp takes for handled is heard, or is in the hand of tx.
Settled(ch) ==
    /\ Live(tpc) /\ tpc # "exit"
    /\ slot[ch].id > 0 /\ ~Updated(ch) /\ Sendable(ch)
    => \/ slot[ch].id \in Heard(sess, ch) \/ link[sess] # "up"
       \/ tpc = Sending(ch) /\ job = slot[ch].id

\* With a clock that moves, two publications never bear the same stamp.
Handled ==
    StrictClock => \A ch \in Channels :
        /\ prev[ch] <= clock /\ slot[ch].stamp <= clock
        /\ slot[ch].id > 0 => slot[ch].stamp > 0
        /\ Settled(ch)

\* How many frames tx may still send once ok is FALSE
Left(pc) == CASE pc \in {"start1", "pollCmd", "sendCmd"} -> 2
              [] pc \in {"start2", "pollIp", "sendIp"}   -> 1
              [] OTHER                                   -> 0

Overtaking ==
    \A c \in Conns : \A i \in DOMAIN wire[c] :
        wire[c][i].by = "main" => ~ok /\ Cardinality(Behind(c, i)) + Left(tpc) <= 2

\* While rx runs, the destructor stops the very connection the threads serve.
Stopping ==
    spc = "joinRx" =>
        /\ mpc \in {"stopRsf", "stopStreaming"} => msock = sock
        /\ mpc = "stopStreaming" /\ link[sess] = "up" =>
              \E i \in DOMAIN wire[sess] : wire[sess][i] = StopFrame(0)

SessionInv == Reached /\ Numbered /\ Handled /\ Overtaking /\ Stopping

\* Nothing is sent any more once the destructor has shut the socket down.
QuietAfterShutdown == [][(mpc \in {"close", "join"}) => wire' = wire]_vars

\* A command that is the last one published reaches every connection that
\* stays up while no signal arrives: one already open, and one opened later.
LatestReachesEveryConnection ==
    \A ch \in Channels : \A n \in 1..MaxPubs[ch], c \in Conns :
        (slot[ch].id = n /\ Sendable(ch) /\ sess = c /\ link[c] = "up")
            ~> \/ n \in Heard(c, ch)
               \/ slot[ch].id > n \/ link[c] # "up" \/ ~ok

\* SIGINT ends the process: main, the supervisor, rx blocked in recv and tx
\* find their way through shutdown, close and the joins in every order.  A send()
\* that blocks is outside the model (SendResults); exit(1) is an end as well.
SigintEnds == ~ok ~> status # "up"

\* A connection that the device ended, or on which something was sent after it fell
\* silent, is given up for a new one, or the process ends; the threads of the old
\* one never linger.
LostConnectionReplaced ==
    \A c \in Conns :
        (sess = c /\ link[c] \in {"lost", "fin", "rst"}) ~> (socks > c \/ status # "up")

\* The node implements CommandRelay: what the device was told is what is on
\* the wires, the session is the newest socket.
Relay == INSTANCE CommandRelay WITH
            Topics <- Channels, MaxSession <- MaxSocks,
            latest <- [ch \in Channels |-> slot[ch].id],
            session <- socks,
            traffic <- IF socks = 0 THEN 0 ELSE Len(wire[socks]),
            told <- [ch \in Channels |-> Told(ch)]

ImplementsRelay == Relay!RelaySpec

-----------------------------------------------------------------------------
(* What documents say of the code, and the code does not do *)

\* README.md: command 5 is "equivalent to sending 4 and 3 in succession".  So
\* a 3 published right after a 4 should not reach a device without the 4.
ResetPairKept ==
    \A c \in Conns : \A n \in Heard(c, "cmd") :
        n > 1 /\ pub["cmd"][n] = START_RSF /\ pub["cmd"][n - 1] = STOP_RSF
            => \E d \in 1..c : n - 1 \in Heard(d, "cmd")

\* spnet_utils.hpp: Header.seq is for "request/response correlation".  So two
\* requests on one connection should not bear the same number.
SeqCorrelates ==
    \A c \in Conns : \A i, j \in DOMAIN wire[c] :
        wire[c][i].seq = wire[c][j].seq => i = j

=============================================================================
