-------------------------- MODULE SpelClientProofs --------------------------
(***************************************************************************)
(* Proofs about SpelClient, for every value of its constants.              *)
(***************************************************************************)
EXTENDS SpelClient, TLAPS

-----------------------------------------------------------------------------
(* Type correctness, part by part *)

LEMMA TypeInit == Init => TypeOK
BY BoundAssumption
   DEF Init, TypeOK, TypeControl, TypeSockets, TypeMessages, TypeWires,
       Conns, Channels, Mail, NoFd

\* The main thread keeps the program counters and flags in their ranges.
LEMMA ControlMain == TypeControl /\ MainStep => TypeControl'
<1>1. TypeControl /\ (MainSocket \/ MainConnect \/ MainSpinReturns) => TypeControl'
  BY DEF TypeControl, MainSocket, MainConnect, MainSpinReturns, rxVars, txVars
<1>2. TypeControl /\ (MainStop(0) \/ MainStop(1)) => TypeControl'
  BY DEF TypeControl, MainStop, rxVars, txVars
<1>3. TypeControl /\ (MainShutdown \/ MainClose \/ MainJoin) => TypeControl'
  BY DEF TypeControl, MainShutdown, MainClose, MainJoin, mainVars, rxVars, txVars
<1> QED
  BY <1>1, <1>2, <1>3 DEF MainStep

\* So does the supervisor,
LEMMA ControlSup == TypeControl /\ SupStep => TypeControl'
BY DEF TypeControl, SupStep, SupSpawn, SupEnds, SupJoinRx, SupJoinTx, SupShut,
       SupClose, SupSocket, SupConnect, mainVars, rxVars, txVars

\* the receive thread,
LEMMA ControlRx == TypeControl /\ (RxLocal \/ RxFrame \/ RxBreak) => TypeControl'
BY DEF TypeControl, RxLocal, RxCheck, RxFail, RxExit, RxFrame, RxBreak, mainVars,
       txVars

\* the transmit thread,
LEMMA ControlTx == TypeControl /\ TxStep => TypeControl'
BY DEF TypeControl, TxStep, TxStart, TxCheck, TxPoll, TxSend, TxExit, mainVars,
       rxVars

\* and what comes from outside.
LEMMA ControlEnvironment == TypeControl /\ (User \/ Device \/ Sigint) => TypeControl'
<1>1. TypeControl /\ User => TypeControl'
  BY DEF TypeControl, User, Callback, mainVars, rxVars, txVars
<1>2. ASSUME TypeControl, Sigint PROVE TypeControl'
  <2>1. ok' \in BOOLEAN /\ run' = run
    BY <1>2 DEF Sigint
  <2>2. UNCHANGED <<status, mpc, spc, rpc, tpc>>
    BY <1>2 DEF Sigint, mainVars, rxVars, txVars
  <2> QED
    BY <1>2, <2>1, <2>2 DEF TypeControl
<1>3. TypeControl /\ Device => TypeControl'
  BY ControlRx DEF TypeControl, Device, PeerCloses, PeerResets,
                   PeerVanishes, Kernel, GiveUp, mainVars, rxVars, txVars
<1> QED
  BY <1>1, <1>2, <1>3

\* A descriptor names a connection or nothing.
LEMMA OnType ==
    ASSUME TypeSockets, NEW f
    PROVE  On(f) \in 0..MaxSocks
BY BoundAssumption DEF TypeSockets, On

Links == [Conns -> {"none", "new", "up", "mute", "lost", "fin", "rst", "shut"}]

\* What the operations on sockets leave behind is a state of the sockets.
LEMMA OpenType ==
    ASSUME TypeSockets, OpenSocket
    PROVE  /\ sock' \in Fds \cup {NoFd} /\ socks' \in 0..MaxSocks
           /\ fdTable' \in [Fds -> 0..MaxSocks] /\ link' \in Links
<1>1. PICK f \in Fds : /\ sock' = f
                       /\ fdTable' = [fdTable EXCEPT ![f] = socks + 1]
  BY DEF OpenSocket
<1>2. socks + 1 \in 0..MaxSocks /\ socks' = socks + 1
  BY BoundAssumption DEF TypeSockets, OpenSocket
<1>3. link' \in Links
  BY DEF TypeSockets, OpenSocket, Links
<1> QED
  BY <1>1, <1>2, <1>3 DEF TypeSockets

\* connect() leaves the sockets well typed,
LEMMA ConnectedType ==
    ASSUME TypeSockets, Connected
    PROVE  link' \in Links
<1>1. CASE link' = [link EXCEPT ![socks] = "up"]
  BY <1>1 DEF TypeSockets, Links
<1>2. CASE link' = [link EXCEPT ![socks] = link[socks]]
  BY <1>2 DEF TypeSockets, Links
<1> QED
  BY <1>1, <1>2 DEF Connected

\* shutdown() does,
LEMMA ShutdownType ==
    ASSUME TypeSockets, NEW f, Shutdown(f)
    PROVE  link' \in Links /\ UNCHANGED <<sock, fdTable, socks>>
BY DEF TypeSockets, Shutdown, Links

\* and close() does.
LEMMA CloseType ==
    ASSUME TypeSockets, NEW f, Close(f)
    PROVE  /\ fdTable' \in [Fds -> 0..MaxSocks] /\ link' \in Links
           /\ UNCHANGED <<sock, socks>>
<1>1. UNCHANGED <<sock, socks>>
  BY DEF Close
<1>2. fdTable' = fdTable \/ fdTable' = [fdTable EXCEPT ![f] = 0]
  BY DEF Close
<1>3. link' = link \/ link' = [link EXCEPT ![On(f)] = "shut"]
  BY DEF Close
<1>4. fdTable' \in [Fds -> 0..MaxSocks]
  BY <1>2, BoundAssumption DEF TypeSockets
<1>5. link' \in Links
  BY <1>3 DEF TypeSockets, Links
<1> QED
  BY <1>1, <1>4, <1>5

\* So do the frames that sendFrame sends.
LEMMA TransmitType ==
    ASSUME TypeSockets, NEW c, NEW f, NEW r, Transmit(c, f, r)
    PROVE  link' \in Links
<1>1. link' = link \/ link' = [link EXCEPT ![c] = "lost"]
  BY DEF Transmit
<1> QED
  BY <1>1 DEF TypeSockets, Links

\* The main thread leaves the sockets well typed,
LEMMA SocketsMain == TypeSockets /\ MainStep => TypeSockets'
<1> SUFFICES ASSUME TypeSockets, MainStep PROVE TypeSockets'
  OBVIOUS
<1>1. CASE MainSocket
  BY <1>1, OpenType DEF MainSocket, TypeSockets, Links, rxVars, pairVars
<1>2. CASE MainConnect
  BY <1>2, ConnectedType DEF MainConnect, TypeSockets, Links, rxVars, pairVars
<1>3. CASE MainSpinReturns \/ MainJoin
  BY <1>3 DEF MainSpinReturns, MainJoin, TypeSockets, mainVars, rxVars, pairVars, netVars
<1>6. CASE MainStop(0) \/ MainStop(1)
  BY <1>6, TransmitType DEF MainStop, TypeSockets, Links, rxVars, pairVars
<1>4. CASE MainShutdown
  BY <1>4, ShutdownType DEF MainShutdown, TypeSockets, Links, rxVars, pairVars
<1>5. CASE MainClose
  BY <1>5, CloseType DEF MainClose, TypeSockets, Links, rxVars, pairVars
<1> QED
  BY <1>1, <1>2, <1>3, <1>4, <1>5, <1>6 DEF MainStep

\* and the supervisor does,
LEMMA SocketsSup == TypeSockets /\ SupStep => TypeSockets'
<1> SUFFICES ASSUME TypeSockets, SupStep PROVE TypeSockets'
  OBVIOUS
<1>1. CASE SupSpawn \/ SupEnds \/ SupJoinRx \/ SupJoinTx
  BY <1>1, BoundAssumption
  DEF SupSpawn, SupEnds, SupJoinRx, SupJoinTx, TypeSockets, mainVars, rxVars,
      pairVars, netVars
<1>2. CASE SupShut
  BY <1>2, ShutdownType DEF SupShut, TypeSockets, Links, mainVars, rxVars, pairVars
<1>3. CASE SupClose
  BY <1>3, CloseType DEF SupClose, TypeSockets, Links, mainVars, rxVars, pairVars
<1>4. CASE SupSocket
  BY <1>4, OpenType DEF SupSocket, TypeSockets, Links, mainVars, rxVars, pairVars
<1>5. CASE SupConnect
  BY <1>5, ConnectedType DEF SupConnect, TypeSockets, Links, mainVars, rxVars, pairVars
<1> QED
  BY <1>1, <1>2, <1>3, <1>4, <1>5 DEF SupStep

\* and all others do.
LEMMA SocketsThreads ==
    TypeSockets /\ (RxLocal \/ TxStep \/ User \/ Device \/ Sigint)
        => TypeSockets'
<1> SUFFICES ASSUME TypeSockets, RxLocal \/ TxStep \/ User \/ Device \/ Sigint
             PROVE  TypeSockets'
  OBVIOUS
<1>1. CASE RxCheck
  <2>1. rxOn' \in 0..MaxSocks
    BY <1>1, OnType DEF RxCheck, TypeSockets
  <2> QED
    BY <1>1, <2>1 DEF RxCheck, TypeSockets, mainVars, pairVars, netVars
<1>2. CASE RxFail \/ RxExit \/ RxFrame \/ RxBreak
  BY <1>2, BoundAssumption
  DEF RxFail, RxExit, RxFrame, RxBreak, TypeSockets, mainVars, pairVars, netVars
<1>3. CASE TxStep
  <2>1. ASSUME NEW from, NEW sub, NEW to, TxStart(from, sub, to)
        PROVE  TypeSockets'
    BY <2>1, TransmitType DEF TxStart, TypeSockets, Links, mainVars, rxVars, pairVars
  <2>2. ASSUME NEW ch, NEW from, NEW to, TxSend(ch, from, to)
        PROVE  TypeSockets'
    BY <2>2, TransmitType DEF TxSend, TypeSockets, Links, mainVars, rxVars, pairVars
  <2>3. ASSUME \/ TxCheck \/ TxExit
               \/ TxPoll("cmd", "pollCmd", "sendCmd", "pollIp")
               \/ TxPoll("ip", "pollIp", "sendIp", "check")
        PROVE  TypeSockets'
    BY <2>3 DEF TxCheck, TxPoll, TxExit, TypeSockets, mainVars, rxVars, pairVars, netVars
  <2> QED
    BY <1>3, <2>1, <2>2, <2>3 DEF TxStep
<1>4. CASE User \/ Sigint
  BY <1>4
  DEF User, Callback, Sigint, TypeSockets, mainVars, rxVars, pairVars, netVars
<1>5. CASE \E c \in Conns : \/ PeerCloses(c) \/ PeerResets(c)
                            \/ PeerVanishes(c) \/ GiveUp(c)
  BY <1>5 DEF PeerCloses, PeerResets, PeerVanishes, GiveUp, TypeSockets, mainVars, rxVars,
              pairVars
<1> QED
  BY <1>1, <1>2, <1>3, <1>4, <1>5 DEF RxLocal, Device, Kernel

\* A callback leaves mailboxes and publications well typed,
LEMMA MessagesUser == TypeMessages /\ User => TypeMessages'
<1> SUFFICES ASSUME TypeMessages, NEW ch \in Channels, Callback(ch)
             PROVE  TypeMessages'
  BY DEF User
<1>1. PICK v \in Values[ch], t \in Stamps :
          /\ pub' = [pub EXCEPT ![ch] = Append(@, v)]
          /\ slot' = [slot EXCEPT ![ch] = [id |-> slot[ch].id + 1, stamp |-> t]]
          /\ clock' = t
  BY DEF Callback
<1>2. v \in CmdValues \cup IpValues
  BY DEF Values
<1>3. t \in Nat
  BY DEF Stamps, TypeMessages
<1>4. pub[ch] \in Seq(CmdValues \cup IpValues)
  BY DEF TypeMessages
<1>5. /\ Append(pub[ch], v) \in Seq(CmdValues \cup IpValues)
      /\ slot[ch].id + 1 \in Nat
  BY <1>2, <1>4 DEF TypeMessages, Mail
<1>6. pub' \in [Channels -> Seq(CmdValues \cup IpValues)]
  BY <1>1, <1>5 DEF TypeMessages
<1>7. slot' \in [Channels -> Mail]
  BY <1>1, <1>3, <1>5 DEF TypeMessages, Mail
<1> QED
  BY <1>1, <1>3, <1>6, <1>7 DEF TypeMessages, Callback, txVars

\* and the transmit thread does,
LEMMA MessagesTx == TypeMessages /\ TxStep => TypeMessages'
<1>1. ASSUME TypeMessages, NEW ch \in Channels, NEW a, NEW b, NEW c, TxPoll(ch, a, b, c)
      PROVE  TypeMessages'
  BY <1>1 DEF TxPoll, TypeMessages, Mail, boxVars
<1>2. ASSUME TypeMessages, NEW a, NEW b, NEW c,
             TxStart(a, b, c) \/ TxSend(a, b, c) \/ TxCheck \/ TxExit
      PROVE  TypeMessages'
  BY <1>2 DEF TxStart, TxSend, TxCheck, TxExit, TypeMessages, boxVars
<1> QED
  BY <1>1, <1>2 DEF TxStep, Channels

\* and all others do.
LEMMA MessagesOthers ==
    TypeMessages /\ (MainStep \/ SupStep \/ RxLocal \/ Device \/ Sigint)
        => TypeMessages'
<1>1. TypeMessages /\ MainStep => TypeMessages'
  BY DEF MainStep, MainSocket, MainConnect, MainSpinReturns, MainStop, MainShutdown,
         MainClose, MainJoin, TypeMessages, txVars, boxVars
<1>2. TypeMessages /\ SupStep => TypeMessages'
  BY DEF SupStep, SupSpawn, FreshLocals, SupEnds, SupJoinRx, SupJoinTx, SupShut,
         SupClose, SupSocket, SupConnect, TypeMessages, txVars, boxVars
<1>3. TypeMessages /\ (RxLocal \/ Device \/ Sigint) => TypeMessages'
  BY DEF RxLocal, RxCheck, RxFail, RxExit, Device, RxFrame, RxBreak, PeerCloses,
         PeerResets, PeerVanishes, Kernel, GiveUp, Sigint, TypeMessages, txVars, boxVars
<1> QED
  BY <1>1, <1>2, <1>3

\* What sendFrame does to the wires: it may add one frame at the end of the
\* wire of an established connection, and does nothing else.
Sends(c, f) == /\ c \in Conns /\ link[c] = "up"
               /\ wire' = [wire EXCEPT ![c] = Append(@, f)]

\* Transmit adds the frame to a wire or leaves all wires as they are.
LEMMA TransmitEffect ==
    ASSUME NEW c \in 0..MaxSocks, NEW f, NEW b,
           NEW r \in SendResults(c, b), Transmit(c, f, r)
    PROVE  wire' = wire \/ Sends(c, f)
BY BoundAssumption DEF Transmit, SendResults, Sends, Conns

\* A subtype is a command the protocol knows, or 0.
LEMMA SubtypeType ==
    ASSUME NEW ch, NEW id
    PROVE  Subtype(ch, id) \in 0..6
BY DEF Subtype, SET_IP_ADDRESS, START_STREAMING, RESET_RSF

\* The frames that are ever sent, and where
LEMMA WireSteps ==
    ASSUME TypeSockets, TypeMessages, Next
    PROVE  \/ wire' = wire
           \/ \E k \in {0, 1} :
                 /\ MainStop(k)
                 /\ Sends(On(msock), StopFrame(k))
           \/ \E from, to, sub :
                 /\ TxStart(from, sub, to) /\ sub \in {START_STREAMING, START_RSF}
                 /\ from \in {"start1", "start2"}
                 /\ Sends(On(tsock), TxFrame("ctl", sub, 0))
           \/ \E ch \in Channels : \E from, to :
                 /\ TxSend(ch, from, to)
                 /\ from = IF ch = "cmd" THEN "sendCmd" ELSE "sendIp"
                 /\ Sends(On(tsock), TxFrame(ch, Subtype(ch, job), job))
<1>1. MainStep => \/ wire' = wire
                  \/ \E k \in {0, 1} : MainStop(k) /\ Sends(On(msock), StopFrame(k))
  <2>1. ASSUME NEW k \in {0, 1}, MainStop(k)
        PROVE  wire' = wire \/ Sends(On(msock), StopFrame(k))
    BY <2>1, OnType, TransmitEffect DEF MainStop
  <2> QED
    BY <2>1 DEF MainStep, MainSocket, MainConnect, MainSpinReturns, MainShutdown,
                MainClose, MainJoin, netVars
<1>2. SupStep \/ RxLocal \/ User \/ Device \/ Sigint \/ Terminated => wire' = wire
  BY DEF SupStep, SupSpawn, SupEnds, SupJoinRx, SupJoinTx, SupShut, SupClose,
         SupSocket, SupConnect, RxLocal, RxCheck, RxFail, RxExit, User, Callback,
         Device, RxFrame, RxBreak, PeerCloses, PeerResets,
         PeerVanishes, Kernel, GiveUp, Sigint, Terminated, vars
<1>3. ASSUME NEW from, NEW sub, NEW to, TxStart(from, sub, to)
      PROVE  wire' = wire \/ Sends(On(tsock), TxFrame("ctl", sub, 0))
  BY <1>3, OnType, TransmitEffect DEF TxStart
<1>4. ASSUME NEW ch, NEW from, NEW to, TxSend(ch, from, to)
      PROVE  wire' = wire \/ Sends(On(tsock), TxFrame(ch, Subtype(ch, job), job))
  BY <1>4, OnType, TransmitEffect DEF TxSend
<1>5. TxCheck \/ TxExit \/ (\E ch, a, b, c : TxPoll(ch, a, b, c)) => wire' = wire
  BY DEF TxCheck, TxExit, TxPoll
<1>6. CASE TxStart("start1", START_STREAMING, "start2")
  BY <1>3, <1>6
<1>7. CASE TxStart("start2", START_RSF, "check")
  BY <1>3, <1>7
<1>8. CASE TxSend("cmd", "sendCmd", "pollIp")
  BY <1>4, <1>8 DEF Channels
<1>9. CASE TxSend("ip", "sendIp", "check")
  BY <1>4, <1>9 DEF Channels
<1> QED
  BY <1>1, <1>2, <1>5, <1>6, <1>7, <1>8, <1>9 DEF Next, TxStep

\* Every wire stays a sequence of frames.
LEMMA SendsType ==
    ASSUME TypeWires, NEW c, NEW f \in Frame, Sends(c, f)
    PROVE  TypeWires'
<1>1. wire[c] \in Seq(Frame)
  BY DEF Sends, TypeWires
<1>2. Append(wire[c], f) \in Seq(Frame)
  BY <1>1
<1> QED
  BY <1>2 DEF Sends, TypeWires

\* The frames the threads make are frames.
LEMMA FrameTypes ==
    ASSUME TypeMessages
    PROVE  /\ \A k \in {0, 1} : StopFrame(k) \in Frame
           /\ \A sub \in {START_STREAMING, START_RSF} : TxFrame("ctl", sub, 0) \in Frame
           /\ \A ch \in Channels : TxFrame(ch, Subtype(ch, job), job) \in Frame
<1>1. \A k \in {0, 1} : StopFrame(k) \in Frame
  BY DEF StopFrame, Frame, STOP_RSF, STOP_STREAMING
<1>2. \A sub \in {START_STREAMING, START_RSF} : TxFrame("ctl", sub, 0) \in Frame
  BY DEF TxFrame, Frame, TypeMessages, START_STREAMING, START_RSF
<1>3. \A ch \in Channels : TxFrame(ch, Subtype(ch, job), job) \in Frame
  BY SubtypeType DEF TxFrame, Frame, TypeMessages
<1> QED
  BY <1>1, <1>2, <1>3

\* Every step keeps the shape of the state.
LEMMA TypeStep == TypeOK /\ [Next]_vars => TypeOK'
<1> SUFFICES ASSUME TypeOK, [Next]_vars PROVE TypeOK'
  OBVIOUS
<1>1. CASE UNCHANGED vars
  BY <1>1
  DEF vars, mainVars, rxVars, txVars, pairVars, netVars, boxVars, TypeOK, TypeControl,
      TypeSockets, TypeMessages, TypeWires
<1>2. ASSUME Next, ~UNCHANGED vars PROVE TypeOK'
  <2>1. MainStep \/ SupStep \/ RxLocal \/ TxStep \/ User \/ Device \/ Sigint
    BY <1>2 DEF Next, Terminated
  <2>2. TypeControl'
    BY <2>1, ControlMain, ControlSup, ControlRx, ControlTx, ControlEnvironment DEF TypeOK
  <2>3. TypeSockets'
    BY <2>1, SocketsMain, SocketsSup, SocketsThreads DEF TypeOK
  <2>4. TypeMessages'
    BY <2>1, MessagesUser, MessagesTx, MessagesOthers DEF TypeOK
  <2>5. TypeWires'
    <3>1. CASE wire' = wire
      BY <3>1 DEF TypeOK, TypeWires
    <3>2. ASSUME NEW c, NEW f \in Frame, Sends(c, f) PROVE TypeWires'
      BY <3>2, SendsType DEF TypeOK
    <3> QED
      BY <1>2, <3>1, <3>2, WireSteps, FrameTypes DEF TypeOK
  <2> QED
    BY <2>2, <2>3, <2>4, <2>5 DEF TypeOK
<1> QED
  BY <1>1, <1>2

\* Every reachable state has the shape TypeOK: no descriptor outside the table,
\* no connection beyond those created, and only well-formed frames on the wires.
THEOREM TypeCorrect == Spec => []TypeOK
BY TypeInit, TypeStep, PTL DEF Spec

-----------------------------------------------------------------------------
(* Threads and sockets *)

LEMMA SocketsInit == Init => SocketsInv
BY BoundAssumption DEF Init, SocketsInv, ThreadPhases, OwnSocket, OnlyNewest, Live, On, NoFd

\* The kernel's side: what the calls do to the table of descriptors
LEMMA OpenEffect ==
    ASSUME TypeSockets, OpenSocket, \A f \in Fds : fdTable[f] = 0
    PROVE  /\ sock' \in Fds /\ socks' = socks + 1 /\ socks' > 0
           /\ fdTable'[sock'] = socks'
           /\ \A f \in Fds : fdTable'[f] # 0 => f = sock' /\ fdTable'[f] = socks'
BY DEF OpenSocket, TypeSockets

\* What close() does to the table of descriptors.
LEMMA CloseEffect ==
    ASSUME TypeSockets, NEW g, Close(g)
    PROVE  /\ \A f \in Fds : fdTable'[f] = IF f = g THEN 0 ELSE fdTable[f]
           /\ UNCHANGED <<sock, socks>>
<1>1. CASE On(g) = 0
  BY <1>1 DEF Close, On
<1>2. CASE On(g) # 0
  BY <1>2 DEF Close, TypeSockets
<1> QED
  BY <1>1, <1>2

\* The main thread keeps phases and sockets in step,
LEMMA InvMain == TypeOK /\ SocketsInv /\ MainStep => SocketsInv'
<1> SUFFICES ASSUME TypeOK, SocketsInv, MainStep PROVE SocketsInv'
  OBVIOUS
<1> USE DEF TypeOK, SocketsInv
<1>1. CASE MainSocket
  <2>1. \A f \in Fds : fdTable[f] = 0
    BY <1>1 DEF MainSocket, OnlyNewest
  <2>2. ThreadPhases'
    BY <1>1 DEF MainSocket, ThreadPhases, rxVars, txVars
  <2>3. spc = "off" /\ spc' = "off" /\ mpc' = "connect"
    BY <1>1 DEF MainSocket, ThreadPhases
  <2>4. OwnSocket'
    BY <1>1, <2>1, <2>3, OpenEffect DEF MainSocket, OwnSocket, On
  <2>5. OnlyNewest'
    BY <1>1, <2>1, <2>3, OpenEffect DEF MainSocket, OnlyNewest
  <2> QED
    BY <2>2, <2>4, <2>5
<1>2. CASE MainConnect
  <2>1. ThreadPhases'
    BY <1>2 DEF MainConnect, ThreadPhases, Live, rxVars, txVars
  <2>2. OwnSocket'
    BY <1>2 DEF MainConnect, ThreadPhases, OwnSocket, On, pairVars
  <2>3. OnlyNewest'
    BY <1>2 DEF MainConnect, ThreadPhases, OnlyNewest
  <2> QED
    BY <2>1, <2>2, <2>3
<1>3. CASE MainSpinReturns \/ MainStop(0) \/ MainStop(1) \/ MainJoin
  <2>1. /\ UNCHANGED <<ok, spc, rpc, tpc, tsock, sess, sock, fdTable, socks>>
        /\ mpc \notin {"socket", "connect"} /\ mpc' \notin {"socket", "connect"}
        /\ ~ok
        /\ mpc = "join" => mpc' = "join"
    BY <1>3 DEF MainSpinReturns, MainStop, MainJoin, ThreadPhases, mainVars, rxVars,
                txVars, pairVars, netVars
  <2>2. ThreadPhases'
    BY <2>1 DEF ThreadPhases, Live
  <2>3. OwnSocket' /\ OnlyNewest'
    BY <2>1 DEF OwnSocket, OnlyNewest, On
  <2> QED
    BY <2>2, <2>3
<1>4. CASE MainShutdown
  <2>1. UNCHANGED <<sock, fdTable, socks>>
    BY <1>4, ShutdownType DEF MainShutdown
  <2>2. ThreadPhases'
    BY <1>4 DEF MainShutdown, ThreadPhases, Live, rxVars, txVars
  <2>3. OwnSocket' /\ OnlyNewest'
    BY <1>4, <2>1 DEF MainShutdown, OwnSocket, OnlyNewest, On, pairVars
  <2> QED
    BY <2>2, <2>3
<1>5. CASE MainClose
  <2>1. /\ \A f \in Fds : fdTable'[f] = IF f = sock THEN 0 ELSE fdTable[f]
        /\ UNCHANGED <<sock, socks>>
    BY <1>5, CloseEffect DEF MainClose
  <2>2. ThreadPhases' /\ ~ok' /\ mpc' = "join"
    BY <1>5 DEF MainClose, ThreadPhases, Live, rxVars, txVars
  <2>3. OwnSocket'
    BY <1>5, <2>1, <2>2 DEF MainClose, OwnSocket, On, pairVars
  <2>4. OnlyNewest'
    BY <1>5, <2>1, <2>2 DEF MainClose, OnlyNewest
  <2> QED
    BY <2>2, <2>3, <2>4
<1> QED
  BY <1>1, <1>2, <1>3, <1>4, <1>5 DEF MainStep

\* and the supervisor does.
LEMMA InvSup == TypeOK /\ SocketsInv /\ SupStep => SocketsInv'
<1> SUFFICES ASSUME TypeOK, SocketsInv, SupStep PROVE SocketsInv'
  OBVIOUS
<1> USE DEF TypeOK, SocketsInv
<1>1. CASE SupSpawn
  <2>1. ThreadPhases'
    BY <1>1 DEF SupSpawn, ThreadPhases, Live, mainVars
  <2>2. OwnSocket' /\ OnlyNewest'
    BY <1>1 DEF SupSpawn, OwnSocket, OnlyNewest, On, mainVars, netVars
  <2> QED
    BY <2>1, <2>2
<1>2. CASE SupEnds
  <2>1. ThreadPhases'
    BY <1>2 DEF SupEnds, ThreadPhases, Live, mainVars, rxVars, txVars
  <2>2. OwnSocket' /\ OnlyNewest'
    BY <1>2 DEF SupEnds, OwnSocket, OnlyNewest, On, mainVars, netVars, pairVars
  <2> QED
    BY <2>1, <2>2
<1>3. CASE SupJoinRx
  <2>1. ThreadPhases'
    BY <1>3 DEF SupJoinRx, Joined, ThreadPhases, Live, mainVars, rxVars, txVars
  <2>2. OwnSocket' /\ OnlyNewest'
    BY <1>3 DEF SupJoinRx, OwnSocket, OnlyNewest, On, mainVars, netVars, pairVars
  <2> QED
    BY <2>1, <2>2
<1>4. CASE SupJoinTx
  <2>1. ThreadPhases'
    BY <1>4 DEF SupJoinTx, Joined, ThreadPhases, Live, mainVars, rxVars, txVars
  <2>2. OwnSocket' /\ OnlyNewest'
    BY <1>4 DEF SupJoinTx, OwnSocket, OnlyNewest, On, mainVars, netVars, pairVars
  <2> QED
    BY <2>1, <2>2
<1>5. CASE SupShut
  <2>1. UNCHANGED <<sock, fdTable, socks>>
    BY <1>5, ShutdownType DEF SupShut
  <2>2. ThreadPhases'
    BY <1>5 DEF SupShut, ThreadPhases, Live, mainVars, rxVars, txVars
  <2>3. OwnSocket' /\ OnlyNewest'
    BY <1>5, <2>1 DEF SupShut, OwnSocket, OnlyNewest, On, mainVars, pairVars
  <2> QED
    BY <2>2, <2>3
<1>6. CASE SupClose
  <2>1. /\ \A f \in Fds : fdTable'[f] = IF f = sock THEN 0 ELSE fdTable[f]
        /\ UNCHANGED <<sock, socks>>
    BY <1>6, CloseEffect DEF SupClose
  <2>2. ThreadPhases' /\ mpc' = mpc /\ mpc # "connect" /\ spc' = "socket"
    BY <1>6 DEF SupClose, ThreadPhases, Live, mainVars, rxVars, txVars
  <2>3. OwnSocket'
    BY <2>2 DEF OwnSocket
  <2>4. OnlyNewest'
    BY <2>1, <2>2 DEF OnlyNewest
  <2> QED
    BY <2>2, <2>3, <2>4
<1>7. CASE SupSocket
  <2>1. \A f \in Fds : fdTable[f] = 0
    BY <1>7 DEF SupSocket, OnlyNewest
  <2>2. ThreadPhases' /\ mpc' = mpc /\ mpc \notin {"socket", "connect"} /\ spc' = "connect"
    BY <1>7 DEF SupSocket, ThreadPhases, Live, mainVars, rxVars, txVars
  <2>3. OwnSocket'
    BY <1>7, <2>1, <2>2, OpenEffect DEF SupSocket, OwnSocket, On
  <2>4. OnlyNewest'
    BY <1>7, <2>1, <2>2, OpenEffect DEF SupSocket, OnlyNewest
  <2> QED
    BY <2>2, <2>3, <2>4
<1>8. CASE SupConnect
  <2>1. ThreadPhases'
    BY <1>8 DEF SupConnect, ThreadPhases, Live, mainVars, rxVars, txVars
  <2>2. OwnSocket' /\ OnlyNewest'
    BY <1>8 DEF SupConnect, OwnSocket, OnlyNewest, On, mainVars, pairVars
  <2> QED
    BY <2>1, <2>2
<1> QED
  BY <1>1, <1>2, <1>3, <1>4, <1>5, <1>6, <1>7, <1>8 DEF SupStep

\* The threads, the publishers, the device and SIGINT leave the sockets alone.
LEMMA InvOthers ==
    TypeOK /\ SocketsInv /\ (RxLocal \/ TxStep \/ User \/ Device \/ Sigint)
        => SocketsInv'
<1> SUFFICES ASSUME TypeOK, SocketsInv, RxLocal \/ TxStep \/ User \/ Device \/ Sigint
             PROVE  SocketsInv'
  OBVIOUS
<1>1. /\ UNCHANGED <<mpc, spc, tsock, sess, sock, fdTable, socks>>
      /\ ok' = ok \/ (ok' = FALSE /\ mpc \notin {"socket", "connect"})
  <2>1. CASE RxLocal
    BY <2>1 DEF RxLocal, RxCheck, RxFail, RxExit, mainVars, pairVars, netVars
  <2>2. CASE TxStep
    BY <2>2 DEF TxStep, TxStart, TxCheck, TxPoll, TxSend, TxExit, mainVars, pairVars,
                netVars
  <2>3. CASE User
    BY <2>3 DEF User, Callback, mainVars, pairVars, netVars
  <2>4. CASE Device
    BY <2>4 DEF Device, RxFrame, RxBreak, PeerCloses, PeerResets,
                PeerVanishes, Kernel, GiveUp, mainVars, pairVars,
                netVars
  <2>5. CASE Sigint
    BY <2>5 DEF Sigint, mainVars, pairVars, netVars
  <2> QED
    BY <2>1, <2>2, <2>3, <2>4, <2>5
<1>2. Live(rpc)' => Live(rpc)
  BY DEF RxLocal, RxCheck, RxFail, RxExit, TxStep, TxStart, TxCheck, TxPoll, TxSend,
         TxExit, User, Callback, Device, RxFrame, RxBreak, PeerCloses, PeerResets,
         PeerVanishes, Kernel, GiveUp,
         Sigint, Live, rxVars
<1>3. Live(tpc)' => Live(tpc)
  BY DEF RxLocal, RxCheck, RxFail, RxExit, TxStep, TxStart, TxCheck, TxPoll, TxSend,
         TxExit, User, Callback, Device, RxFrame, RxBreak, PeerCloses, PeerResets,
         PeerVanishes, Kernel, GiveUp,
         Sigint, Live, txVars
<1>4. ThreadPhases'
  BY <1>1, <1>2, <1>3 DEF SocketsInv, ThreadPhases
<1>5. OwnSocket' /\ OnlyNewest'
  BY <1>1 DEF SocketsInv, OwnSocket, OnlyNewest, On
<1> QED
  BY <1>4, <1>5 DEF SocketsInv

\* Every step keeps phases and sockets in step.
LEMMA SocketsStep == TypeOK /\ SocketsInv /\ [Next]_vars => SocketsInv'
<1>1. SocketsInv /\ UNCHANGED vars => SocketsInv'
  BY DEF vars, mainVars, rxVars, txVars, pairVars, netVars, SocketsInv, ThreadPhases,
         OwnSocket, OnlyNewest, On, Live
<1> QED
  BY <1>1, InvMain, InvSup, InvOthers DEF Next, Terminated

\* Who runs when and which socket is open: in every reachable state.
THEOREM SocketsCorrect == Spec => []SocketsInv
<1>1. TypeOK /\ TypeOK' /\ SocketsInv /\ [Next]_vars => SocketsInv'
  BY SocketsStep
<1> QED
  BY SocketsInit, <1>1, TypeCorrect, PTL DEF Spec

\* The invariant of the sockets is enough.
LEMMA SocketsInvImplies == SocketsInv => ThreadsOnOwnConnection
BY DEF SocketsInv, ThreadPhases, OwnSocket, ThreadsOnOwnConnection, On

\* However often the number of a closed descriptor is used again, a thread that
\* still runs is never on a connection other than the one it was started for.
THEOREM ThreadsStayOnOwnConnection == Spec => []ThreadsOnOwnConnection
BY SocketsCorrect, SocketsInvImplies, PTL
=============================================================================
