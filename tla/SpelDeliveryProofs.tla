------------------------- MODULE SpelDeliveryProofs -------------------------
(***************************************************************************)
(* OrderedDelivery of SpelClient, for every value of its constants, and    *)
(* that SpelClient implements CommandRelay.                                *)
(***************************************************************************)
EXTENDS SpelClientProofs

\* Nothing was sent or published yet.
LEMMA DeliveryInit == Init => DeliveryInv
BY DEF Init, DeliveryInv, NothingEarly, FreshConnection, Stamped, InHand, Sending,
       OrderedDelivery, Live, Channels, Conns

\* The places on a wire, and the numbers of the frames there
LEMMA WireShape ==
    ASSUME TypeWires, NEW c \in Conns
    PROVE  /\ DOMAIN wire[c] = 1..Len(wire[c]) /\ Len(wire[c]) \in Nat
           /\ \A i \in DOMAIN wire[c] : wire[c][i].id \in Nat
<1>1. wire[c] \in Seq(Frame)
  BY DEF TypeWires
<1>2. \A i \in DOMAIN wire[c] : wire[c][i] \in Frame
  BY <1>1
<1>3. \A i \in DOMAIN wire[c] : wire[c][i].id \in Nat
  BY <1>2 DEF Frame
<1> QED
  BY <1>1, <1>3

-----------------------------------------------------------------------------
(* Steps that leave the wires as they are *)

\* Most steps change nothing that DeliveryInv speaks of, but for a thread that
\* moves on, or a step of the supervisor that does not prepare a new connection.
Neutral ==
    /\ UNCHANGED <<slot, prev, job, socks>>
    /\ Live(tpc)' => Live(tpc)
    /\ \A ch \in Channels : (tpc = Sending(ch))' => tpc = Sending(ch)
    /\ (((spc = "loop" /\ ok) \/ (spc = "connect" /\ ok) \/ mpc = "connect"))' =>
          ((spc = "loop" /\ ok) \/ (spc = "connect" /\ ok) \/ mpc = "connect")

\* A step that touches neither wires, mailboxes nor the hand of tx keeps it all.
LEMMA NeutralKeeps ==
    ASSUME DeliveryInv, Neutral, wire' = wire
    PROVE  DeliveryInv'
<1>1. NothingEarly'
  BY DEF DeliveryInv, Neutral, NothingEarly
<1>2. FreshConnection'
  BY DEF DeliveryInv, Neutral, FreshConnection
<1>3. Stamped'
  BY DEF DeliveryInv, Neutral, Stamped
<1>4. InHand'
  BY DEF DeliveryInv, Neutral, InHand
<1>5. OrderedDelivery'
  BY DEF DeliveryInv, OrderedDelivery
<1> QED
  BY <1>1, <1>2, <1>3, <1>4, <1>5 DEF DeliveryInv

\* Most steps of the main thread are of this kind,
LEMMA NeutralMain ==
    ASSUME SocketsInv, MainStep, ~MainSocket
    PROVE  Neutral
<1>1. CASE MainConnect
  BY <1>1 DEF MainConnect, Neutral, txVars, boxVars
<1>2. CASE MainSpinReturns \/ MainStop(0) \/ MainStop(1) \/ MainJoin
  <2>1. /\ UNCHANGED <<slot, prev, job, socks, tpc, spc, ok>>
        /\ mpc' \notin {"socket", "connect"}
    BY <1>2 DEF MainSpinReturns, MainStop, MainJoin, mainVars, txVars, boxVars, netVars
  <2> QED
    BY <2>1 DEF Neutral, Live
<1>3. CASE MainShutdown \/ MainClose
  BY <1>3 DEF MainShutdown, MainClose, Shutdown, Close, Neutral, txVars, boxVars
<1> QED
  BY <1>1, <1>2, <1>3 DEF MainStep

\* most of the supervisor,
LEMMA NeutralSup ==
    ASSUME TypeOK, SocketsInv, SupStep, ~SupSpawn, ~SupSocket
    PROVE  Neutral
<1>1. CASE SupEnds \/ SupJoinRx
  BY <1>1 DEF SupEnds, SupJoinRx, Neutral, mainVars, txVars, boxVars, netVars
<1>2. CASE SupJoinTx
  BY <1>2 DEF SupJoinTx, Neutral, mainVars, txVars, boxVars, netVars
<1>3. CASE SupShut \/ SupClose
  BY <1>3 DEF SupShut, SupClose, Shutdown, Close, Neutral, mainVars, txVars, boxVars
<1>4. CASE SupConnect
  BY <1>4 DEF SupConnect, Neutral, mainVars, txVars, boxVars
<1> QED
  BY <1>1, <1>2, <1>3, <1>4 DEF SupStep

\* those of rx and of the device, and the signal.
LEMMA NeutralEnvironment ==
    ASSUME RxLocal \/ Device \/ Sigint
    PROVE  Neutral
BY DEF RxLocal, RxCheck, RxFail, RxExit, Device, RxFrame, RxBreak, PeerCloses,
       PeerResets,
       PeerVanishes, Kernel, GiveUp, Sigint, Neutral, mainVars, txVars, boxVars, netVars

\* The steps of tx, but for what they put on the wire
LEMMA NeutralTx ==
    ASSUME \/ TxCheck \/ TxExit
           \/ TxStart("start1", START_STREAMING, "start2")
           \/ TxStart("start2", START_RSF, "check")
           \/ TxSend("cmd", "sendCmd", "pollIp")
           \/ TxSend("ip", "sendIp", "check")
    PROVE  Neutral
<1>1. CASE TxCheck \/ TxExit
  BY <1>1 DEF TxCheck, TxExit, Neutral, Live, Sending, mainVars, boxVars, netVars
<1>2. CASE TxStart("start1", START_STREAMING, "start2")
  BY <1>2 DEF TxStart, Neutral, Live, Sending, mainVars, boxVars, netVars
<1>3. CASE TxStart("start2", START_RSF, "check")
  BY <1>3 DEF TxStart, Neutral, Live, Sending, mainVars, boxVars, netVars
<1>4. CASE TxSend("cmd", "sendCmd", "pollIp")
  BY <1>4 DEF TxSend, Neutral, Live, Sending, mainVars, boxVars, netVars
<1>5. CASE TxSend("ip", "sendIp", "check")
  BY <1>5 DEF TxSend, Neutral, Live, Sending, mainVars, boxVars, netVars
<1> QED
  BY <1>1, <1>2, <1>3, <1>4, <1>5

\* A new socket is the number after the last one: nothing is on its wire.
LEMMA DeliveryOpen ==
    ASSUME TypeOK, DeliveryInv, SocketsInv, MainSocket \/ SupSocket
    PROVE  DeliveryInv'
<1>1. /\ UNCHANGED <<slot, prev, job, tpc, wire>>
      /\ socks' = socks + 1 /\ socks' \in Conns /\ socks \in Nat
  BY BoundAssumption
  DEF MainSocket, SupSocket, OpenSocket, TypeOK, TypeSockets, txVars, boxVars, Conns
<1>2. ~Live(tpc) /\ \A ch \in Channels : tpc # Sending(ch)
  BY DEF MainSocket, SupSocket, SocketsInv, ThreadPhases, Live, Sending
<1>3. \A i \in DOMAIN wire[socks'] : FALSE
  BY <1>1 DEF DeliveryInv, NothingEarly
<1>4. NothingEarly'
  BY <1>1 DEF DeliveryInv, NothingEarly, Conns
<1>5. FreshConnection'
  BY <1>1, <1>3 DEF FreshConnection
<1>6. Stamped'
  BY <1>1, <1>2 DEF Stamped, Live
<1>7. InHand'
  BY <1>1, <1>2 DEF InHand
<1>8. OrderedDelivery'
  BY <1>1 DEF DeliveryInv, OrderedDelivery
<1> QED
  BY <1>4, <1>5, <1>6, <1>7, <1>8 DEF DeliveryInv

\* The threads start on a fresh connection, so tx may know no stamp.
LEMMA DeliverySpawn ==
    ASSUME TypeOK, DeliveryInv, SupSpawn
    PROVE  DeliveryInv'
<1>1. /\ UNCHANGED <<slot, socks, wire, mpc>> /\ spc' = "joinRx"
      /\ prev' = [ch \in Channels |-> 0] /\ tpc' = "start1"
  BY DEF SupSpawn, FreshLocals, mainVars, boxVars, netVars
<1>2. \A i \in DOMAIN wire[socks] : wire[socks][i].ch = "ctl"
  BY DEF SupSpawn, DeliveryInv, FreshConnection
<1>3. NothingEarly'
  BY <1>1 DEF DeliveryInv, NothingEarly
<1>4. FreshConnection'
  BY <1>1, <1>2 DEF FreshConnection
<1>5. Stamped'
  BY <1>1, <1>2 DEF Stamped, Channels
<1>6. InHand'
  BY <1>1 DEF InHand, Sending
<1>7. OrderedDelivery'
  BY <1>1 DEF DeliveryInv, OrderedDelivery
<1> QED
  BY <1>3, <1>4, <1>5, <1>6, <1>7 DEF DeliveryInv

\* A publication gets a number that is on no wire.
LEMMA DeliveryUser ==
    ASSUME TypeOK, DeliveryInv, SocketsInv, NEW ch \in Channels, Callback(ch)
    PROVE  DeliveryInv'
<1>1. PICK t \in Stamps :
          slot' = [slot EXCEPT ![ch] = [id |-> slot[ch].id + 1, stamp |-> t]]
  BY DEF Callback
<1>2. /\ UNCHANGED <<prev, job, socks, wire, tpc, spc, ok, mpc>>
  BY DEF Callback, mainVars, txVars, netVars
<1>3. \A h \in Channels : slot[h].id \in Nat
  BY DEF TypeOK, TypeMessages, Mail
<1>4. \A h \in Channels :
         /\ h = ch => slot'[h].id = slot[h].id + 1
         /\ h # ch => slot'[h] = slot[h]
  BY <1>1 DEF TypeOK, TypeMessages
<1>5. \A c \in Conns : \A i \in DOMAIN wire[c] : wire[c][i].id \in Nat
  BY WireShape DEF TypeOK
<1>6. NothingEarly'
  BY <1>2, <1>3, <1>4, <1>5 DEF DeliveryInv, NothingEarly
<1>7. FreshConnection'
  BY <1>2 DEF DeliveryInv, FreshConnection
<1>8. Stamped'
  <2> SUFFICES ASSUME Live(tpc), NEW h \in Channels, NEW i \in DOMAIN wire[socks],
                      wire[socks][i].ch = h, wire[socks][i].id = slot'[h].id
               PROVE  prev[h] = slot'[h].stamp
    BY <1>2 DEF Stamped, Live
  <2>1. socks \in Conns
    BY DEF Callback, SocketsInv, OnlyNewest, TypeOK, TypeSockets, Conns
  <2> QED
    BY <2>1, <1>3, <1>4, <1>5 DEF DeliveryInv, NothingEarly, Stamped
<1>9. InHand'
  BY <1>2, <1>3, <1>4 DEF DeliveryInv, InHand, Sending
<1>10. OrderedDelivery'
  BY <1>2 DEF DeliveryInv, OrderedDelivery
<1> QED
  BY <1>6, <1>7, <1>8, <1>9, <1>10 DEF DeliveryInv

\* tx takes a message: it is newer than all that went out on the connection.
LEMMA DeliveryPoll ==
    ASSUME TypeOK, DeliveryInv, SocketsInv, NEW ch \in Channels, NEW from, NEW next,
           TxPoll(ch, from, Sending(ch), next),
           Live(from), Live(next), \A h \in Channels : next # Sending(h)
    PROVE  DeliveryInv'
<1>1. /\ UNCHANGED <<slot, socks, wire, spc, ok, mpc>> /\ Live(tpc)
  BY DEF TxPoll, mainVars, boxVars, netVars
<1>2. CASE ~Updated(ch)
  <2>1. Neutral
    BY <1>1, <1>2 DEF TxPoll, Neutral
  <2> QED
    BY <1>1, <2>1, NeutralKeeps
<1>3. CASE Updated(ch)
  <2>1. /\ prev' = [prev EXCEPT ![ch] = slot[ch].stamp] /\ job' = slot[ch].id
        /\ tpc' = Sending(ch) \/ tpc' = next
    BY <1>3 DEF TxPoll
  <2>2. /\ prev'[ch] = slot[ch].stamp
        /\ \A h \in Channels : h # ch => prev'[h] = prev[h]
    BY <2>1 DEF TypeOK, TypeMessages
  <2>3. slot[ch].id \in Nat /\ slot[ch].id # 0
    BY <1>3 DEF TypeOK, TypeMessages, Mail, DeliveryInv, NothingEarly, Updated
  <2>4. NothingEarly'
    BY <1>1, <2>2, <2>3 DEF DeliveryInv, NothingEarly
  <2>5. FreshConnection'
    BY <1>1 DEF DeliveryInv, FreshConnection
  <2>6. Stamped'
    BY <1>1, <2>2 DEF DeliveryInv, Stamped
  <2>7. InHand'
    <3>1. \A h \in Channels : tpc' = Sending(h) => h = ch
      BY <2>1 DEF Sending, Channels
    <3>2. \A c \in Conns : \A i \in DOMAIN wire[c] : wire[c][i].id \in Nat
      BY WireShape DEF TypeOK
    <3>3. \A c \in Conns : \A i \in DOMAIN wire[c] :
             wire[c][i].ch = ch =>
                 /\ wire[c][i].id <= slot[ch].id
                 /\ c = socks => wire[c][i].id < slot[ch].id
      BY <1>1, <1>3, <2>3, <3>2 DEF DeliveryInv, NothingEarly, Stamped, Updated
    <3> QED
      BY <1>1, <2>1, <2>2, <2>3, <3>1, <3>3 DEF InHand
  <2>8. OrderedDelivery'
    BY <1>1 DEF DeliveryInv, OrderedDelivery
  <2> QED
    BY <2>4, <2>5, <2>6, <2>7, <2>8 DEF DeliveryInv
<1> QED
  BY <1>2, <1>3

\* On either mailbox.
LEMMA DeliveryPolls ==
    ASSUME TypeOK, DeliveryInv, SocketsInv,
           \/ TxPoll("cmd", "pollCmd", "sendCmd", "pollIp")
           \/ TxPoll("ip", "pollIp", "sendIp", "check")
    PROVE  DeliveryInv'
<1>1. CASE TxPoll("cmd", "pollCmd", "sendCmd", "pollIp")
  BY <1>1, DeliveryPoll DEF Channels, Sending, Live
<1>2. CASE TxPoll("ip", "pollIp", "sendIp", "check")
  BY <1>2, DeliveryPoll DEF Channels, Sending, Live
<1> QED
  BY <1>1, <1>2

-----------------------------------------------------------------------------
(* Steps that send *)

\* What is on the wires after a frame was sent on c
LEMMA WireGrowth ==
    ASSUME TypeWires, NEW c, NEW f, Sends(c, f)
    PROVE  /\ c \in Conns /\ Len(wire[c]) \in Nat /\ DOMAIN wire[c] = 1..Len(wire[c])
           /\ \A d \in Conns : d # c => wire'[d] = wire[d]
           /\ DOMAIN wire'[c] = 1..(Len(wire[c]) + 1)
           /\ \A i \in 1..Len(wire[c]) : wire'[c][i] = wire[c][i]
           /\ wire'[c][Len(wire[c]) + 1] = f
<1>1. c \in Conns /\ wire[c] \in Seq(Frame) /\ wire'[c] = Append(wire[c], f)
  BY DEF Sends, TypeWires
<1>2. \A d \in Conns : d # c => wire'[d] = wire[d]
  BY DEF Sends, TypeWires
<1> QED
  BY <1>1, <1>2

\* A descriptor that is open names the newest connection, so frames go there.
LEMMA SendsOnNewest ==
    ASSUME TypeOK, SocketsInv, NEW g, NEW f, Sends(On(g), f)
    PROVE  On(g) = socks
BY DEF Sends, On, Conns, SocketsInv, OnlyNewest

\* A frame that stands for no publication disturbs nothing, unless the
\* connection must still be fresh; and then it is "ctl" too.
LEMMA ControlFrameKeeps ==
    ASSUME TypeOK, DeliveryInv, Neutral, NEW f, f.ch = "ctl", Sends(socks, f)
    PROVE  DeliveryInv'
<1>1. \A c \in Conns : \A i \in DOMAIN wire'[c] :
         \/ i \in DOMAIN wire[c] /\ wire'[c][i] = wire[c][i]
         \/ c = socks /\ wire'[c][i].ch = "ctl"
  BY WireGrowth DEF TypeOK
<1>2. socks \in Nat /\ \A ch \in Channels : ch # "ctl"
  BY DEF TypeOK, TypeSockets, Channels
<1>3. NothingEarly'
  BY <1>1, <1>2 DEF DeliveryInv, Neutral, NothingEarly
<1>4. FreshConnection'
  BY <1>1 DEF DeliveryInv, Neutral, FreshConnection, Sends
<1>5. Stamped'
  BY <1>1, <1>2 DEF DeliveryInv, Neutral, Stamped, Sends
<1>6. InHand'
  BY <1>1, <1>2 DEF DeliveryInv, Neutral, InHand
<1>7. OrderedDelivery'
  BY <1>1, <1>2 DEF DeliveryInv, OrderedDelivery
<1> QED
  BY <1>3, <1>4, <1>5, <1>6, <1>7 DEF DeliveryInv

\* The message in the hand of tx is newer than all that went out on the
\* connection, and not older than what went out on the others.
LEMMA UserFrameKeeps ==
    ASSUME TypeOK, SocketsInv, DeliveryInv, Neutral, NEW ch \in Channels,
           tpc = Sending(ch), Live(tpc), \A h \in Channels : tpc' # Sending(h),
           NEW sub, Sends(socks, TxFrame(ch, sub, job))
    PROVE  DeliveryInv'
<1>1. \A c \in Conns : \A i \in DOMAIN wire'[c] :
         \/ i \in DOMAIN wire[c] /\ wire'[c][i] = wire[c][i]
         \/ /\ c = socks /\ i = Len(wire[socks]) + 1
            /\ wire'[c][i].ch = ch /\ wire'[c][i].id = job
  BY WireGrowth DEF TypeOK, TxFrame
<1>2. /\ job \in 1..slot[ch].id
      /\ job = slot[ch].id => prev[ch] = slot[ch].stamp
      /\ \A c \in Conns : \A i \in DOMAIN wire[c] :
            wire[c][i].ch = ch =>
                wire[c][i].id <= job /\ (c = socks => wire[c][i].id < job)
  BY DEF DeliveryInv, InHand
<1>3. spc \in {"joinRx", "joinTx"} /\ mpc # "connect"
  BY DEF SocketsInv, ThreadPhases
<1>4. NothingEarly'
  <2>1. socks \in Nat /\ slot[ch].id \in Nat
    BY DEF TypeOK, TypeSockets, TypeMessages, Mail
  <2> QED
    BY <1>1, <1>2, <2>1 DEF DeliveryInv, Neutral, NothingEarly
<1>5. FreshConnection'
  BY <1>3 DEF Neutral, FreshConnection
<1>6. Stamped'
  BY <1>1, <1>2 DEF DeliveryInv, Neutral, Stamped, Sends
<1>7. InHand'
  BY DEF InHand
<1>8. OrderedDelivery'
  <2> SUFFICES ASSUME NEW c \in Conns, NEW d \in Conns,
                      NEW i \in DOMAIN wire'[c], NEW j \in DOMAIN wire'[d],
                      wire'[c][i].ch = wire'[d][j].ch, wire'[c][i].ch # "ctl"
               PROVE  /\ c = d /\ i < j => wire'[c][i].id < wire'[d][j].id
                      /\ c < d => wire'[c][i].id <= wire'[d][j].id
    BY DEF OrderedDelivery
  <2>1. /\ socks \in Conns /\ socks \in Nat
        /\ DOMAIN wire[socks] = 1..Len(wire[socks]) /\ Len(wire[socks]) \in Nat
    BY WireShape DEF TypeOK, TypeSockets, Sends
  <2>2. \A e \in Conns : \A k \in DOMAIN wire[e] : e <= socks
    BY DEF DeliveryInv, NothingEarly
  <2>3. CASE /\ i \in DOMAIN wire[c] /\ wire'[c][i] = wire[c][i]
             /\ j \in DOMAIN wire[d] /\ wire'[d][j] = wire[d][j]
    BY <2>3 DEF DeliveryInv, OrderedDelivery
  <2>4. CASE /\ i \in DOMAIN wire[c] /\ wire'[c][i] = wire[c][i]
             /\ d = socks /\ j = Len(wire[socks]) + 1
             /\ wire'[d][j].ch = ch /\ wire'[d][j].id = job
    BY <2>4, <1>2
  <2>5. CASE /\ c = socks /\ i = Len(wire[socks]) + 1 /\ wire'[c][i].id = job
             /\ j \in DOMAIN wire[d] /\ wire'[d][j] = wire[d][j]
    <3>1. d <= socks
      BY <2>2, <2>5
    <3>2. ~(c = d /\ i < j)
      BY <2>1, <2>5
    <3>3. ~(c < d)
      BY <2>5, <3>1 DEF Conns
    <3> QED
      BY <3>2, <3>3
  <2>6. CASE /\ c = socks /\ i = Len(wire[socks]) + 1
             /\ d = socks /\ j = Len(wire[socks]) + 1
    BY <2>1, <2>6
  <2> QED
    BY <1>1, <2>3, <2>4, <2>5, <2>6
<1> QED
  BY <1>4, <1>5, <1>6, <1>7, <1>8 DEF DeliveryInv

\* All steps of tx keep the order of delivery,
LEMMA DeliveryTx ==
    ASSUME TypeOK, SocketsInv, DeliveryInv, TxStep
    PROVE  DeliveryInv'
<1>1. CASE \/ TxPoll("cmd", "pollCmd", "sendCmd", "pollIp")
           \/ TxPoll("ip", "pollIp", "sendIp", "check")
  BY <1>1, DeliveryPolls
<1>2. CASE TxCheck \/ TxExit
  <2>1. wire' = wire
    BY <1>2 DEF TxCheck, TxExit
  <2> QED
    BY <1>2, <2>1, NeutralTx, NeutralKeeps
<1>3. CASE \/ TxStart("start1", START_STREAMING, "start2")
           \/ TxStart("start2", START_RSF, "check")
  <2>1. Neutral
    BY <1>3, NeutralTx
  <2>2. \E sub : wire' = wire \/ Sends(On(tsock), TxFrame("ctl", sub, 0))
    BY <1>3, OnType, TransmitEffect DEF TxStart, TypeOK
  <2> QED
    BY <2>1, <2>2, NeutralKeeps, SendsOnNewest, ControlFrameKeeps DEF TxFrame
<1>4. ASSUME NEW ch \in Channels, NEW next, TxSend(ch, Sending(ch), next), Neutral,
             Live(next), \A h \in Channels : next # Sending(h)
      PROVE  DeliveryInv'
  <2>1. wire' = wire \/ Sends(On(tsock), TxFrame(ch, Subtype(ch, job), job))
    BY <1>4, OnType, TransmitEffect DEF TxSend, TypeOK
  <2>2. tpc = Sending(ch) /\ Live(tpc) /\ \A h \in Channels : tpc' # Sending(h)
    BY <1>4 DEF TxSend, Live, Sending
  <2> QED
    BY <1>4, <2>1, <2>2, NeutralKeeps, SendsOnNewest, UserFrameKeeps
<1>5. CASE TxSend("cmd", "sendCmd", "pollIp")
  BY <1>4, <1>5, NeutralTx DEF Channels, Sending, Live
<1>6. CASE TxSend("ip", "sendIp", "check")
  BY <1>4, <1>6, NeutralTx DEF Channels, Sending, Live
<1> QED
  BY <1>1, <1>2, <1>3, <1>5, <1>6 DEF TxStep

\* those of the main thread do,
LEMMA DeliveryMain ==
    ASSUME TypeOK, SocketsInv, DeliveryInv, MainStep
    PROVE  DeliveryInv'
<1>1. CASE MainSocket
  BY <1>1, DeliveryOpen
<1>2. CASE ~MainSocket
  <2>1. Neutral
    BY <1>2, NeutralMain
  <2>2. CASE wire' = wire
    BY <2>1, <2>2, NeutralKeeps
  <2>3. ASSUME NEW k, Sends(On(msock), StopFrame(k)) PROVE DeliveryInv'
    BY <2>1, <2>3, SendsOnNewest, ControlFrameKeeps DEF StopFrame
  <2>4. wire' = wire \/ \E k : Sends(On(msock), StopFrame(k))
    BY OnType, TransmitEffect
    DEF MainStep, MainSocket, MainConnect, MainSpinReturns, MainStop, MainShutdown,
        MainClose, MainJoin, netVars, TypeOK
  <2> QED
    BY <2>2, <2>3, <2>4
<1> QED
  BY <1>1, <1>2

\* and those of the supervisor.
LEMMA DeliverySup ==
    ASSUME TypeOK, SocketsInv, DeliveryInv, SupStep
    PROVE  DeliveryInv'
<1>1. wire' = wire
  BY DEF SupStep, SupSpawn, SupEnds, SupJoinRx, SupJoinTx, SupShut, SupClose, SupSocket,
         SupConnect
<1> QED
  BY <1>1, DeliverySpawn, DeliveryOpen, NeutralSup, NeutralKeeps

\* Every step keeps the order of delivery.
LEMMA DeliveryStep ==
    ASSUME TypeOK, SocketsInv, DeliveryInv, [Next]_vars
    PROVE  DeliveryInv'
<1>1. CASE UNCHANGED vars
  <2>1. Neutral /\ wire' = wire
    BY <1>1 DEF vars, mainVars, txVars, netVars, boxVars, Neutral
  <2> QED
    BY <2>1, NeutralKeeps
<1>2. CASE RxLocal \/ Device \/ Sigint
  <2>1. wire' = wire
    BY <1>2 DEF RxLocal, RxCheck, RxFail, RxExit, Device, RxFrame, RxBreak, PeerCloses,
                PeerResets, PeerVanishes, Kernel, GiveUp, Sigint
  <2> QED
    BY <1>2, <2>1, NeutralEnvironment, NeutralKeeps
<1>3. CASE User
  BY <1>3, DeliveryUser DEF User
<1> QED
  BY <1>1, <1>2, <1>3, DeliveryMain, DeliverySup, DeliveryTx DEF Next, Terminated

\* The order of delivery, and why it holds, in every reachable state.
THEOREM DeliveryCorrect == Spec => []DeliveryInv
<1>1. TypeOK /\ SocketsInv /\ DeliveryInv /\ [Next]_vars => DeliveryInv'
  BY DeliveryStep
<1> QED
  BY DeliveryInit, <1>1, TypeCorrect, SocketsCorrect, PTL DEF Spec

\* Whatever was lost, sent again after a reconnection or overwritten in the
\* mailbox: the device never hears of publications in another order.
THEOREM DeliveryIsOrdered == Spec => []OrderedDelivery
<1>1. DeliveryInv => OrderedDelivery
  BY DEF DeliveryInv
<1> QED
  BY <1>1, DeliveryCorrect, PTL

-----------------------------------------------------------------------------
(* SpelClient implements CommandRelay *)

LEMMA ToldSame ==
    ASSUME wire' = wire, NEW h
    PROVE  Told(h)' = Told(h)
BY DEF Told

\* What it is to be told.
LEMMA ToldMember ==
    ASSUME NEW h, NEW p
    PROVE  p \in Told(h) <=>
               \E c \in Conns : \E i \in DOMAIN wire[c] :
                   wire[c][i].ch = h /\ p = <<c, i, wire[c][i].id>>
BY DEF Told

\* And in the next state.
LEMMA ToldMemberNext ==
    ASSUME NEW h, NEW p
    PROVE  p \in Told(h)' <=>
               \E c \in Conns : \E i \in DOMAIN wire'[c] :
                   wire'[c][i].ch = h /\ p = <<c, i, wire'[c][i].id>>
BY DEF Told

\* Sending a frame on c tells the device of its publication, at the next place
\* of that wire, and of nothing else.
LEMMA ToldGrowth ==
    ASSUME TypeWires, NEW c, NEW f, Sends(c, f), NEW h
    PROVE  Told(h)' = IF f.ch = h THEN Told(h) \cup {<<c, Len(wire[c]) + 1, f.id>>}
                      ELSE Told(h)
<1>1. /\ c \in Conns /\ Len(wire[c]) \in Nat /\ DOMAIN wire[c] = 1..Len(wire[c])
      /\ \A d \in Conns : d # c => wire'[d] = wire[d]
      /\ DOMAIN wire'[c] = 1..(Len(wire[c]) + 1)
      /\ \A i \in 1..Len(wire[c]) : wire'[c][i] = wire[c][i]
      /\ wire'[c][Len(wire[c]) + 1] = f
  BY WireGrowth
<1>2. ASSUME NEW p \in Told(h) PROVE p \in Told(h)'
  <2>1. PICK d \in Conns : \E i \in DOMAIN wire[d] :
            wire[d][i].ch = h /\ p = <<d, i, wire[d][i].id>>
    BY <1>2, ToldMember
  <2>2. PICK i \in DOMAIN wire[d] :
            wire[d][i].ch = h /\ p = <<d, i, wire[d][i].id>>
    BY <2>1
  <2>3. i \in DOMAIN wire'[d] /\ wire'[d][i] = wire[d][i]
    BY <1>1, <2>2
  <2> QED
    BY <2>2, <2>3, ToldMemberNext
<1>3. f.ch = h => <<c, Len(wire[c]) + 1, f.id>> \in Told(h)'
  <2>1. Len(wire[c]) + 1 \in DOMAIN wire'[c]
    BY <1>1
  <2> QED
    BY <1>1, <2>1, ToldMemberNext
<1>4. ASSUME NEW p \in Told(h)', p \notin Told(h)
      PROVE  f.ch = h /\ p = <<c, Len(wire[c]) + 1, f.id>>
  <2>1. PICK d \in Conns : \E i \in DOMAIN wire'[d] :
            wire'[d][i].ch = h /\ p = <<d, i, wire'[d][i].id>>
    BY <1>4, ToldMemberNext
  <2>2. PICK i \in DOMAIN wire'[d] :
            wire'[d][i].ch = h /\ p = <<d, i, wire'[d][i].id>>
    BY <2>1
  <2>3. ~(i \in DOMAIN wire[d] /\ wire'[d][i] = wire[d][i])
    BY <1>4, <2>2, ToldMember
  <2>4. d = c /\ i = Len(wire[c]) + 1
    BY <1>1, <2>2, <2>3
  <2> QED
    BY <1>1, <2>2, <2>4
<1> QED
  BY <1>2, <1>3, <1>4

\* Initial states are initial states of CommandRelay.
LEMMA RelayInitially == Init => Relay!RelayInit
<1> SUFFICES ASSUME Init PROVE Relay!RelayInit
  OBVIOUS
<1>1. \A h : Told(h) = {}
  BY ToldMember DEF Init
<1> QED
  BY <1>1 DEF Init, Relay!RelayInit

\* A step that neither publishes, sends nor opens a socket is a stutter.
LEMMA RelayStutter ==
    ASSUME UNCHANGED <<slot, socks, wire>>
    PROVE  UNCHANGED Relay!relayVars
BY ToldSame DEF Relay!relayVars

\* A callback publishes.
LEMMA RelayPublish ==
    ASSUME TypeOK, NEW ch \in Channels, Callback(ch)
    PROVE  Relay!Publish(ch)
<1>1. PICK t \in Stamps :
          slot' = [slot EXCEPT ![ch] = [id |-> slot[ch].id + 1, stamp |-> t]]
  BY DEF Callback
<1>2. UNCHANGED <<socks, wire>>
  BY DEF Callback, netVars
<1>3. [h \in Channels |-> slot'[h].id]
          = [[h \in Channels |-> slot[h].id] EXCEPT ![ch] = @ + 1]
  BY <1>1 DEF TypeOK, TypeMessages
<1>4. \A h : Told(h)' = Told(h)
  BY <1>2, ToldSame
<1> QED
  BY <1>2, <1>3, <1>4 DEF Relay!Publish

\* socket() begins a session.
LEMMA RelayReconnect ==
    ASSUME TypeOK, DeliveryInv, MainSocket \/ SupSocket
    PROVE  Relay!Reconnect
<1>1. /\ UNCHANGED <<slot, wire>> /\ socks' = socks + 1 /\ socks < MaxSocks
      /\ socks' \in Conns /\ socks \in Nat
  BY BoundAssumption
  DEF MainSocket, SupSocket, OpenSocket, TypeOK, TypeSockets, boxVars, Conns
<1>2. Len(wire[socks']) = 0
  <2>1. \A i \in DOMAIN wire[socks'] : FALSE
    BY <1>1 DEF DeliveryInv, NothingEarly
  <2>2. DOMAIN wire[socks'] = 1..Len(wire[socks']) /\ Len(wire[socks']) \in Nat
    BY <1>1, WireShape DEF TypeOK
  <2>3. 1 \notin DOMAIN wire[socks']
    BY <2>1
  <2> QED
    BY <2>2, <2>3
<1>3. \A h : Told(h)' = Told(h)
  BY <1>1, ToldSame
<1> QED
  BY <1>1, <1>2, <1>3 DEF Relay!Reconnect

\* A START_* or STOP_* frame is control traffic.
LEMMA RelayControl ==
    ASSUME TypeOK, NEW f, f.ch = "ctl", Sends(socks, f), UNCHANGED <<slot, socks>>
    PROVE  Relay!Control
<1>1. /\ socks \in Conns /\ socks > 0 /\ Len(wire[socks]) \in Nat
      /\ Len(wire'[socks]) = Len(wire[socks]) + 1
  BY DEF Sends, TypeOK, TypeWires, Conns
<1>2. \A h \in Channels : Told(h)' = Told(h)
  BY ToldGrowth DEF TypeOK, Channels
<1> QED
  BY <1>1, <1>2 DEF Relay!Control

\* A frame for a publication tells of it.
LEMMA RelayTell ==
    ASSUME TypeOK, DeliveryInv, NEW ch \in Channels, tpc = Sending(ch),
           NEW f, f.ch = ch, f.id = job, Sends(socks, f), UNCHANGED <<slot, socks>>
    PROVE  Relay!Tell(ch, job) /\ job \in 1..slot[ch].id
<1>1. /\ socks \in Conns /\ socks > 0 /\ Len(wire[socks]) \in Nat
      /\ Len(wire'[socks]) = Len(wire[socks]) + 1
  BY DEF Sends, TypeOK, TypeWires, Conns
<1>2. job \in 1..slot[ch].id /\ job <= slot[ch].id
  BY DEF DeliveryInv, InHand, TypeOK, TypeMessages, Mail
<1>3. \A p \in Told(ch) : IF p[1] = socks THEN p[3] < job ELSE p[3] <= job
  BY ToldMember DEF DeliveryInv, InHand
<1>4. \A h : Told(h)' = IF h = ch THEN Told(h) \cup {<<socks, Len(wire[socks]) + 1, job>>}
                       ELSE Told(h)
  BY ToldGrowth DEF TypeOK
<1>5. [h \in Channels |-> Told(h)']
          = [[h \in Channels |-> Told(h)] EXCEPT
                ![ch] = @ \cup {<<socks, Len(wire[socks]) + 1, job>>}]
  BY <1>4
<1>6. [h \in Channels |-> slot'[h].id] = [h \in Channels |-> slot[h].id]
  OBVIOUS
<1>7. (IF socks' = 0 THEN 0 ELSE Len(wire'[socks']))
          = (IF socks = 0 THEN 0 ELSE Len(wire[socks])) + 1
  BY <1>1
<1>8. /\ [h \in Channels |-> slot[h].id][ch] = slot[ch].id
      /\ [h \in Channels |-> Told(h)][ch] = Told(ch)
      /\ socks' = socks
      /\ (IF socks = 0 THEN 0 ELSE Len(wire[socks])) + 1 = Len(wire[socks]) + 1
  BY <1>1
<1> QED
  BY <1>1, <1>2, <1>3, <1>5, <1>6, <1>7, <1>8 DEF Relay!Tell

\* Steps of tx are steps of CommandRelay or stutter,
LEMMA RelayTx ==
    ASSUME TypeOK, SocketsInv, DeliveryInv, TxStep
    PROVE  Relay!RelayNext \/ UNCHANGED Relay!relayVars
<1>1. UNCHANGED <<slot, socks>>
  BY DEF TxStep, TxStart, TxCheck, TxPoll, TxSend, TxExit, boxVars, netVars
<1>2. CASE wire' = wire
  BY <1>1, <1>2, RelayStutter
<1>3. ASSUME NEW sub, Sends(On(tsock), TxFrame("ctl", sub, 0))
      PROVE  Relay!RelayNext
  <2>1. Sends(socks, TxFrame("ctl", sub, 0)) /\ TxFrame("ctl", sub, 0).ch = "ctl"
    BY <1>3, SendsOnNewest DEF TxFrame
  <2> QED
    BY <1>1, <2>1, RelayControl DEF Relay!RelayNext
<1>4. ASSUME NEW ch \in Channels, tpc = Sending(ch), NEW sub,
             Sends(On(tsock), TxFrame(ch, sub, job))
      PROVE  Relay!RelayNext
  <2>1. /\ Sends(socks, TxFrame(ch, sub, job))
        /\ TxFrame(ch, sub, job).ch = ch /\ TxFrame(ch, sub, job).id = job
    BY <1>4, SendsOnNewest DEF TxFrame
  <2>2. Relay!Tell(ch, job) /\ job \in 1..slot[ch].id
    BY <1>1, <1>4, <2>1, RelayTell
  <2> QED
    BY <2>2 DEF Relay!RelayNext
<1>5. \/ wire' = wire
      \/ \E sub : Sends(On(tsock), TxFrame("ctl", sub, 0))
      \/ \E ch \in Channels : \E sub :
            tpc = Sending(ch) /\ Sends(On(tsock), TxFrame(ch, sub, job))
  <2>1. ASSUME NEW a, NEW sub, NEW b, TxStart(a, sub, b)
        PROVE  wire' = wire \/ Sends(On(tsock), TxFrame("ctl", sub, 0))
    BY <2>1, OnType, TransmitEffect DEF TxStart, TypeOK
  <2>2. ASSUME NEW ch, NEW a, NEW b, TxSend(ch, a, b)
        PROVE  /\ tpc = a
               /\ wire' = wire \/ Sends(On(tsock), TxFrame(ch, Subtype(ch, job), job))
    BY <2>2, OnType, TransmitEffect DEF TxSend, TypeOK
  <2>3. TxCheck \/ TxExit \/ (\E ch, a, b, c : TxPoll(ch, a, b, c)) => wire' = wire
    BY DEF TxCheck, TxExit, TxPoll
  <2> QED
    BY <2>1, <2>2, <2>3 DEF TxStep, Sending, Channels
<1> QED
  BY <1>2, <1>3, <1>4, <1>5

\* so are those of the main thread,
LEMMA RelayMain ==
    ASSUME TypeOK, SocketsInv, DeliveryInv, MainStep
    PROVE  Relay!RelayNext \/ UNCHANGED Relay!relayVars
<1>1. CASE MainSocket
  BY <1>1, RelayReconnect DEF Relay!RelayNext
<1>2. CASE ~MainSocket
  <2>1. UNCHANGED <<slot, socks>>
    BY <1>2, NeutralMain DEF Neutral
  <2>2. CASE wire' = wire
    BY <2>1, <2>2, RelayStutter
  <2>3. ASSUME NEW k, Sends(On(msock), StopFrame(k)) PROVE Relay!RelayNext
    <3>1. Sends(socks, StopFrame(k)) /\ StopFrame(k).ch = "ctl"
      BY <2>3, SendsOnNewest DEF StopFrame
    <3> QED
      BY <2>1, <3>1, RelayControl DEF Relay!RelayNext
  <2>4. wire' = wire \/ \E k : Sends(On(msock), StopFrame(k))
    BY OnType, TransmitEffect
    DEF MainStep, MainSocket, MainConnect, MainSpinReturns, MainStop, MainShutdown,
        MainClose, MainJoin, netVars, TypeOK
  <2> QED
    BY <2>2, <2>3, <2>4
<1> QED
  BY <1>1, <1>2

\* and those of the supervisor.
LEMMA RelaySup ==
    ASSUME TypeOK, SocketsInv, DeliveryInv, SupStep
    PROVE  Relay!RelayNext \/ UNCHANGED Relay!relayVars
<1>1. CASE SupSocket
  BY <1>1, RelayReconnect DEF Relay!RelayNext
<1>2. CASE SupSpawn
  <2>1. UNCHANGED <<slot, socks, wire>>
    BY <1>2 DEF SupSpawn, boxVars, netVars
  <2> QED
    BY <2>1, RelayStutter
<1>3. CASE ~SupSocket /\ ~SupSpawn
  <2>1. UNCHANGED <<slot, socks>>
    BY <1>3, NeutralSup DEF Neutral
  <2>2. wire' = wire
    BY DEF SupStep, SupSpawn, SupEnds, SupJoinRx, SupJoinTx, SupShut, SupClose, SupSocket,
           SupConnect
  <2> QED
    BY <2>1, <2>2, RelayStutter
<1> QED
  BY <1>1, <1>2, <1>3

\* Every step of SpelClient is one of CommandRelay, or changes nothing there.
LEMMA RelayStep ==
    ASSUME TypeOK, SocketsInv, DeliveryInv, [Next]_vars
    PROVE  [Relay!RelayNext]_(Relay!relayVars)
<1>1. CASE UNCHANGED vars
  <2>1. UNCHANGED <<slot, socks, wire>>
    BY <1>1 DEF vars, netVars, boxVars
  <2> QED
    BY <2>1, RelayStutter
<1>2. CASE RxLocal \/ Device \/ Sigint
  <2>1. UNCHANGED <<slot, socks, wire>>
    BY <1>2 DEF RxLocal, RxCheck, RxFail, RxExit, Device, RxFrame, RxBreak, PeerCloses,
                PeerResets, PeerVanishes, Kernel, GiveUp, Sigint, netVars, boxVars
  <2> QED
    BY <2>1, RelayStutter
<1>3. CASE User
  BY <1>3, RelayPublish DEF User, Relay!RelayNext
<1> QED
  BY <1>1, <1>2, <1>3, RelayMain, RelaySup, RelayTx DEF Next, Terminated

\* The node keeps what CommandRelay promises: every step of its threads is a
\* publication, a new connection, a control frame or a telling of something not
\* older than what was told, or is invisible.
THEOREM ClientImplementsRelay == Spec => ImplementsRelay
<1>1. TypeOK /\ SocketsInv /\ DeliveryInv /\ [Next]_vars
          => [Relay!RelayNext]_(Relay!relayVars)
  BY RelayStep
<1> QED
  BY RelayInitially, <1>1, TypeCorrect, SocketsCorrect, DeliveryCorrect, PTL
  DEF Spec, ImplementsRelay, Relay!RelaySpec

-----------------------------------------------------------------------------
(* What CommandRelay promises by itself, and so the node *)

\* The promise, in a state of CommandRelay: with l published and the session s of the
\* moment carrying n frames, d is what was told.
Promise(l, s, n, d) ==
    /\ l \in [Channels -> Nat] /\ s \in Nat /\ n \in Nat /\ DOMAIN d = Channels
    /\ \A t \in Channels : \A p \in d[t] :
          /\ p \in Nat \X Nat \X Nat
          /\ p[3] <= l[t] /\ p[1] <= s
          /\ p[1] = s => p[2] <= n
    /\ \A t \in Channels : \A p, q \in d[t] :
          /\ p[1] < q[1] => p[3] <= q[3]
          /\ p[1] = q[1] /\ p[2] < q[2] => p[3] < q[3]

\* A state of CommandRelay under the refinement mapping
RelayPromise == Promise([ch \in Channels |-> slot[ch].id], socks,
                        IF socks = 0 THEN 0 ELSE Len(wire[socks]),
                        [ch \in Channels |-> Told(ch)])

\* More may be published, another frame sent, a session begun.
LEMMA PromiseKept ==
    ASSUME NEW l, NEW s, NEW n, NEW d, Promise(l, s, n, d)
    PROVE  /\ \A t \in Channels : Promise([l EXCEPT ![t] = @ + 1], s, n, d)
           /\ Promise(l, s, n + 1, d)
           /\ Promise(l, s + 1, 0, d)
<1>1. /\ l \in [Channels -> Nat] /\ s \in Nat /\ n \in Nat /\ DOMAIN d = Channels
      /\ \A t \in Channels : \A p \in d[t] :
            /\ p \in Nat \X Nat \X Nat
            /\ p[3] <= l[t] /\ p[1] <= s
            /\ p[1] = s => p[2] <= n
      /\ \A t \in Channels : \A p, q \in d[t] :
            /\ p[1] < q[1] => p[3] <= q[3]
            /\ p[1] = q[1] /\ p[2] < q[2] => p[3] < q[3]
  BY DEF Promise
<1>2. ASSUME NEW t \in Channels, NEW p \in d[t]
      PROVE  p[1] \in Nat /\ p[2] \in Nat /\ p[3] \in Nat
  BY <1>1
<1>3. ASSUME NEW t \in Channels PROVE Promise([l EXCEPT ![t] = @ + 1], s, n, d)
  <2>. DEFINE m == [l EXCEPT ![t] = @ + 1]
  <2>1. m \in [Channels -> Nat] /\ \A u \in Channels : l[u] \in Nat /\ l[u] <= m[u]
    BY <1>1
  <2>. HIDE DEF m
  <2>2. ASSUME NEW u \in Channels, NEW p \in d[u] PROVE p[3] <= m[u]
    <3>1. p[3] <= l[u] /\ l[u] <= m[u] /\ p[3] \in Nat /\ l[u] \in Nat /\ m[u] \in Nat
      BY <1>1, <1>2, <2>1
    <3>. QED
      BY <3>1
  <2>3. Promise(m, s, n, d)
    BY <1>1, <2>1, <2>2 DEF Promise
  <2>. QED
    BY <2>3 DEF m
<1>4. Promise(l, s, n + 1, d)
  <2>1. ASSUME NEW u \in Channels, NEW p \in d[u], p[1] = s PROVE p[2] <= n + 1
    BY <1>1, <1>2, <2>1
  <2>. QED
    BY <1>1, <2>1 DEF Promise
<1>5. Promise(l, s + 1, 0, d)
  <2>1. ASSUME NEW u \in Channels, NEW p \in d[u]
        PROVE  p[1] <= s + 1 /\ p[1] # s + 1
    BY <1>1, <1>2
  <2>. QED
    BY <1>1, <2>1 DEF Promise
<1>. QED
  BY <1>3, <1>4, <1>5

LEMMA PromiseTold ==
    ASSUME NEW l, NEW s, NEW n, NEW d, Promise(l, s, n, d),
           NEW t \in Channels, NEW k \in 1 .. l[t],
           \A p \in d[t] : IF p[1] = s THEN p[3] < k ELSE p[3] <= k
    PROVE  Promise(l, s, n + 1, [d EXCEPT ![t] = @ \cup {<<s, n + 1, k>>}])
<1>. DEFINE new == <<s, n + 1, k>>
            e == [d EXCEPT ![t] = @ \cup {new}]
<1>1. /\ l \in [Channels -> Nat] /\ s \in Nat /\ n \in Nat /\ DOMAIN d = Channels
      /\ \A u \in Channels : \A p \in d[u] :
            /\ p \in Nat \X Nat \X Nat
            /\ p[3] <= l[u] /\ p[1] <= s
            /\ p[1] = s => p[2] <= n
      /\ \A u \in Channels : \A p, q \in d[u] :
            /\ p[1] < q[1] => p[3] <= q[3]
            /\ p[1] = q[1] /\ p[2] < q[2] => p[3] < q[3]
  BY DEF Promise
<1>2. /\ new \in Nat \X Nat \X Nat /\ new[1] = s /\ new[2] = n + 1 /\ new[3] = k
      /\ k <= l[t]
  BY <1>1
<1>3. /\ DOMAIN e = Channels /\ e[t] = d[t] \cup {new}
      /\ \A u \in Channels : u # t => e[u] = d[u]
  BY <1>1
<1>. HIDE DEF e, new
<1>4. ASSUME NEW u \in Channels, NEW p \in e[u]
      PROVE  /\ p \in Nat \X Nat \X Nat
             /\ p[3] <= l[u] /\ p[1] <= s
             /\ p[1] = s => p[2] <= n + 1
  <2>1. CASE p \in d[u]
    <3>1. p[1] \in Nat /\ p[2] \in Nat /\ p \in Nat \X Nat \X Nat
      BY <1>1, <2>1
    <3>. QED
      BY <1>1, <2>1, <3>1
  <2>2. CASE u = t /\ p = new
    BY <1>1, <1>2, <2>2
  <2>. QED
    BY <1>3, <2>1, <2>2
<1>5. ASSUME NEW u \in Channels, NEW p \in e[u], NEW q \in e[u]
      PROVE  /\ p[1] < q[1] => p[3] <= q[3]
             /\ p[1] = q[1] /\ p[2] < q[2] => p[3] < q[3]
  <2>1. CASE p \in d[u] /\ q \in d[u]
    BY <1>1, <2>1
  <2>2. CASE u = t /\ p \in d[t] /\ q = new
    <3>1. IF p[1] = s THEN p[3] < k ELSE p[3] <= k
      BY <2>2
    <3>. QED
      BY <1>2, <2>2, <3>1
  <2>3. CASE u = t /\ p = new /\ q \in d[t]
    <3>1. q[1] \in Nat /\ q[2] \in Nat /\ q[1] <= s /\ (q[1] = s => q[2] <= n)
      BY <1>1, <2>3
    <3>. QED
      BY <1>1, <1>2, <2>3, <3>1
  <2>4. CASE p = new /\ q = new
    BY <1>1, <1>2, <2>4
  <2>. QED
    BY <1>3, <2>1, <2>2, <2>3, <2>4
<1>. QED
  BY <1>1, <1>3, <1>4, <1>5 DEF Promise, e, new

\* What CommandRelay allows never takes the device back: from its own steps alone.
THEOREM RelayKeepsOrder == ImplementsRelay => [](Relay!ToldOfPublished /\ Relay!ToldInOrder)
<1>1. Relay!RelayInit => RelayPromise
  <2>. SUFFICES ASSUME Relay!RelayInit PROVE RelayPromise
    OBVIOUS
  <2>1. /\ [ch \in Channels |-> slot[ch].id] = [t \in Channels |-> 0]
        /\ socks = 0 /\ [ch \in Channels |-> Told(ch)] = [t \in Channels |-> {}]
    BY DEF Relay!RelayInit
  <2>2. Promise([t \in Channels |-> 0], 0, 0, [t \in Channels |-> {}])
    BY DEF Promise
  <2>. QED
    BY <2>1, <2>2 DEF RelayPromise
<1>2. RelayPromise /\ [Relay!RelayNext]_(Relay!relayVars) => RelayPromise'
  <2>. SUFFICES ASSUME RelayPromise, [Relay!RelayNext]_(Relay!relayVars)
                PROVE  RelayPromise'
    OBVIOUS
  <2>1. PICK l, s, n, d :
            /\ l = [ch \in Channels |-> slot[ch].id] /\ s = socks
            /\ n = (IF socks = 0 THEN 0 ELSE Len(wire[socks]))
            /\ d = [ch \in Channels |-> Told(ch)]
    OBVIOUS
  <2>2. PICK l1, s1, n1, d1 :
            /\ l1 = [ch \in Channels |-> slot[ch].id]' /\ s1 = socks'
            /\ n1 = (IF socks = 0 THEN 0 ELSE Len(wire[socks]))'
            /\ d1 = [ch \in Channels |-> Told(ch)]'
    OBVIOUS
  <2>3. Promise(l, s, n, d)
    BY <2>1 DEF RelayPromise
  <2>4. Promise(l1, s1, n1, d1) => RelayPromise'
    BY <2>2 DEF RelayPromise
  <2>5. ASSUME NEW t \in Channels, Relay!Publish(t) PROVE Promise(l1, s1, n1, d1)
    <3>1. l1 = [l EXCEPT ![t] = @ + 1] /\ s1 = s /\ n1 = n /\ d1 = d
      BY <2>1, <2>2, <2>5 DEF Relay!Publish
    <3>. QED
      BY <2>3, <3>1, PromiseKept
  <2>6. ASSUME Relay!Reconnect PROVE Promise(l1, s1, n1, d1)
    <3>1. l1 = l /\ s1 = s + 1 /\ n1 = 0 /\ d1 = d
      BY <2>1, <2>2, <2>6 DEF Relay!Reconnect
    <3>. QED
      BY <2>3, <3>1, PromiseKept
  <2>7. ASSUME Relay!Control PROVE Promise(l1, s1, n1, d1)
    <3>1. l1 = l /\ s1 = s /\ n1 = n + 1 /\ d1 = d
      BY <2>1, <2>2, <2>7 DEF Relay!Control
    <3>. QED
      BY <2>3, <3>1, PromiseKept
  <2>8. ASSUME NEW t \in Channels, NEW k \in 1 .. l[t], Relay!Tell(t, k)
        PROVE  Promise(l1, s1, n1, d1)
    <3>1. /\ l1 = l /\ s1 = s /\ n1 = n + 1
          /\ d1 = [d EXCEPT ![t] = @ \cup {<<s, n + 1, k>>}]
          /\ \A p \in d[t] : IF p[1] = s THEN p[3] < k ELSE p[3] <= k
      BY <2>1, <2>2, <2>8 DEF Relay!Tell
    <3>. QED
      BY <2>3, <3>1, PromiseTold
  <2>9. ASSUME UNCHANGED Relay!relayVars PROVE Promise(l1, s1, n1, d1)
    <3>1. l1 = l /\ s1 = s /\ n1 = n /\ d1 = d
      BY <2>1, <2>2, <2>9 DEF Relay!relayVars
    <3>. QED
      BY <2>3, <3>1
  <2>10. \/ \E t \in Channels : Relay!Publish(t)
         \/ \E t \in Channels : \E k \in 1 .. l[t] : Relay!Tell(t, k)
         \/ Relay!Reconnect \/ Relay!Control \/ UNCHANGED Relay!relayVars
    BY <2>1 DEF Relay!RelayNext
  <2>. QED
    BY <2>4, <2>5, <2>6, <2>7, <2>8, <2>9, <2>10
<1>3. RelayPromise => Relay!ToldOfPublished /\ Relay!ToldInOrder
  BY DEF RelayPromise, Promise, Relay!ToldOfPublished, Relay!ToldInOrder
<1>. QED
  BY <1>1, <1>2, <1>3, PTL DEF ImplementsRelay, Relay!RelaySpec

\* The refinement hands it down: what the node sends never goes back to an older
\* command or address, and repeats none on one connection.
COROLLARY NodeKeepsOrder == Spec => []Relay!ToldInOrder
BY ClientImplementsRelay, RelayKeepsOrder, PTL

=============================================================================
