-------------------------- MODULE SpelSessionProofs --------------------------
(***************************************************************************)
(* What happens on one connection of SpelClient from its threads' start to *)
(* its shutdown, for every value of the constants: how its frames are      *)
(* numbered, that no command is swallowed, and how the destructor ends it. *)
(***************************************************************************)
EXTENDS SpelDeliveryProofs, FiniteSetTheorems, SequenceTheorems

\* Nothing was sent or published yet.
LEMMA SessionInit == Init => SessionInv /\ GaplessSession /\ StopDelivered
<1> SUFFICES ASSUME Init PROVE SessionInv /\ GaplessSession /\ StopDelivered
  OBVIOUS
<1>1. \A c \in Conns : wire[c] = <<>> /\ DOMAIN wire[c] = {}
  BY DEF Init
<1>2. Reached /\ Numbered /\ Stopping /\ StopDelivered
  BY DEF Init, Reached, Numbered, Stopping, StopDelivered, Live
<1>3. Handled
  BY DEF Init, Handled, Settled, Live
<1>4. Overtaking /\ GaplessSession
  BY <1>1 DEF Overtaking, GaplessSession
<1> QED
  BY <1>2, <1>3, <1>4 DEF SessionInv

-----------------------------------------------------------------------------
(* What a step may do, seen from a connection *)

\* A connection becomes a new one by socket() and an established one by
\* connect(), which only happen to the newest one, and never later.
LEMMA LinkSteps ==
    ASSUME TypeOK, SocketsInv, [Next]_vars, NEW c \in Conns
    PROVE  /\ link'[c] = "up" =>
                  link[c] = "up" \/ (c = socks /\ (mpc = "connect" \/ spc = "connect"))
           /\ link'[c] = "new" => link[c] = "new" \/ MainSocket \/ SupSocket
<1> DEFINE Kept == link'[c] \in {"up", "new"} => link'[c] = link[c]
<1>1. link \in Links /\ \A f : On(f) \in 0..MaxSocks
  BY OnType DEF TypeOK, TypeSockets, Links
<1>2. CASE MainSocket \/ SupSocket
  BY <1>1, <1>2 DEF MainSocket, SupSocket, OpenSocket, Links
<1>3. CASE MainConnect \/ SupConnect
  BY <1>1, <1>3 DEF MainConnect, SupConnect, Connected, Links
<1>4. ASSUME NEW f, Shutdown(f) PROVE Kept
  BY <1>1, <1>4 DEF Shutdown, Links
<1>5. ASSUME NEW f, Close(f) PROVE Kept
  BY <1>1, <1>5 DEF Close, Links
<1>6. ASSUME NEW d, NEW f, NEW r, Transmit(d, f, r) PROVE Kept
  BY <1>1, <1>6 DEF Transmit, Links
<1>7. CASE MainStep /\ ~MainSocket /\ ~MainConnect
  <2>1. Kept
    BY <1>4, <1>5, <1>6, <1>7
    DEF MainStep, MainSpinReturns, MainStop, MainShutdown, MainClose, MainJoin, netVars
  <2> QED
    BY <2>1
<1>8. CASE SupStep /\ ~SupSocket /\ ~SupConnect
  <2>1. Kept
    BY <1>4, <1>5, <1>8
    DEF SupStep, SupSpawn, SupEnds, SupJoinRx, SupJoinTx, SupShut, SupClose, netVars
  <2> QED
    BY <2>1
<1>9. CASE TxStep
  <2>1. Kept
    BY <1>6, <1>9 DEF TxStep, TxStart, TxCheck, TxPoll, TxSend, TxExit, netVars
  <2> QED
    BY <2>1
<1>10. CASE RxLocal \/ User \/ Device \/ Sigint \/ UNCHANGED vars
  <2>1. Kept
    BY <1>1, <1>10
    DEF RxLocal, RxCheck, RxFail, RxExit, User, Callback, Device, RxFrame, RxBreak,
        PeerCloses, PeerResets, PeerVanishes, Kernel, GiveUp, Sigint, netVars, vars, Links
  <2> QED
    BY <2>1
<1> QED
  BY <1>2, <1>3, <1>7, <1>8, <1>9, <1>10 DEF Next, Terminated

\* What is on a wire stays where it is.
LEMMA WiresGrow ==
    ASSUME TypeOK, [Next]_vars, NEW c \in Conns, NEW i \in DOMAIN wire[c]
    PROVE  i \in DOMAIN wire'[c] /\ wire'[c][i] = wire[c][i]
<1>1. CASE wire' = wire
  BY <1>1
<1>2. ASSUME NEW d, NEW f, Sends(d, f)
      PROVE  i \in DOMAIN wire'[c] /\ wire'[c][i] = wire[c][i]
  BY <1>2, WireGrowth DEF TypeOK
<1>3. wire' = wire \/ \E d, f : Sends(d, f)
  <2>1. UNCHANGED vars => wire' = wire
    BY DEF vars
  <2> QED
    BY <2>1, WireSteps DEF TypeOK
<1> QED
  BY <1>1, <1>2, <1>3

\* The receive thread, the publishers, the device and a signal leave alone what
\* the main thread, the supervisor and tx go by.
LEMMA Bystanders ==
    ASSUME RxLocal \/ User \/ Device \/ Sigint \/ UNCHANGED vars
    PROVE  /\ UNCHANGED <<mpc, msock, spc, tpc, prev, job, seq, tsock, sess, sock, socks,
                          wire>>
           /\ ok' => ok
           /\ ~User => UNCHANGED <<slot, pub, clock>>
BY DEF RxLocal, RxCheck, RxFail, RxExit, User, Callback, Device, RxFrame, RxBreak,
       PeerCloses, PeerResets, PeerVanishes, Kernel, GiveUp, Sigint, vars, mainVars,
       txVars, pairVars, netVars, boxVars

\* The main thread once it spins: a signal arrived, and what it does is no
\* business of tx and of the supervisor.
LEMMA MainMoves ==
    ASSUME SocketsInv, MainStep, ~MainSocket, ~MainConnect
    PROVE  /\ ~ok /\ ~ok' /\ mpc \notin {"socket", "connect"}
           /\ mpc' \notin {"socket", "connect", "spin"}
           /\ UNCHANGED <<spc, tpc, prev, job, seq, tsock, sess, sock, socks,
                          slot, pub, clock>>
<1>1. mpc \notin {"socket", "connect"} => ~ok \/ mpc = "spin"
  BY DEF SocketsInv, ThreadPhases
<1>2. CASE MainSpinReturns
  BY <1>2 DEF MainSpinReturns, txVars, pairVars, netVars, boxVars
<1>3. ASSUME NEW k \in {0, 1}, MainStop(k)
      PROVE  /\ mpc \notin {"socket", "connect", "spin"}
             /\ mpc' \notin {"socket", "connect", "spin"}
             /\ UNCHANGED <<ok, spc, tpc, prev, job, seq, tsock, sess, sock, socks,
                            slot, pub, clock>>
  BY <1>3 DEF MainStop, txVars, pairVars, boxVars
<1>4. CASE MainShutdown \/ MainClose \/ MainJoin
  BY <1>1, <1>4
  DEF MainShutdown, MainClose, MainJoin, Shutdown, Close, mainVars, txVars, pairVars,
      netVars, boxVars
<1> QED
  BY <1>1, <1>2, <1>3, <1>4 DEF MainStep

\* The supervisor sends nothing, and what it does between a join and a new
\* connection is no business of tx.
LEMMA SupMoves ==
    ASSUME SupStep
    PROVE  /\ UNCHANGED <<ok, mpc, msock, wire, slot, pub, clock>>
           /\ ~SupSpawn => UNCHANGED <<tpc, prev, job, seq, tsock, sess>>
           /\ ~SupSocket => UNCHANGED <<sock, socks>>
BY DEF SupStep, SupSpawn, SupEnds, SupJoinRx, SupJoinTx, SupShut, SupClose, SupSocket,
       SupConnect, Shutdown, Close, mainVars, txVars, pairVars, netVars, boxVars

\* A step of tx is one on the newest connection, or on one whose descriptor the
\* destructor has closed.
LEMMA TxMoves ==
    ASSUME TypeOK, SocketsInv, TxStep
    PROVE  /\ UNCHANGED <<ok, mpc, msock, spc, tsock, sess, sock, socks, slot, pub, clock>>
           /\ Live(tpc) /\ spc \in {"joinRx", "joinTx"} /\ mpc \notin {"socket", "connect"}
           /\ sess = socks /\ sess \in Conns
           /\ On(tsock) = sess \/ (On(tsock) = 0 /\ ~ok)
<1>1. UNCHANGED <<ok, mpc, msock, spc, tsock, sess, sock, socks, slot, pub, clock>>
  BY DEF TxStep, TxStart, TxCheck, TxPoll, TxSend, TxExit, mainVars, pairVars, netVars,
         boxVars
<1>2. Live(tpc)
  BY DEF TxStep, TxStart, TxCheck, TxPoll, TxSend, TxExit, Live
<1>3. spc \in {"joinRx", "joinTx"} /\ mpc \notin {"socket", "connect"}
  BY <1>2 DEF SocketsInv, ThreadPhases
<1>4. sess = socks /\ (On(tsock) = socks \/ (On(tsock) = 0 /\ ~ok))
  BY <1>3 DEF SocketsInv, ThreadPhases, OwnSocket
<1>5. socks \in Conns
  BY <1>3 DEF SocketsInv, OnlyNewest, TypeOK, TypeSockets, Conns
<1> QED
  BY <1>1, <1>2, <1>3, <1>4, <1>5

-----------------------------------------------------------------------------
(* The end of a session: shutdown and silence *)

LEMMA ReachedStep ==
    ASSUME TypeOK, SocketsInv, Reached, [Next]_vars
    PROVE  Reached'
<1>1. ASSUME spc \in {"loop", "joinRx", "joinTx"}
      PROVE  socks \in Conns /\ mpc # "socket"
  BY <1>1 DEF SocketsInv, ThreadPhases, OnlyNewest, TypeOK, TypeSockets, Conns
<1>2. CASE MainSocket \/ SupSocket
  <2>1. spc' \notin {"loop", "joinRx", "joinTx"}
    BY <1>2 DEF MainSocket, SupSocket, SocketsInv, ThreadPhases
  <2> QED
    BY <2>1 DEF Reached
<1>3. CASE MainConnect \/ SupConnect
  <2>1. socks' = socks /\ socks \in Conns
    BY <1>3 DEF MainConnect, SupConnect, SocketsInv, ThreadPhases, OnlyNewest, TypeOK,
                TypeSockets, Conns
  <2>2. Connected => link'[socks] # "new"
    BY <2>1 DEF Connected, TypeOK, TypeSockets
  <2>3. spc' \notin {"joinRx", "joinTx"} /\ (Connected \/ spc' # "loop")
    BY <1>3 DEF MainConnect, SupConnect, SocketsInv, ThreadPhases
  <2> QED
    BY <2>1, <2>2, <2>3 DEF Reached
<1>4. CASE SupSpawn
  <2>1. UNCHANGED <<link, socks, mpc>> /\ mpc \notin {"close", "join"} /\ spc = "loop"
    BY <1>4 DEF SupSpawn, mainVars, netVars, SocketsInv, ThreadPhases
  <2> QED
    BY <2>1 DEF Reached
<1>5. CASE MainShutdown
  <2>1. /\ spc' = spc /\ socks' = socks /\ mpc = "shutdown"
        /\ ~MainSocket /\ ~SupSocket /\ mpc # "connect"
    BY <1>5 DEF MainShutdown, Shutdown, MainSocket, SupSocket, OpenSocket, TypeOK,
                TypeSockets
  <2>2. ASSUME spc \in {"loop", "joinRx", "joinTx"} PROVE link'[socks] # "new"
    BY <1>1, <2>1, <2>2, LinkSteps DEF Reached
  <2>3. ASSUME spc \in {"joinRx", "joinTx"} PROVE link'[socks] # "up"
    <3>1. On(sock) = socks /\ socks \in Conns /\ socks # 0
      BY <1>1, <2>1, <2>3 DEF SocketsInv, OwnSocket, Conns
    <3>2. link[socks] # "new"
      BY <2>3 DEF Reached
    <3> QED
      BY <1>5, <3>1, <3>2 DEF MainShutdown, Shutdown, TypeOK, TypeSockets
  <2> QED
    BY <2>1, <2>2, <2>3 DEF Reached
<1>6. CASE /\ ~MainSocket /\ ~SupSocket /\ ~MainConnect /\ ~SupConnect
           /\ ~SupSpawn /\ ~MainShutdown
  <2>1. /\ socks' = socks
        /\ spc' \in {"joinRx", "joinTx"} => spc \in {"joinRx", "joinTx"}
        /\ spc' = "loop" => spc \in {"loop", "joinTx"}
        /\ mpc' \in {"close", "join"} => mpc \in {"close", "join"}
    <3>1. CASE MainStep
      BY <1>6, <3>1, MainMoves DEF MainStep, MainSpinReturns, MainStop, MainClose, MainJoin,
                              mainVars
    <3>2. CASE SupStep
      BY <1>6, <3>2, SupMoves DEF SupStep, SupEnds, SupJoinRx, SupJoinTx, SupShut, SupClose
    <3>3. CASE TxStep
      BY <3>3, TxMoves
    <3>4. CASE RxLocal \/ User \/ Device \/ Sigint \/ UNCHANGED vars
      BY <3>4, Bystanders
    <3> QED
      BY <3>1, <3>2, <3>3, <3>4 DEF Next, Terminated
  <2>2. ASSUME spc \in {"loop", "joinRx", "joinTx"}
        PROVE  /\ link[socks] # "new" => link'[socks] # "new"
               /\ link[socks] # "up" => link'[socks] # "up"
    <3>1. mpc # "connect"
      BY <2>2 DEF SocketsInv, ThreadPhases
    <3> QED
      BY <1>1, <1>6, <2>2, <3>1, LinkSteps
  <2> QED
    BY <2>1, <2>2 DEF Reached
<1> QED
  BY <1>2, <1>3, <1>4, <1>5, <1>6

\* A connection that threads serve was established, and is none any more once
\* the destructor has shut it down.
LEMMA ReachedCorrect == Spec => []Reached
<1>1. Init => Reached
  BY SessionInit DEF SessionInv
<1>2. TypeOK /\ SocketsInv /\ Reached /\ [Next]_vars => Reached'
  BY ReachedStep
<1> QED
  BY <1>1, <1>2, TypeCorrect, SocketsCorrect, PTL DEF Spec

\* After shutdown(sock_, SHUT_RDWR) in the destructor, whatever tx still has in
\* hand and however far it is from noticing, nothing more goes out.
THEOREM NothingAfterShutdown == Spec => QuietAfterShutdown
<1>1. ASSUME TypeOK, SocketsInv, Reached, [Next]_vars, mpc \in {"close", "join"}
      PROVE  wire' = wire
  <2>1. ASSUME NEW f, Sends(On(tsock), f), Live(tpc) PROVE FALSE
    <3>1. spc \in {"joinRx", "joinTx"}
      BY <1>1, <2>1 DEF SocketsInv, ThreadPhases
    <3>2. On(tsock) = socks
      BY <1>1, <2>1, SendsOnNewest
    <3> QED
      BY <1>1, <2>1, <3>1, <3>2 DEF Reached, Sends
  <2>2. \A k \in {0, 1} : ~MainStop(k)
    BY <1>1 DEF MainStop
  <2>3. \A from, to, sub :
           TxStart(from, sub, to) /\ from \in {"start1", "start2"} => Live(tpc)
    BY DEF TxStart, Live
  <2>4. \A ch, from, to :
           TxSend(ch, from, to) /\ (from = IF ch = "cmd" THEN "sendCmd" ELSE "sendIp")
               => Live(tpc)
    BY DEF TxSend, Live
  <2>5. UNCHANGED vars => wire' = wire
    BY DEF vars
  <2> QED
    BY <1>1, <2>1, <2>2, <2>3, <2>4, <2>5, WireSteps DEF TypeOK
<1>2. TypeOK /\ SocketsInv /\ Reached /\ [Next]_vars
          => [(mpc \in {"close", "join"}) => wire' = wire]_vars
  BY <1>1
<1> QED
  BY <1>2, TypeCorrect, SocketsCorrect, ReachedCorrect, PTL DEF Spec, QuietAfterShutdown

-----------------------------------------------------------------------------
(* The end of a session: the two STOP frames, and what tx sends meanwhile *)

\* The places of the frames of tx are finitely many.
LEMMA BehindFinite ==
    ASSUME TypeWires, NEW c \in Conns, NEW i \in Nat
    PROVE  IsFiniteSet(Behind(c, i)) /\ Cardinality(Behind(c, i)) \in Nat
<1>1. Len(wire[c]) \in Nat
  BY WireShape
<1>2. IsFiniteSet(i..Len(wire[c]))
  BY <1>1, FS_Interval
<1>3. Behind(c, i) \subseteq i..Len(wire[c])
  BY DEF Behind
<1> QED
  BY <1>2, <1>3, FS_Subset, FS_CardinalityType

\* A frame sent adds one place behind those before it, if it is one of tx.
LEMMA BehindGrowth ==
    ASSUME TypeWires, NEW c, NEW f, Sends(c, f),
           NEW d \in Conns, NEW i \in DOMAIN wire[d]
    PROVE  /\ f.by # "tx" => Behind(d, i)' = Behind(d, i)
           /\ f.by = "tx" => Cardinality(Behind(d, i)') <= Cardinality(Behind(d, i)) + 1
<1>1. /\ c \in Conns /\ Len(wire[c]) \in Nat /\ DOMAIN wire[c] = 1..Len(wire[c])
      /\ \A e \in Conns : e # c => wire'[e] = wire[e]
      /\ DOMAIN wire'[c] = 1..(Len(wire[c]) + 1)
      /\ \A k \in 1..Len(wire[c]) : wire'[c][k] = wire[c][k]
      /\ wire'[c][Len(wire[c]) + 1] = f
  BY WireGrowth
<1>2. wire[c] \in Seq(Frame) /\ Len(wire'[c]) = Len(wire[c]) + 1
  BY <1>1 DEF Sends, TypeWires
<1>3. i \in Nat /\ IsFiniteSet(Behind(d, i)) /\ Cardinality(Behind(d, i)) \in Nat
  BY WireShape, BehindFinite
<1>4. CASE d # c
  <2>1. Behind(d, i)' = Behind(d, i)
    BY <1>1, <1>4 DEF Behind
  <2> QED
    BY <1>3, <2>1
<1>5. CASE d = c
  <2>1. i \in 1..Len(wire[c])
    BY <1>1, <1>5
  <2>2. Behind(d, i)' = IF f.by = "tx" THEN Behind(d, i) \cup {Len(wire[c]) + 1}
                        ELSE Behind(d, i)
    <3>1. \A k : k \in i..(Len(wire[c]) + 1)
                     <=> k \in i..Len(wire[c]) \/ k = Len(wire[c]) + 1
      BY <1>1, <2>1
    <3>2. \A k \in i..Len(wire[c]) : wire'[c][k] = wire[c][k]
      BY <1>1, <2>1
    <3> QED
      BY <1>1, <1>2, <1>5, <3>1, <3>2 DEF Behind
  <2>3. Len(wire[c]) + 1 \notin Behind(d, i)
    BY <1>1, <1>5 DEF Behind
  <2>4. Cardinality(Behind(d, i) \cup {Len(wire[c]) + 1}) = Cardinality(Behind(d, i)) + 1
    BY <1>3, <2>3, FS_AddElement
  <2> QED
    BY <1>3, <2>2, <2>4
<1> QED
  BY <1>4, <1>5

\* They are so in the next state.
LEMMA BehindFiniteNext ==
    ASSUME TypeWires', NEW c \in Conns, NEW i \in Nat
    PROVE  Cardinality(Behind(c, i)') \in Nat
<1>1. Len(wire'[c]) \in Nat
  BY DEF TypeWires
<1>2. IsFiniteSet(i..Len(wire'[c]))
  BY <1>1, FS_Interval
<1>3. Behind(c, i)' \subseteq i..Len(wire'[c])
  BY DEF Behind
<1> QED
  BY <1>2, <1>3, FS_Subset, FS_CardinalityType

\* The main thread sends nothing but its STOP frames.
LEMMA MainSends ==
    ASSUME TypeSockets, MainStep
    PROVE  wire' = wire \/ \E k \in {0, 1} : MainStop(k) /\ Sends(On(msock), StopFrame(k))
<1>1. ASSUME NEW k \in {0, 1}, MainStop(k)
      PROVE  wire' = wire \/ Sends(On(msock), StopFrame(k))
  BY <1>1, OnType, TransmitEffect DEF MainStop
<1> QED
  BY <1>1 DEF MainStep, MainSocket, MainConnect, MainSpinReturns, MainShutdown, MainClose,
              MainJoin, netVars

\* With ok FALSE every step of tx that sends leaves it one frame less to send.
LEMMA TxRunsOut ==
    ASSUME TypeOK, TxStep
    PROVE  \/ wire' = wire /\ (~ok => Left(tpc') <= Left(tpc))
           \/ \E f : f.by = "tx" /\ Sends(On(tsock), f) /\ Left(tpc') + 1 <= Left(tpc)
<1>1. ASSUME NEW sub, NEW from, NEW to, TxStart(from, sub, to)
      PROVE  /\ tpc = from /\ tpc' = to
             /\ wire' = wire \/ \E f : f.by = "tx" /\ Sends(On(tsock), f)
  BY <1>1, OnType, TransmitEffect DEF TxStart, TxFrame, TypeOK
<1>2. ASSUME NEW ch, NEW from, NEW to, TxSend(ch, from, to)
      PROVE  /\ tpc = from /\ tpc' \in {to, "exit"}
             /\ wire' = wire \/ \E f : f.by = "tx" /\ Sends(On(tsock), f)
  BY <1>2, OnType, TransmitEffect DEF TxSend, TxFrame, TypeOK
<1>3. CASE \/ TxStart("start1", START_STREAMING, "start2")
           \/ TxStart("start2", START_RSF, "check")
  BY <1>1, <1>3 DEF Left
<1>4. CASE TxSend("cmd", "sendCmd", "pollIp")
  BY <1>2, <1>4 DEF Left
<1>5. CASE TxSend("ip", "sendIp", "check")
  BY <1>2, <1>5 DEF Left
<1>6. CASE TxCheck \/ TxExit
  BY <1>6 DEF TxCheck, TxExit, KeepGoing, Left
<1>7. CASE \/ TxPoll("cmd", "pollCmd", "sendCmd", "pollIp")
           \/ TxPoll("ip", "pollIp", "sendIp", "check")
  <2>1. wire' = wire
    BY <1>7 DEF TxPoll
  <2>2. CASE TxPoll("cmd", "pollCmd", "sendCmd", "pollIp")
    <3>1. tpc = "pollCmd" /\ tpc' \in {"sendCmd", "pollIp"}
      BY <2>2 DEF TxPoll
    <3> QED
      BY <2>1, <3>1 DEF Left
  <2>3. CASE TxPoll("ip", "pollIp", "sendIp", "check")
    <3>1. tpc = "pollIp" /\ tpc' \in {"sendIp", "check"}
      BY <2>3 DEF TxPoll
    <3> QED
      BY <2>1, <3>1 DEF Left
  <2> QED
    BY <1>7, <2>2, <2>3
<1> QED
  BY <1>3, <1>4, <1>5, <1>6, <1>7 DEF TxStep

\* Once the main thread has sent something, what tx has sent since and what it
\* may still send are two frames at most.
LEMMA OvertakingStep ==
    ASSUME TypeOK, SocketsInv, Overtaking, [Next]_vars
    PROVE  Overtaking'
<1> DEFINE Fits(d, i) == wire[d][i].by = "main" =>
                            ~ok /\ Cardinality(Behind(d, i)) + Left(tpc) <= 2
<1>1. \A pc : Left(pc) \in 0..2
  BY DEF Left
<1>2. \A d \in Conns : \A i \in DOMAIN wire[d] :
         i \in Nat /\ Fits(d, i) /\ Cardinality(Behind(d, i)) \in Nat
  BY WireShape, BehindFinite DEF Overtaking, TypeOK
<1>3. ASSUME wire' = wire, ok' => ok, ~ok => Left(tpc') <= Left(tpc)
      PROVE  Overtaking'
  BY <1>1, <1>2, <1>3 DEF Overtaking, Behind
<1>4. ASSUME NEW f, Sends(On(tsock), f), f.by = "tx", Left(tpc') + 1 <= Left(tpc), ok' = ok
      PROVE  Overtaking'
  <2> SUFFICES ASSUME NEW d \in Conns, NEW i \in DOMAIN wire'[d],
                      wire'[d][i].by = "main"
               PROVE  ~ok' /\ Cardinality(Behind(d, i)') + Left(tpc') <= 2
    BY DEF Overtaking
  <2>1. i \in DOMAIN wire[d] /\ wire[d][i] = wire'[d][i]
    BY <1>4, WireGrowth DEF TypeOK
  <2>2. Cardinality(Behind(d, i)') <= Cardinality(Behind(d, i)) + 1
    BY <1>4, <2>1, BehindGrowth DEF TypeOK
  <2>3. ~ok /\ Cardinality(Behind(d, i)) + Left(tpc) <= 2
    BY <1>2, <2>1
  <2>4. Cardinality(Behind(d, i)') \in Nat
    <3>1. TypeWires'
      BY TypeStep DEF TypeOK
    <3>2. i \in Nat
      BY <1>2, <2>1
    <3> QED
      BY <3>1, <3>2, BehindFiniteNext
  <2> QED
    BY <1>1, <1>2, <1>4, <2>1, <2>2, <2>3, <2>4
<1>5. ASSUME NEW k \in {0, 1}, MainStop(k), Sends(On(msock), StopFrame(k))
      PROVE  Overtaking'
  <2>1. ~ok /\ ~ok' /\ tpc' = tpc
    BY <1>5 DEF MainStop, SocketsInv, ThreadPhases, txVars
  <2>2. ASSUME NEW d \in Conns, NEW i \in DOMAIN wire[d], wire'[d][i].by = "main"
        PROVE  Cardinality(Behind(d, i)') + Left(tpc) <= 2
    <3>1. wire[d][i] = wire'[d][i] /\ Behind(d, i)' = Behind(d, i)
      BY <1>5, WireGrowth, BehindGrowth DEF TypeOK, StopFrame
    <3> QED
      BY <1>2, <2>2, <3>1
  <2>3. ASSUME NEW d \in Conns, NEW i \in DOMAIN wire'[d], i \notin DOMAIN wire[d]
        PROVE  Cardinality(Behind(d, i)') = 0
    <3>1. /\ i = Len(wire[d]) + 1 /\ Len(wire[d]) \in Nat
          /\ wire'[d] = Append(wire[d], StopFrame(k)) /\ wire[d] \in Seq(Frame)
          /\ wire'[d][i] = StopFrame(k)
      BY <1>5, <2>3, WireGrowth DEF TypeOK, TypeWires, Sends
    <3>2. Len(wire'[d]) = i
      BY <3>1
    <3>3. \A j \in i..Len(wire'[d]) : wire'[d][j].by = "main"
      BY <3>1, <3>2 DEF StopFrame
    <3>4. Behind(d, i)' = {}
      BY <3>3 DEF Behind
    <3> QED
      BY <3>4, FS_EmptySet
  <2> QED
    BY <1>1, <2>1, <2>2, <2>3 DEF Overtaking
<1>6. CASE TxStep
  <2>1. ok' = ok
    BY <1>6, TxMoves
  <2> QED
    BY <1>3, <1>4, <1>6, <2>1, TxRunsOut
<1>7. CASE MainStep
  <2>1. ok' = ok /\ tpc' = tpc
    BY <1>7 DEF MainStep, MainSocket, MainConnect, MainSpinReturns, MainStop,
                MainShutdown, MainClose, MainJoin, txVars
  <2>2. wire' = wire \/ \E k \in {0, 1} : MainStop(k) /\ Sends(On(msock), StopFrame(k))
    BY <1>7, MainSends DEF TypeOK
  <2> QED
    BY <1>1, <1>3, <1>5, <2>1, <2>2
<1>8. CASE SupStep
  <2>1. ok' = ok /\ wire' = wire /\ (~ok => tpc' = tpc)
    BY <1>8, SupMoves DEF SupSpawn
  <2> QED
    BY <1>1, <1>3, <2>1
<1>9. CASE RxLocal \/ User \/ Device \/ Sigint \/ UNCHANGED vars
  BY <1>1, <1>3, <1>9, Bystanders
<1> QED
  BY <1>6, <1>7, <1>8, <1>9 DEF Next, Terminated

\* Only two frames of tx can slip in behind the first STOP frame.
THEOREM OvertakeIsBounded == Spec => []BoundedOvertake
<1>1. Init => Overtaking
  BY SessionInit DEF SessionInv
<1>2. TypeOK /\ SocketsInv /\ Overtaking /\ [Next]_vars => Overtaking'
  BY OvertakingStep
<1>3. TypeOK /\ Overtaking => BoundedOvertake
  <2> SUFFICES ASSUME TypeOK, Overtaking, NEW c \in Conns, NEW i \in DOMAIN wire[c],
                      wire[c][i].by = "main"
               PROVE  Cardinality(Behind(c, i)) <= 2
    BY DEF BoundedOvertake
  <2>1. Cardinality(Behind(c, i)) \in Nat
    BY WireShape, BehindFinite DEF TypeOK
  <2>2. Cardinality(Behind(c, i)) + Left(tpc) <= 2 /\ Left(tpc) \in 0..2
    BY DEF Overtaking, Left
  <2> QED
    BY <2>1, <2>2
<1> QED
  BY <1>1, <1>2, <1>3, TypeCorrect, SocketsCorrect, PTL DEF Spec

\* While rx runs for an established connection, a STOP frame of the destructor
\* goes out on that one.
LEMMA StopGoesOut ==
    ASSUME TypeOK, SocketsInv, Stopping, NEW k \in {0, 1}, MainStop(k), spc = "joinRx",
           link[sess] = "up"
    PROVE  /\ sess \in Conns /\ Len(wire[sess]) \in Nat
           /\ DOMAIN wire[sess] = 1..Len(wire[sess])
           /\ Len(wire[sess]) + 1 \in DOMAIN wire'[sess]
           /\ wire'[sess][Len(wire[sess]) + 1] = StopFrame(k)
           /\ \A i \in DOMAIN wire[sess] : i \in DOMAIN wire'[sess]
                                           /\ wire'[sess][i] = wire[sess][i]
<1>1. mpc \in {"stopRsf", "stopStreaming"}
  BY DEF MainStop
<1>2. /\ msock = sock /\ On(sock) = socks /\ sess = socks /\ socks \in Conns
  BY <1>1 DEF Stopping, SocketsInv, OwnSocket, OnlyNewest, TypeOK, TypeSockets, Conns
<1>3. \A r \in SendResults(On(msock), FALSE) : r = "sent"
  BY <1>2 DEF SendResults, Conns
<1>4. wire' = [wire EXCEPT ![sess] = Append(wire[sess], StopFrame(k))]
  BY <1>2, <1>3 DEF MainStop, Transmit
<1>5. Sends(sess, StopFrame(k))
  BY <1>2, <1>4 DEF Sends
<1> QED
  BY <1>5, WireGrowth DEF TypeOK

\* What StopDelivered says is prepared at the first STOP frame and then kept.
LEMMA StoppingStep ==
    ASSUME TypeOK, SocketsInv, Stopping, StopDelivered, [Next]_vars
    PROVE  Stopping' /\ StopDelivered'
<1>1. CASE spc' # "joinRx"
  BY <1>1 DEF Stopping, StopDelivered
<1>2. CASE mpc' \notin {"stopRsf", "stopStreaming", "shutdown"}
  BY <1>2 DEF Stopping, StopDelivered
<1>3. CASE MainSpinReturns
  BY <1>3 DEF MainSpinReturns, netVars, Stopping, StopDelivered
<1>4. ASSUME NEW k \in {0, 1}, MainStop(k), spc' = "joinRx"
      PROVE  Stopping' /\ StopDelivered'
  <2>1. /\ UNCHANGED <<msock, sock, spc, sess>> /\ spc = "joinRx"
        /\ mpc = IF k = 0 THEN "stopRsf" ELSE "stopStreaming"
        /\ mpc' = IF k = 0 THEN "stopStreaming" ELSE "shutdown"
    BY <1>4 DEF MainStop, pairVars
  <2>2. sess \in Conns /\ (link'[sess] = "up" => link[sess] = "up")
    <3>1. sess \in Conns /\ mpc # "connect" /\ spc # "connect"
      BY <2>1 DEF SocketsInv, OwnSocket, OnlyNewest, TypeOK, TypeSockets, Conns
    <3> QED
      BY <3>1, LinkSteps
  <2>3. CASE link'[sess] # "up"
    BY <2>1, <2>3 DEF Stopping, StopDelivered
  <2>4. CASE k = 0 /\ link[sess] = "up"
    BY <1>4, <2>1, <2>4, StopGoesOut DEF Stopping, StopDelivered
  <2>5. CASE k = 1 /\ link[sess] = "up"
    <3>1. PICK i \in DOMAIN wire[sess] : wire[sess][i] = StopFrame(0)
      BY <2>1, <2>5 DEF Stopping
    <3>2. /\ i \in DOMAIN wire'[sess] /\ wire'[sess][i] = StopFrame(0)
          /\ i < Len(wire[sess]) + 1
      BY <1>4, <2>1, <2>5, <3>1, StopGoesOut
    <3>3. /\ Len(wire[sess]) + 1 \in DOMAIN wire'[sess]
          /\ wire'[sess][Len(wire[sess]) + 1] = StopFrame(1)
      BY <1>4, <2>1, <2>5, StopGoesOut
    <3> QED
      BY <2>1, <2>5, <3>2, <3>3 DEF Stopping, StopDelivered
  <2> QED
    BY <2>2, <2>3, <2>4, <2>5
<1>5. CASE /\ spc' = "joinRx" /\ mpc' \in {"stopRsf", "stopStreaming", "shutdown"}
           /\ ~MainSpinReturns /\ ~MainStop(0) /\ ~MainStop(1)
  <2>1. mpc' = mpc /\ UNCHANGED <<spc, msock, sock, sess>>
    <3>1. CASE MainStep
      BY <1>5, <3>1 DEF MainStep, MainSocket, MainConnect, MainShutdown, MainClose,
                        MainJoin, mainVars, netVars, pairVars, SocketsInv, ThreadPhases
    <3>2. CASE SupStep
      BY <1>5, <3>2, SupMoves
      DEF SupStep, SupSpawn, SupEnds, SupJoinRx, SupJoinTx, SupShut, SupClose, SupSocket,
          SupConnect, SocketsInv, ThreadPhases
    <3>3. CASE TxStep
      BY <3>3, TxMoves
    <3>4. CASE RxLocal \/ User \/ Device \/ Sigint \/ UNCHANGED vars
      BY <3>4, Bystanders
    <3> QED
      BY <3>1, <3>2, <3>3, <3>4 DEF Next, Terminated
  <2>2. sess \in Conns /\ (link'[sess] = "up" => link[sess] = "up")
    <3>1. sess \in Conns /\ mpc # "connect" /\ spc # "connect"
      BY <1>5, <2>1 DEF SocketsInv, OwnSocket, OnlyNewest, TypeOK, TypeSockets, Conns
    <3> QED
      BY <3>1, LinkSteps
  <2>3. \A i \in DOMAIN wire[sess] : i \in DOMAIN wire'[sess]
                                    /\ wire'[sess][i] = wire[sess][i]
    BY <2>2, WiresGrow
  <2>4. Stopping'
    BY <2>1, <2>2, <2>3 DEF Stopping
  <2>5. StopDelivered'
    BY <2>1, <2>2, <2>3 DEF StopDelivered
  <2> QED
    BY <2>4, <2>5
<1> QED
  BY <1>1, <1>2, <1>3, <1>4, <1>5

\* A device that is still served when the node is stopped is told so: with
\* STOP_RSF first and STOP_STREAMING after it.
THEOREM DeviceIsStopped == Spec => []StopDelivered
<1>1. Init => Stopping /\ StopDelivered
  BY SessionInit DEF SessionInv
<1>2. TypeOK /\ SocketsInv /\ Stopping /\ StopDelivered /\ [Next]_vars
          => Stopping' /\ StopDelivered'
  BY StoppingStep
<1> QED
  BY <1>1, <1>2, TypeCorrect, SocketsCorrect, PTL DEF Spec

-----------------------------------------------------------------------------
(* The beginning of a session: how its frames are numbered *)

\* As long as no signal arrived, sendFrame of tx either puts the next frame on an
\* established connection or finds that it is none.
LEMMA TxSendsNext ==
    ASSUME TypeOK, SocketsInv, TxStep, ok, link[sess] = "up", NEW f,
           \E r \in SendResults(On(tsock), ~ok) : Transmit(On(tsock), f, r)
    PROVE  Sends(sess, f)
<1>1. On(tsock) = sess /\ sess \in Conns
  BY TxMoves
<1>2. \A r \in SendResults(On(tsock), ~ok) : r = "sent"
  BY <1>1 DEF SendResults, Conns
<1> QED
  BY <1>1, <1>2 DEF Transmit, Sends

\* A frame of tx with the right number keeps the numbering,
LEMMA NumberedSend ==
    ASSUME TypeOK, SocketsInv, Numbered, GaplessSession, [Next]_vars, TxStep, ok, NEW f,
           \E r \in SendResults(On(tsock), ~ok) : Transmit(On(tsock), f, r),
           f.seq = seq, seq' = seq + 1, tpc' \notin {"start1"},
           tpc = "start1" => f.sub = START_STREAMING,
           tpc = "start2" => f.sub = START_RSF,
           tpc = "start1" <=> tpc' = "start2"
    PROVE  Numbered' /\ GaplessSession'
<1>1. /\ UNCHANGED <<ok, mpc, spc, sess, socks>> /\ Live(tpc) /\ sess \in Conns
      /\ spc \notin {"loop", "connect"} /\ mpc # "connect" /\ sess = socks
      /\ On(tsock) = sess
  BY TxMoves
<1>2. link'[sess] = "up" => link[sess] = "up"
  BY <1>1, LinkSteps
<1>3. CASE link[sess] # "up"
  <2>1. wire' = wire
    <3>1. \A r \in SendResults(On(tsock), ~ok) : r # "sent"
      BY <1>1, <1>3 DEF SendResults, Conns
    <3> QED
      BY <3>1 DEF Transmit
  <2>2. GaplessSession'
    BY <1>1, <2>1 DEF GaplessSession
  <2>3. Numbered'
    BY <1>1, <1>2, <1>3 DEF Numbered
  <2> QED
    BY <2>2, <2>3
<1>4. CASE link[sess] = "up"
  <2>1. seq = Len(wire[sess]) /\ seq \in Nat /\ (tpc = "start1" <=> seq = 0)
        /\ (tpc = "start2" <=> seq = 1)
    BY <1>1, <1>4 DEF Numbered, TypeOK, TypeMessages
  <2>2. Sends(sess, f)
    BY <1>4, TxSendsNext
  <2>3. /\ DOMAIN wire[sess] = 1..Len(wire[sess])
        /\ \A d \in Conns : d # sess => wire'[d] = wire[d]
        /\ DOMAIN wire'[sess] = 1..(Len(wire[sess]) + 1)
        /\ \A i \in 1..Len(wire[sess]) : wire'[sess][i] = wire[sess][i]
        /\ wire'[sess][Len(wire[sess]) + 1] = f
    BY <2>2, WireGrowth DEF TypeOK
  <2>4. Len(wire'[sess]) = Len(wire[sess]) + 1
    <3>1. wire[sess] \in Seq(Frame) /\ wire'[sess] = Append(wire[sess], f)
      BY <2>2 DEF Sends, TypeOK, TypeWires
    <3> QED
      BY <3>1
  <2>5. ASSUME NEW d \in Conns, NEW i \in DOMAIN wire'[d]
        PROVE  /\ wire'[d][i].seq = i - 1
               /\ i = 1 => wire'[d][i].sub = START_STREAMING
               /\ i = 2 => wire'[d][i].sub = START_RSF
    <3>1. CASE i \in DOMAIN wire[d] /\ wire'[d][i] = wire[d][i]
      BY <3>1 DEF GaplessSession
    <3>2. CASE d = sess /\ i = Len(wire[sess]) + 1 /\ wire'[d][i] = f
      <4>1. i = seq + 1 /\ f.seq = seq
        BY <2>1, <3>2
      <4>2. (i = 1 => tpc = "start1") /\ (i = 2 => tpc = "start2")
        <5>1. seq \in Nat /\ i = seq + 1
          BY <2>1, <4>1
        <5>2. (i = 1 => seq = 0) /\ (i = 2 => seq = 1)
          BY ONLY <5>1
        <5> QED
          BY ONLY <2>1, <5>2
      <4>3. wire'[d][i].seq = i - 1
        BY <2>1, <3>2, <4>1
      <4> QED
        BY <3>2, <4>2, <4>3
    <3> QED
      BY <2>3, <3>1, <3>2
  <2>6. GaplessSession'
    BY <2>5 DEF GaplessSession
  <2>7. tpc' = "start1" <=> seq' = 0
    BY <2>1
  <2>8. tpc' = "start2" <=> seq' = 1
    BY <2>1
  <2>9. Numbered'
    BY <1>1, <2>1, <2>4, <2>7, <2>8 DEF Numbered
  <2> QED
    BY <2>6, <2>9
<1> QED
  BY <1>3, <1>4

\* other steps of tx do,
LEMMA NumberedTx ==
    ASSUME TypeOK, SocketsInv, Numbered, GaplessSession, [Next]_vars, TxStep
    PROVE  Numbered' /\ GaplessSession'
<1>1. /\ UNCHANGED <<ok, mpc, spc, sess, socks>> /\ Live(tpc) /\ sess \in Conns
      /\ spc \notin {"loop", "connect"} /\ mpc # "connect" /\ sess = socks
  BY TxMoves
<1>2. CASE ~ok
  BY <1>1, <1>2 DEF Numbered, GaplessSession
<1>3. CASE ok /\ TxStart("start1", START_STREAMING, "start2")
  BY <1>3, NumberedSend DEF TxStart, TxFrame
<1>4. CASE ok /\ TxStart("start2", START_RSF, "check")
  BY <1>4, NumberedSend DEF TxStart, TxFrame
<1>5. CASE ok /\ TxSend("cmd", "sendCmd", "pollIp")
  <2>1. PICK r \in SendResults(On(tsock), ~ok) :
            /\ Transmit(On(tsock), TxFrame("cmd", Subtype("cmd", job), job), r)
            /\ tpc' \in {"exit", "pollIp"}
    BY <1>5 DEF TxSend
  <2>2. tpc = "sendCmd" /\ seq' = seq + 1
    BY <1>5 DEF TxSend
  <2> QED
    BY <1>5, <2>1, <2>2, NumberedSend DEF TxFrame
<1>6. CASE ok /\ TxSend("ip", "sendIp", "check")
  <2>1. PICK r \in SendResults(On(tsock), ~ok) :
            /\ Transmit(On(tsock), TxFrame("ip", Subtype("ip", job), job), r)
            /\ tpc' \in {"exit", "check"}
    BY <1>6 DEF TxSend
  <2>2. tpc = "sendIp" /\ seq' = seq + 1
    BY <1>6 DEF TxSend
  <2> QED
    BY <1>6, <2>1, <2>2, NumberedSend DEF TxFrame
<1>7. CASE \/ TxCheck \/ TxExit
           \/ TxPoll("cmd", "pollCmd", "sendCmd", "pollIp")
           \/ TxPoll("ip", "pollIp", "sendIp", "check")
  <2>1. wire' = wire /\ seq' = seq /\ link' = link
    BY <1>7 DEF TxCheck, TxExit, TxPoll, netVars
  <2>2. tpc \notin {"start1", "start2"} /\ tpc' \notin {"start1", "start2"}
    BY <1>7 DEF TxCheck, TxExit, TxPoll
  <2> QED
    BY <1>1, <2>1, <2>2 DEF Numbered, GaplessSession
<1> QED
  BY <1>2, <1>3, <1>4, <1>5, <1>6, <1>7 DEF TxStep

\* and so do all other steps.
LEMMA NumberedStep ==
    ASSUME TypeOK, SocketsInv, DeliveryInv, Numbered, GaplessSession, [Next]_vars
    PROVE  Numbered' /\ GaplessSession'
<1>1. CASE ~ok'
  BY <1>1 DEF Numbered, GaplessSession
<1>2. CASE TxStep
  BY <1>2, NumberedTx
<1>3. CASE MainSocket \/ SupSocket
  <2>1. /\ socks' = socks + 1 /\ socks' \in Conns /\ socks \in Nat
        /\ UNCHANGED <<ok, wire, tpc>> /\ ~Live(tpc)
    BY <1>3, BoundAssumption
    DEF MainSocket, SupSocket, OpenSocket, TypeOK, TypeSockets, Conns, txVars, SocketsInv,
        ThreadPhases
  <2>2. wire'[socks'] = <<>>
    <3>1. 1 \notin DOMAIN wire[socks']
      BY <2>1 DEF DeliveryInv, NothingEarly
    <3>2. /\ wire[socks'] \in Seq(Frame) /\ Len(wire[socks']) \in Nat
          /\ DOMAIN wire[socks'] = 1..Len(wire[socks'])
      BY <2>1, WireShape DEF TypeOK, TypeWires
    <3>3. ~(Len(wire[socks']) \in Nat \ {0})
      BY <3>1, <3>2
    <3> QED
      BY <2>1, <3>2, <3>3, EmptySeq
  <2> QED
    BY <2>1, <2>2 DEF Numbered, GaplessSession, Live
<1>4. CASE ok' /\ MainStep /\ ~MainSocket
  <2>1. MainConnect
    BY <1>4, MainMoves
  <2>2. /\ UNCHANGED <<ok, wire, tpc, socks>> /\ ~Live(tpc) /\ mpc = "connect"
    BY <2>1 DEF MainConnect, txVars, SocketsInv, ThreadPhases
  <2> QED
    BY <2>2 DEF Numbered, GaplessSession, Live
<1>5. CASE SupSpawn
  <2>1. /\ UNCHANGED <<ok, wire, socks, mpc>> /\ ok /\ mpc # "connect"
        /\ spc = "loop" /\ spc' = "joinRx" /\ tpc' = "start1" /\ seq' = 0
        /\ sess' = socks
    BY <1>5 DEF SupSpawn, FreshLocals, mainVars, netVars, SocketsInv, ThreadPhases
  <2>2. wire[socks] = <<>> /\ Len(wire[socks]) = 0
    BY <2>1 DEF Numbered
  <2> QED
    BY <2>1, <2>2 DEF Numbered, GaplessSession
<1>6. CASE ok' /\ SupStep /\ ~SupSpawn /\ ~SupSocket
  <2>1. UNCHANGED <<ok, wire, socks, mpc, tpc, seq, sess>>
    BY <1>6, SupMoves
  <2>2. spc' \in {"loop", "connect"} => spc \in {"loop", "connect"}
    BY <1>6, <2>1
    DEF SupStep, SupEnds, SupJoinRx, SupJoinTx, SupShut, SupClose, SupConnect
  <2>3. Live(tpc) => sess \in Conns /\ mpc # "connect" /\ spc # "connect"
    BY DEF SocketsInv, ThreadPhases, OwnSocket, OnlyNewest, TypeOK, TypeSockets, Conns
  <2>4. Live(tpc) /\ link'[sess] = "up" => link[sess] = "up"
    BY <2>3, LinkSteps
  <2> QED
    BY <2>1, <2>2, <2>4 DEF Numbered, GaplessSession, Live
<1>7. CASE ok' /\ (RxLocal \/ User \/ Device \/ Sigint \/ UNCHANGED vars)
  <2>1. ok /\ UNCHANGED <<wire, socks, mpc, spc, tpc, seq, sess>>
    BY <1>7, Bystanders
  <2>2. Live(tpc) => sess \in Conns /\ mpc # "connect" /\ spc # "connect"
    BY DEF SocketsInv, ThreadPhases, OwnSocket, OnlyNewest, TypeOK, TypeSockets, Conns
  <2>3. Live(tpc) /\ link'[sess] = "up" => link[sess] = "up"
    BY <2>2, LinkSteps
  <2> QED
    BY <2>1, <2>3 DEF Numbered, GaplessSession, Live
<1> QED
  BY <1>1, <1>2, <1>3, <1>4, <1>5, <1>6, <1>7 DEF Next, Terminated

\* Until a signal arrives, every connection begins with START_STREAMING and
\* START_RSF, and the frames on it are numbered without a gap.
THEOREM SessionsAreGapless == Spec => []GaplessSession
<1>1. Init => Numbered /\ GaplessSession
  BY SessionInit DEF SessionInv
<1>2. TypeOK /\ SocketsInv /\ DeliveryInv /\ Numbered /\ GaplessSession /\ [Next]_vars
          => Numbered' /\ GaplessSession'
  BY NumberedStep
<1> QED
  BY <1>1, <1>2, TypeCorrect, SocketsCorrect, DeliveryCorrect, PTL DEF Spec

-----------------------------------------------------------------------------
(* In the middle of a session: no command is swallowed *)

LEMMA HeardMember ==
    ASSUME NEW c \in Conns, NEW ch, NEW n
    PROVE  n \in Heard(c, ch)
              <=> \E i \in DOMAIN wire[c] : wire[c][i].ch = ch /\ wire[c][i].id = n
<1>1. n \in Heard(c, ch) <=> \E q \in Told(ch) : q[1] = c /\ n = q[3]
  BY DEF Heard
<1>2. ASSUME NEW q \in Told(ch), q[1] = c, n = q[3]
      PROVE  \E i \in DOMAIN wire[c] : wire[c][i].ch = ch /\ wire[c][i].id = n
  <2>1. PICK d \in Conns : \E i \in DOMAIN wire[d] :
            wire[d][i].ch = ch /\ q = <<d, i, wire[d][i].id>>
    BY <1>2, ToldMember
  <2> QED
    BY <1>2, <2>1
<1>3. ASSUME NEW i \in DOMAIN wire[c], wire[c][i].ch = ch, wire[c][i].id = n
      PROVE  \E q \in Told(ch) : q[1] = c /\ n = q[3]
  <2>1. <<c, i, n>> \in Told(ch)
    BY <1>3, ToldMember
  <2> QED
    BY <2>1
<1> QED
  BY <1>1, <1>2, <1>3

\* And in the next state.
LEMMA HeardMemberNext ==
    ASSUME NEW c \in Conns, NEW ch, NEW n
    PROVE  n \in Heard(c, ch)'
              <=> \E i \in DOMAIN wire'[c] : wire'[c][i].ch = ch /\ wire'[c][i].id = n
<1>1. n \in Heard(c, ch)' <=> \E q \in Told(ch)' : q[1] = c /\ n = q[3]
  BY DEF Heard
<1>2. ASSUME NEW q \in Told(ch)', q[1] = c, n = q[3]
      PROVE  \E i \in DOMAIN wire'[c] : wire'[c][i].ch = ch /\ wire'[c][i].id = n
  <2>1. PICK d \in Conns : \E i \in DOMAIN wire'[d] :
            wire'[d][i].ch = ch /\ q = <<d, i, wire'[d][i].id>>
    BY <1>2, ToldMemberNext
  <2> QED
    BY <1>2, <2>1
<1>3. ASSUME NEW i \in DOMAIN wire'[c], wire'[c][i].ch = ch, wire'[c][i].id = n
      PROVE  \E q \in Told(ch)' : q[1] = c /\ n = q[3]
  <2>1. <<c, i, n>> \in Told(ch)'
    BY <1>3, ToldMemberNext
  <2> QED
    BY <2>1
<1> QED
  BY <1>1, <1>2, <1>3

\* What the device has heard it has heard.
LEMMA HeardGrows ==
    ASSUME TypeOK, [Next]_vars, NEW c \in Conns, NEW ch, NEW n \in Heard(c, ch)
    PROVE  n \in Heard(c, ch)'
BY HeardMember, HeardMemberNext, WiresGrow

Serving(pc) == Live(pc) /\ pc # "exit"

\* Threads that run serve the newest connection, which exists and is past the
\* call of connect().
LEMMA ServedConnection ==
    ASSUME TypeOK, SocketsInv, [Next]_vars, Live(tpc)
    PROVE  sess \in Conns /\ (link'[sess] = "up" => link[sess] = "up")
<1>1. sess \in Conns /\ mpc # "connect" /\ spc # "connect"
  BY DEF SocketsInv, ThreadPhases, OwnSocket, OnlyNewest, TypeOK, TypeSockets, Conns
<1> QED
  BY <1>1, LinkSteps

\* A mailbox stays settled as long as nobody writes to it, tx does not take
\* from it, and what tx has in hand stays there.
LEMMA SettledKept ==
    ASSUME TypeOK, SocketsInv, [Next]_vars, NEW h \in Channels, Settled(h),
           prev'[h] = prev[h], slot'[h] = slot[h], pub'[h] = pub[h], sess' = sess,
           Serving(tpc') => Serving(tpc),
           tpc = Sending(h) => tpc' = Sending(h) /\ job' = job
    PROVE  Settled(h)'
<1> SUFFICES ASSUME Serving(tpc'), slot'[h].id > 0, ~Updated(h)', Sendable(h)'
             PROVE  \/ (slot[h].id \in Heard(sess, h))' \/ link'[sess] # "up"
                    \/ tpc' = Sending(h) /\ job' = slot'[h].id
  BY DEF Settled, Serving
<1>1. Serving(tpc) /\ slot[h].id > 0 /\ ~Updated(h) /\ Sendable(h)
  BY DEF Updated, Sendable
<1>2. sess \in Conns /\ (link'[sess] = "up" => link[sess] = "up")
  BY <1>1, ServedConnection DEF Serving
<1>3. CASE tpc = Sending(h) /\ job = slot[h].id
  BY <1>3
<1>4. CASE link[sess] # "up"
  BY <1>2, <1>4
<1>5. CASE slot[h].id \in Heard(sess, h)
  <2>1. PICK c \in Conns : c = sess /\ c = sess'
    BY <1>2
  <2>2. PICK n : n = slot[h].id /\ n = slot'[h].id
    OBVIOUS
  <2>3. n \in Heard(c, h)
    BY <1>5, <2>1, <2>2
  <2>4. n \in Heard(c, h)'
    BY <2>3, HeardGrows
  <2> QED
    BY <2>1, <2>2, <2>4 DEF Heard
<1> QED
  BY <1>1, <1>3, <1>4, <1>5 DEF Settled, Serving

\* The frame tx sends for the message in its hand is heard on the connection it
\* serves, or that connection is lost, or tx gives up.
LEMMA SettledSend ==
    ASSUME TypeOK, SocketsInv, [Next]_vars, NEW ch \in Channels, NEW next, Settled(ch),
           TxStep, TxSend(ch, Sending(ch), next), next # Sending(ch)
    PROVE  Settled(ch)'
<1>1. /\ UNCHANGED <<slot, pub, prev, sess, job>> /\ tpc = Sending(ch)
      /\ sess \in Conns /\ (On(tsock) = sess \/ On(tsock) = 0)
      /\ Serving(tpc)
  BY TxMoves DEF TxSend, Serving, Sending
<1>2. link'[sess] = "up" => link[sess] = "up"
  BY <1>1, ServedConnection DEF Serving
<1> DEFINE f == TxFrame(ch, Subtype(ch, job), job)
<1>3. PICK r \in SendResults(On(tsock), ~ok) :
          /\ Transmit(On(tsock), f, r)
          /\ IF r = "failed" THEN tpc' = "exit" ELSE tpc' = next
  BY DEF TxSend
<1> SUFFICES ASSUME Serving(tpc'), slot'[ch].id > 0, ~Updated(ch)', Sendable(ch)',
                    link'[sess] = "up"
             PROVE  (slot[ch].id \in Heard(sess, ch))'
  BY <1>1 DEF Settled, Serving
<1>4. slot[ch].id > 0 /\ ~Updated(ch) /\ Sendable(ch)
  BY <1>1 DEF Updated, Sendable
<1>5. PICK c \in Conns : c = sess /\ c = sess'
  BY <1>1
<1>6. PICK n : n = slot[ch].id /\ n = slot'[ch].id
  BY <1>1
<1>7. CASE n \in Heard(c, ch)
  <2>1. n \in Heard(c, ch)'
    BY <1>7, HeardGrows
  <2> QED
    BY <1>5, <1>6, <2>1 DEF Heard
<1>8. CASE job = n
  <2>1. r # "failed" /\ link[c] = "up"
    BY <1>2, <1>3, <1>5 DEF Serving
  <2>2. r = "sent" /\ On(tsock) = c
    BY <1>1, <1>5, <2>1 DEF SendResults, Conns
  <2>3. Sends(c, f)
    BY <1>3, <2>1, <2>2 DEF Transmit, Sends
  <2>4. f.ch = ch /\ f.id = n
    BY <1>8 DEF TxFrame
  <2> HIDE DEF f
  <2>5. Len(wire[c]) + 1 \in DOMAIN wire'[c] /\ wire'[c][Len(wire[c]) + 1] = f
    BY <2>3, WireGrowth DEF TypeOK
  <2>6. n \in Heard(c, ch)'
    BY <2>4, <2>5, HeardMemberNext
  <2> QED
    BY <1>5, <1>6, <2>6 DEF Heard
<1> QED
  BY <1>1, <1>2, <1>4, <1>5, <1>6, <1>7, <1>8 DEF Settled, Serving

\* A callback gives its message a stamp that tx cannot know.
LEMMA HandledCallback ==
    ASSUME TypeOK, SocketsInv, [Next]_vars, StrictClock, Handled,
           NEW ch \in Channels, Callback(ch)
    PROVE  Handled'
<1>1. /\ slot' = [slot EXCEPT ![ch] = [id |-> slot[ch].id + 1, stamp |-> clock + 1]]
      /\ clock' = clock + 1
      /\ \E v \in Values[ch] : pub' = [pub EXCEPT ![ch] = Append(@, v)]
  BY DEF Callback, Stamps
<1>2. /\ slot \in [Channels -> Mail] /\ prev \in [Channels -> Nat] /\ clock \in Nat
      /\ pub \in [Channels -> Seq(CmdValues \cup IpValues)]
  BY DEF TypeOK, TypeMessages
<1>3. UNCHANGED <<tpc, prev, job, sess>>
  BY DEF Callback, txVars, pairVars
<1>4. /\ slot'[ch].stamp = clock + 1 /\ \A h \in Channels : prev[h] <= clock
      /\ \A h \in Channels : h # ch => slot'[h] = slot[h] /\ pub'[h] = pub[h]
  BY <1>1, <1>2 DEF Handled
<1>5. ASSUME NEW h \in Channels
      PROVE  /\ prev'[h] <= clock' /\ slot'[h].stamp <= clock'
             /\ slot'[h].id > 0 => slot'[h].stamp > 0
             /\ Settled(h)'
  <2>1. prev[h] \in Nat /\ slot[h].stamp \in Nat
    BY <1>2 DEF Mail
  <2>2. CASE h = ch
    <3>1. Updated(h)'
      BY <1>2, <1>3, <1>4, <2>1, <2>2 DEF Updated
    <3> QED
      BY <1>1, <1>2, <1>3, <1>4, <2>1, <2>2, <3>1 DEF Settled
  <2>3. CASE h # ch
    <3>1. Settled(h)'
      BY <1>3, <1>4, <2>3, SettledKept DEF Handled
    <3> QED
      BY <1>1, <1>2, <1>3, <1>4, <2>1, <2>3, <3>1 DEF Handled
  <2> QED
    BY <2>2, <2>3
<1> QED
  BY <1>5 DEF Handled

\* A critical section on a mailbox: tx takes what is new into its hand.
LEMMA HandledPoll ==
    ASSUME TypeOK, SocketsInv, [Next]_vars, StrictClock, Handled,
           NEW ch \in Channels, NEW from, NEW next, TxStep,
           TxPoll(ch, from, Sending(ch), next),
           Serving(from), \A h \in Channels : from # Sending(h)
    PROVE  Handled'
<1>1. UNCHANGED <<slot, pub, clock, sess>> /\ tpc = from
  BY DEF TxPoll, boxVars, pairVars
<1>2. slot \in [Channels -> Mail] /\ prev \in [Channels -> Nat]
  BY DEF TypeOK, TypeMessages
<1>3. CASE ~Updated(ch)
  <2>1. UNCHANGED prev
    BY <1>3 DEF TxPoll
  <2>2. \A h \in Channels : Settled(h)'
    BY <1>1, <2>1, SettledKept DEF Handled
  <2> QED
    BY <1>1, <2>1, <2>2 DEF Handled
<1>4. CASE Updated(ch)
  <2>1. /\ prev'[ch] = slot[ch].stamp /\ job' = slot[ch].id
        /\ \A h \in Channels : h # ch => prev'[h] = prev[h]
        /\ tpc' = IF Sendable(ch) THEN Sending(ch) ELSE next
    BY <1>2, <1>4 DEF TxPoll
  <2>2. \A h \in Channels : h # ch => Settled(h)'
    BY <1>1, <2>1, SettledKept DEF Handled
  <2>3. Sendable(ch)' => Sendable(ch)
    BY <1>1 DEF Sendable
  <2>4. Settled(ch)'
    BY <1>1, <2>1, <2>3 DEF Settled
  <2> QED
    BY <1>1, <2>1, <2>2, <2>4 DEF Handled
<1> QED
  BY <1>3, <1>4

\* A step that leaves the mailboxes and the hand of tx alone, or sends what is in
\* the hand
LEMMA HandledElsewhere ==
    ASSUME TypeOK, SocketsInv, [Next]_vars, StrictClock, Handled,
           UNCHANGED <<slot, pub, clock, prev>>, \A h \in Channels : Settled(h)'
    PROVE  Handled'
BY DEF Handled

\* All steps of tx keep the mailboxes settled,
LEMMA HandledTx ==
    ASSUME TypeOK, SocketsInv, [Next]_vars, StrictClock, Handled, TxStep
    PROVE  Handled'
<1>1. /\ UNCHANGED <<slot, pub, clock, sess>> /\ Live(tpc)
      /\ \A h \in Channels : Settled(h)
  BY TxMoves DEF Handled
<1>2. CASE TxPoll("cmd", "pollCmd", "sendCmd", "pollIp")
  BY <1>2, HandledPoll DEF Channels, Sending, Serving, Live
<1>3. CASE TxPoll("ip", "pollIp", "sendIp", "check")
  BY <1>3, HandledPoll DEF Channels, Sending, Serving, Live
<1>4. CASE \/ TxStart("start1", START_STREAMING, "start2")
           \/ TxStart("start2", START_RSF, "check")
           \/ TxCheck \/ TxExit
  <2>1. UNCHANGED <<prev, job>> /\ (Serving(tpc') => Serving(tpc))
        /\ \A h \in Channels : tpc # Sending(h)
    BY <1>4 DEF TxStart, TxCheck, TxExit, Serving, Live, Sending
  <2>2. \A h \in Channels : Settled(h)'
    BY <1>1, <2>1, SettledKept
  <2> QED
    BY <1>1, <2>1, <2>2, HandledElsewhere
<1>5. ASSUME NEW ch \in Channels, NEW next, TxSend(ch, Sending(ch), next),
             \A h \in Channels : next # Sending(h)
      PROVE  Handled'
  <2>1. UNCHANGED <<prev, job>> /\ tpc = Sending(ch) /\ Serving(tpc)
    BY <1>5 DEF TxSend, Serving, Live, Sending
  <2>2. \A h \in Channels : h # ch => tpc # Sending(h)
    BY <2>1 DEF Sending, Channels
  <2>3. \A h \in Channels : h # ch => Settled(h)'
    BY <1>1, <2>1, <2>2, SettledKept
  <2>4. Settled(ch)'
    BY <1>1, <1>5, SettledSend
  <2> QED
    BY <1>1, <2>1, <2>3, <2>4, HandledElsewhere
<1>6. CASE TxSend("cmd", "sendCmd", "pollIp")
  BY <1>5, <1>6 DEF Channels, Sending
<1>7. CASE TxSend("ip", "sendIp", "check")
  BY <1>5, <1>7 DEF Channels, Sending
<1> QED
  BY <1>2, <1>3, <1>4, <1>6, <1>7 DEF TxStep

\* and all others do.
LEMMA HandledStep ==
    ASSUME TypeOK, SocketsInv, Handled, [Next]_vars
    PROVE  Handled'
<1> SUFFICES ASSUME StrictClock PROVE Handled'
  BY DEF Handled
<1>1. \A h \in Channels : Settled(h)
  BY DEF Handled
<1>2. CASE TxStep
  BY <1>2, HandledTx
<1>3. CASE User
  BY <1>3, HandledCallback DEF User
<1>4. CASE SupSpawn
  <2>1. UNCHANGED <<slot, pub, clock>> /\ \A h \in Channels : prev'[h] = 0
    BY <1>4 DEF SupSpawn, FreshLocals, boxVars
  <2>2. \A h \in Channels : slot[h].stamp \in Nat /\ clock \in Nat
    BY DEF TypeOK, TypeMessages, Mail
  <2>3. \A h \in Channels : Settled(h)'
    BY <2>1, <2>2 DEF Settled, Updated, Handled
  <2> QED
    BY <2>1, <2>2, <2>3 DEF Handled
<1>5. CASE \/ MainStep \/ (SupStep /\ ~SupSpawn) \/ RxLocal \/ Device \/ Sigint
           \/ UNCHANGED vars
  <2>1. UNCHANGED <<slot, pub, clock, prev, job, tpc, sess>>
    <3>1. CASE MainStep
      BY <3>1 DEF MainStep, MainSocket, MainConnect, MainSpinReturns, MainStop,
                  MainShutdown, MainClose, MainJoin, txVars, boxVars, pairVars
    <3>2. CASE SupStep /\ ~SupSpawn
      BY <3>2, SupMoves
    <3>3. CASE RxLocal \/ Device \/ Sigint \/ UNCHANGED vars
      BY <3>3 DEF RxLocal, RxCheck, RxFail, RxExit, Device, RxFrame, RxBreak, PeerCloses,
                  PeerResets, PeerVanishes, Kernel, GiveUp, Sigint, vars, txVars, boxVars,
                  pairVars
    <3> QED
      BY <1>5, <3>1, <3>2, <3>3
  <2>2. \A h \in Channels : Settled(h)'
    BY <1>1, <2>1, SettledKept
  <2> QED
    BY <2>1, <2>2, HandledElsewhere
<1> QED
  BY <1>2, <1>3, <1>4, <1>5 DEF Next, Terminated

\* With a clock that gives two callbacks different times, what tx takes for
\* handled was heard on the connection it serves, or that connection is lost.
THEOREM NoCommandSwallowed == ASSUME StrictClock PROVE Spec => []HandledMeansSent
<1>1. Init => Handled
  BY SessionInit DEF SessionInv
<1>2. TypeOK /\ SocketsInv /\ Handled /\ [Next]_vars => Handled'
  BY HandledStep
<1>3. Handled => HandledMeansSent
  <2> SUFFICES ASSUME Handled, NEW ch \in Channels,
                      tpc = IF ch = "cmd" THEN "pollCmd" ELSE "pollIp",
                      slot[ch].id > 0, ~Updated(ch), Sendable(ch)
               PROVE  slot[ch].id \in Heard(sess, ch) \/ link[sess] # "up"
    BY DEF HandledMeansSent
  <2>1. Live(tpc) /\ tpc # "exit" /\ tpc # Sending(ch)
    BY DEF Live, Sending
  <2> QED
    BY <2>1 DEF Handled, Settled
<1> QED
  BY <1>1, <1>2, <1>3, TypeCorrect, SocketsCorrect, PTL DEF Spec

\* The conjuncts together, as a run checks them
THEOREM SessionCorrect == Spec => []SessionInv
<1>1. Init => SessionInv /\ GaplessSession /\ StopDelivered
  BY SessionInit
<1>2. /\ TypeOK /\ SocketsInv /\ DeliveryInv /\ SessionInv /\ GaplessSession
      /\ StopDelivered /\ [Next]_vars
      => SessionInv' /\ GaplessSession' /\ StopDelivered'
  BY ReachedStep, NumberedStep, HandledStep, OvertakingStep, StoppingStep DEF SessionInv
<1> QED
  BY <1>1, <1>2, TypeCorrect, SocketsCorrect, DeliveryCorrect, PTL DEF Spec
=============================================================================
