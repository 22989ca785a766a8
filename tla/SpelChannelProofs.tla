------------------------- MODULE SpelChannelProofs -------------------------
(* That one direction of the connection, as SpelWire models it, implements  *)
(* FrameChannel, for all scripts and sizes.                                 *)
EXTENDS SpelWireProofs

\* Cell c was written before cell d of the same writer: it belongs to an earlier
\* frame, or stands earlier in the same one.
Before(c, d) ==
    c[1][1] = d[1][1] => \/ c[1][2] < d[1][2]
                         \/ c[1][2] = d[1][2] /\ c[2] < d[2]

\* What a writer has put stands before its next cell, and in the order in which
\* it was put.  A frame that a writer is in is not complete.
CellOrder ==
    /\ \A w \in Writers : Busy(w) => off[w] < Whole(<<w, at[w]>>)
    /\ \A w \in Writers, j \in DOMAIN stream :
          Before(stream[j], <<<<w, at[w]>>, off[w] + 1>>)
    /\ \A j \in DOMAIN stream : \A i \in 1..(j - 1) : Before(stream[i], stream[j])

\* What stands before a cell stands before the later ones of the same writer.
LEMMA BeforeLater ==
    ASSUME NEW c, NEW d, NEW e, Before(c, d), d[1][1] = e[1][1],
           c[1][2] \in Nat, d[1][2] \in Nat, e[1][2] \in Nat,
           c[2] \in Nat, d[2] \in Nat, e[2] \in Nat,
           \/ d[1][2] < e[1][2]
           \/ d[1][2] = e[1][2] /\ d[2] <= e[2]
    PROVE  Before(c, e)
  BY DEF Before

\* Positions, cells and what a writer may put
LEMMA CellFacts ==
    ASSUME TypeOK, NEW j \in DOMAIN stream
    PROVE  /\ stream[j] \in Frames \X Nat
           /\ stream[j][1][1] \in Writers
           /\ stream[j][1][2] \in DOMAIN Script[stream[j][1][1]]
           /\ stream[j][1] = <<stream[j][1][1], stream[j][1][2]>>
           /\ stream[j][2] \in Nat
           /\ stream[j][1][2] \in Nat
<1>1. stream[j] \in Frames \X Nat
  BY ElementOfSeq, LenProperties DEF TypeOK
<1>2. PICK w \in Writers : stream[j][1] \in {<<w, k>> : k \in DOMAIN Script[w]}
  BY <1>1 DEF Frames
<1>3. PICK k \in DOMAIN Script[w] : stream[j][1] = <<w, k>>
  BY <1>2
<1>4. k \in Nat
  <2>1. Script[w] \in Seq([size : Sizes, tested : BOOLEAN])
    BY ScriptAssumption
  <2>. QED
    BY <2>1, LenProperties
<1>. QED
  BY <1>1, <1>3, <1>4

\* send() of some cells keeps the order: they come next in their frame.
LEMMA PutOrder ==
    ASSUME TypeOK, CellOrder, NEW w \in Writers, Put(w)
    PROVE  CellOrder'
<1>. DEFINE f == <<w, at[w]>>
            W == Whole(f)
            L == Len(stream)
<1>1. /\ Len(Script[w]) \in Nat /\ DOMAIN Script[w] = 1..Len(Script[w])
      /\ at \in [Writers -> Nat \ {0}] /\ off \in [Writers -> Nat]
  BY ScriptAssumption, LenProperties DEF TypeOK
<1>2. PICK n \in Nat \ {0} :
          /\ f \in Frames /\ off[w] \in Nat /\ off[w] + n <= W
          /\ DOMAIN stream' = 1..(L + n)
          /\ \A j \in 1..L : stream'[j] = stream[j]
          /\ \A j \in (L + 1)..(L + n) : stream'[j] = <<f, off[w] + (j - L)>>
          /\ IF off[w] + n = W
             THEN /\ at' = [at EXCEPT ![w] = @ + 1]
                  /\ off' = [off EXCEPT ![w] = 0]
             ELSE /\ off' = [off EXCEPT ![w] = @ + n]
                  /\ UNCHANGED at
  BY PutCells
<1>3. W \in Nat \ {0}
  BY <1>2, FrameFacts
<1>. HIDE DEF W
<1>4. L \in Nat /\ DOMAIN stream = 1..L
  BY StreamFacts
<1>5. ASSUME NEW j \in (L + 1)..(L + n)
      PROVE  /\ stream'[j][1][1] = w /\ stream'[j][1][2] = at[w]
             /\ stream'[j][2] = off[w] + (j - L)
  BY <1>2, <1>4
<1>6. /\ at'[w] = IF off[w] + n = W THEN at[w] + 1 ELSE at[w]
      /\ off'[w] = IF off[w] + n = W THEN 0 ELSE off[w] + n
      /\ \A u \in Writers \ {w} : at'[u] = at[u] /\ off'[u] = off[u]
  BY <1>2, <1>1
<1>7. ASSUME NEW u \in Writers, Busy(u)'
      PROVE  off'[u] < Whole(<<u, at'[u]>>)
  <2>1. CASE u # w
    BY <2>1, <1>6, <1>7 DEF CellOrder, Busy
  <2>2. CASE u = w /\ off[w] + n = W
    <3>1. <<w, at'[w]>> \in Frames
      <4>1. at'[w] \in 1..Len(Script[w])
        BY <1>7, <2>2, <1>6, <1>1 DEF Busy
      <4>. QED
        BY <4>1, <1>1 DEF Frames
    <3>. QED
      BY <3>1, <2>2, <1>6, FrameFacts
  <2>3. CASE u = w /\ off[w] + n # W
    <3>1. off[w] + n < W
      <4>1. off[w] \in Nat /\ off[w] + n <= W
        BY <1>2
      <4>. QED
        BY <1>3, <2>3, <4>1
    <3>2. off'[u] = off[w] + n /\ at'[u] = at[w]
      BY <1>6, <2>3
    <3>3. <<u, at'[u]>> = f
      BY <2>3, <3>2 DEF f
    <3>. QED
      BY <3>1, <3>2, <3>3 DEF W
  <2>. QED
    BY <2>1, <2>2, <2>3
<1>8. ASSUME NEW u \in Writers, NEW j \in DOMAIN stream'
       PROVE  Before(stream'[j], <<<<u, at'[u]>>, off'[u] + 1>>)
  <2>1. CASE j \in 1..L
    <3>1. stream'[j] = stream[j] /\ j \in DOMAIN stream
      BY <2>1, <1>2, <1>4
    <3>2. Before(stream[j], <<<<u, at[u]>>, off[u] + 1>>)
      BY <3>1 DEF CellOrder
    <3>3. stream[j][1][2] \in Nat /\ stream[j][2] \in Nat
      BY <3>1, CellFacts
    <3>4. \/ at[u] < at'[u]
          \/ at[u] = at'[u] /\ off[u] + 1 <= off'[u] + 1
      <4>1. CASE u = w
        BY <4>1, <1>6, <1>1, <1>2, <1>3
      <4>2. CASE u # w
        BY <4>2, <1>6, <1>1
      <4>. QED
        BY <4>1, <4>2
    <3>5. /\ at[u] \in Nat /\ off[u] + 1 \in Nat
          /\ at'[u] \in Nat /\ off'[u] + 1 \in Nat
      <4>1. CASE u = w
        BY <4>1, <1>6, <1>1, <1>2, <1>3
      <4>2. CASE u # w
        BY <4>2, <1>6, <1>1
      <4>. QED
        BY <4>1, <4>2
    <3>. DEFINE d == <<<<u, at[u]>>, off[u] + 1>>
                e == <<<<u, at'[u]>>, off'[u] + 1>>
    <3>6. Before(stream[j], e)
      <4>1. /\ d[1][1] = u /\ d[1][2] = at[u] /\ d[2] = off[u] + 1
            /\ e[1][1] = u /\ e[1][2] = at'[u] /\ e[2] = off'[u] + 1
            /\ Before(stream[j], d)
        BY <3>2
      <4>. HIDE DEF d, e
      <4>. QED
        BY <4>1, <3>3, <3>4, <3>5, BeforeLater
    <3>. QED
      BY <3>1, <3>6
  <2>2. CASE j \in (L + 1)..(L + n)
    <3>1. CASE u = w
      BY <3>1, <2>2, <1>5, <1>6, <1>1, <1>2, <1>3, <1>4 DEF Before
    <3>2. CASE u # w
      BY <3>2, <2>2, <1>5 DEF Before
    <3>. QED
      BY <3>1, <3>2
  <2>. QED
    BY <2>1, <2>2, <1>2, <1>4, <1>3
<1>9. ASSUME NEW j \in DOMAIN stream', NEW i \in 1..(j - 1)
       PROVE  Before(stream'[i], stream'[j])
  <2>1. CASE j \in 1..L
    BY <2>1, <1>2, <1>4 DEF CellOrder
  <2>2. CASE j \in (L + 1)..(L + n) /\ i \in 1..L
    <3>1. Before(stream[i], <<<<w, at[w]>>, off[w] + 1>>)
      BY <2>2, <1>2, <1>4 DEF CellOrder
    <3>2. stream[i][1][2] \in Nat /\ stream[i][2] \in Nat
      BY <2>2, <1>2, <1>4, CellFacts
    <3>. DEFINE d == <<<<w, at[w]>>, off[w] + 1>>
    <3>3. /\ d[1][1] = w /\ d[1][2] = at[w] /\ d[2] = off[w] + 1
          /\ Before(stream[i], d)
      BY <3>1
    <3>4. /\ stream'[j][1][1] = w /\ stream'[j][1][2] = at[w]
          /\ stream'[j][2] = off[w] + (j - L)
      BY <2>2, <1>5
    <3>5. /\ at[w] \in Nat /\ off[w] + 1 \in Nat /\ off[w] + (j - L) \in Nat
          /\ off[w] + 1 <= off[w] + (j - L)
      BY <2>2, <1>1, <1>2, <1>3, <1>4
    <3>. HIDE DEF d
    <3>6. Before(stream[i], stream'[j])
      BY <3>2, <3>3, <3>4, <3>5, BeforeLater
    <3>. QED
      BY <3>6, <2>2, <1>2, <1>4
  <2>3. CASE j \in (L + 1)..(L + n) /\ i \in (L + 1)..(L + n)
    BY <2>3, <1>2, <1>4, <1>5, <1>1, <1>3 DEF Before
  <2>. QED
    BY <2>1, <2>2, <2>3, <1>2, <1>4, <1>3
<1>. QED
  BY <1>7, <1>8, <1>9 DEF CellOrder

\* A writer that leaves its frame goes on behind it.
LEMMA PutFailsOrder ==
    ASSUME TypeOK, CellOrder, NEW w \in Writers, PutFails(w)
    PROVE  CellOrder'
<1>1. /\ Len(Script[w]) \in Nat /\ DOMAIN Script[w] = 1..Len(Script[w])
      /\ at \in [Writers -> Nat \ {0}] /\ off \in [Writers -> Nat]
  BY ScriptAssumption, LenProperties DEF TypeOK
<1>2. /\ stream' = stream /\ off'[w] = 0 /\ at'[w] \in Nat /\ at[w] < at'[w]
      /\ \A u \in Writers \ {w} : at'[u] = at[u] /\ off'[u] = off[u]
  BY <1>1 DEF PutFails, Busy
<1>3. ASSUME NEW u \in Writers, Busy(u)'
      PROVE  off'[u] < Whole(<<u, at'[u]>>)
  <2>1. CASE u # w
    BY <2>1, <1>2, <1>3 DEF CellOrder, Busy
  <2>2. CASE u = w
    <3>1. <<w, at'[w]>> \in Frames
      <4>1. at'[w] \in 1..Len(Script[w])
        BY <1>3, <2>2, <1>2, <1>1 DEF Busy
      <4>. QED
        BY <4>1, <1>1 DEF Frames
    <3>. QED
      BY <3>1, <2>2, <1>2, FrameFacts
  <2>. QED
    BY <2>1, <2>2
<1>4. ASSUME NEW u \in Writers, NEW j \in DOMAIN stream'
      PROVE  Before(stream'[j], <<<<u, at'[u]>>, off'[u] + 1>>)
  <2>1. Before(stream[j], <<<<u, at[u]>>, off[u] + 1>>)
    BY <1>2 DEF CellOrder
  <2>2. stream[j][1][2] \in Nat /\ stream[j][2] \in Nat
    BY <1>2, CellFacts
  <2>. QED
    BY <2>1, <2>2, <1>1, <1>2 DEF Before
<1>. QED
  BY <1>2, <1>3, <1>4 DEF CellOrder

\* A RST leaves a part of the stream, in its order.
LEMMA ResetOrder == TypeOK /\ CellOrder /\ Reset => CellOrder'
<1>. SUFFICES ASSUME TypeOK, CellOrder, Reset PROVE CellOrder'
  OBVIOUS
<1>1. PICK n \in start..Len(stream) : stream' = SubSeq(stream, 1, n)
  BY ResetKeeps
<1>2. /\ n \in Nat /\ DOMAIN stream = 1..Len(stream) /\ Len(stream) \in Nat
      /\ n <= Len(stream)
  BY <1>1, LenProperties DEF TypeOK
<1>3. \A j \in 1..n : stream[j] \in Frames \X Nat
  BY <1>2, ElementOfSeq DEF TypeOK
<1>4. DOMAIN stream' = 1..n /\ \A j \in 1..n : stream'[j] = stream[j]
  <2>1. /\ stream' \in Seq(Frames \X Nat) /\ Len(stream') = n
        /\ \A j \in 1..n : stream'[j] = stream[1 + j - 1]
    BY <1>1, <1>2, <1>3, SubSeqProperties
  <2>. QED
    BY <2>1, LenProperties
<1>5. UNCHANGED <<at, off>>
  BY DEF Reset, writeVars
<1>. QED
  BY <1>2, <1>4, <1>5 DEF CellOrder, Busy

\* The order in which the writers put their cells is the order of the stream.
LEMMA CellsInOrder == Spec => []CellOrder
<1>1. Init => CellOrder
  <2>. SUFFICES ASSUME Init PROVE CellOrder
    OBVIOUS
  <2>1. DOMAIN stream = {}
    BY DEF Init
  <2>2. ASSUME NEW w \in Writers, Busy(w) PROVE off[w] < Whole(<<w, at[w]>>)
    <3>1. /\ Len(Script[w]) \in Nat /\ DOMAIN Script[w] = 1..Len(Script[w])
      BY ScriptAssumption, LenProperties
    <3>2. <<w, at[w]>> \in Frames
      BY <2>2, <3>1 DEF Init, Busy, Frames
    <3>. QED
      BY <3>2, FrameFacts DEF Init
  <2>. QED
    BY <2>1, <2>2 DEF CellOrder
<1>2. TypeOK /\ CellOrder /\ [Next]_vars => CellOrder'
  <2>. SUFFICES ASSUME TypeOK, CellOrder, [Next]_vars PROVE CellOrder'
    OBVIOUS
  <2>1. CASE \E w \in Writers : Put(w)
    BY <2>1, PutOrder
  <2>2. CASE \E w \in Writers : PutFails(w)
    BY <2>2, PutFailsOrder
  <2>3. CASE Reset
    BY <2>3, ResetOrder
  <2>4. CASE Read \/ Shut \/ UNCHANGED vars
    <3>1. UNCHANGED <<at, off, stream>>
      BY <2>4 DEF Read, RecvHeader, RecvPayload, RecvCrc, RecvEof, Shut, vars, writeVars
    <3>. QED
      BY <3>1 DEF CellOrder, Busy
  <2>. QED
    BY <2>1, <2>2, <2>3, <2>4 DEF Next
<1>. QED
  BY <1>1, <1>2, WireTypeCorrect, PTL DEF Spec

-----------------------------------------------------------------------------
(* The refinement *)

\* The frames of a writer and how they are numbered
LEMMA ScriptFacts ==
    ASSUME NEW w \in Writers
    PROVE  Len(Script[w]) \in Nat /\ DOMAIN Script[w] = 1..Len(Script[w])
  BY ScriptAssumption, LenProperties

\* A frame of which the reader has accepted the CRC is one its writer has left.
LEMMA AcceptedIsSent ==
    ASSUME TypeOK, CellOrder, RecvCrc, CrcMatches(HeaderSize + paylen + CrcSize),
           NEW f, f = stream[start + 1][1]
    PROVE  /\ f[1] \in Writers /\ f = <<f[1], f[2]>>
           /\ f[2] \in 1..Len(Script[f[1]])
           /\ f[2] <= at[f[1]] - 1
           /\ start + 1 \in DOMAIN stream /\ stream[start + 1] = <<f, 1>>
<1>. DEFINE n == HeaderSize + paylen + CrcSize
            w == f[1]
            k == f[2]
<1>1. /\ n \in Nat \ {0} /\ start \in Nat /\ Len(stream) \in Nat
      /\ start + n <= Len(stream) /\ DOMAIN stream = 1..Len(stream)
      /\ n = Whole(f) /\ Taken(n) = Cells(f, 1, n)
  BY SizeAssumption, LenProperties DEF RecvCrc, CrcMatches, Ready, TypeOK
<1>. HIDE DEF n
<1>2. /\ start + 1 \in DOMAIN stream /\ start + n \in DOMAIN stream
      /\ start + 1 - 1 + 1 = start + 1
  BY <1>1
<1>3. stream[start + 1] = <<f, 1>> /\ stream[start + n] = <<f, n>>
  <2>1. \A j \in (start + 1)..(start + n) : stream[j] \in Frames \X Nat
    BY <1>1, ElementOfSeq DEF TypeOK
  <2>2. \A j \in 1..n : Taken(n)[j] = stream[start + 1 + j - 1]
    <3>1. start + 1 \in Int /\ start + n \in Int
          /\ (start + n) - (start + 1) + 1 = n
      BY <1>1
    <3>. QED
      BY <3>1, <2>1, SubSeqProperties DEF Taken
  <2>3. \A j \in 1..n : Cells(f, 1, n)[j] = <<f, j>>
    BY <1>1 DEF Cells
  <2>4. 1 \in 1..n /\ n \in 1..n /\ start + 1 + 1 - 1 = start + 1
        /\ start + 1 + n - 1 = start + n
    BY <1>1
  <2>. QED
    BY <2>2, <2>3, <2>4, <1>1
<1>4. w \in Writers /\ f = <<w, k>> /\ k \in 1..Len(Script[w]) /\ k \in Nat
  BY <1>2, CellFacts, ScriptFacts
<1>5. Before(<<f, n>>, <<<<w, at[w]>>, off[w] + 1>>)
  BY <1>2, <1>3, <1>4 DEF CellOrder
<1>6. k < at[w] \/ (k = at[w] /\ n < off[w] + 1)
  BY <1>5 DEF Before
<1>7. at[w] \in Nat /\ off[w] \in Nat
  BY <1>4 DEF TypeOK
<1>8. ~(k = at[w] /\ n < off[w] + 1)
  <2>. SUFFICES ASSUME k = at[w], n < off[w] + 1 PROVE FALSE
    OBVIOUS
  <2>1. Busy(w)
    BY <1>4, ScriptFacts DEF Busy
  <2>2. off[w] < Whole(f)
    BY <2>1, <1>4 DEF CellOrder
  <2>3. off[w] < n
    BY <2>2, <1>1
  <2>. QED
    BY <2>3, <1>1, <1>7
<1>. QED
  BY <1>2, <1>3, <1>4, <1>6, <1>7, <1>8

\* ... and the frames of that writer that were accepted before have smaller numbers.
LEMMA AcceptedComesNext ==
    ASSUME TypeOK, InStep, EndsBefore, CellOrder, NEW f, NEW i \in DOMAIN heard,
           start + 1 \in DOMAIN stream, stream[start + 1] = <<f, 1>>,
           heard[i].frame[1] = f[1]
    PROVE  heard[i].frame[2] < f[2]
<1>. DEFINE g == heard[i].frame
            a == heard[i].from + 1
            b == End(heard[i])
<1>1. /\ g \in Frames /\ a \in 1..start /\ b \in 1..start /\ start \in Nat
      /\ Len(stream) \in Nat /\ DOMAIN stream = 1..Len(stream)
  BY HeardPlaces, LenProperties DEF TypeOK
<1>2. Whole(g) \in Nat \ {0} /\ b - a + 1 = Whole(g)
  BY HeardPlaces, FrameFacts DEF End
<1>3. stream[a] = <<g, 1>>
  <2>1. SubSeq(stream, a, b) = Cells(g, 1, Whole(g))
    BY DEF InStep
  <2>. HIDE DEF a, b, g
  <2>2. \A j \in a..b : stream[j] \in Frames \X Nat
    <3>1. \A j \in a..b : j \in 1..Len(stream)
      <4>1. start \in 0..Len(stream)
        BY DEF TypeOK
      <4>. QED
        BY <4>1, <1>1
    <3>. QED
      BY <3>1, ElementOfSeq DEF TypeOK
  <2>3. \A j \in 1..(b - a + 1) : SubSeq(stream, a, b)[j] = stream[a + j - 1]
    BY <1>1, <2>2, SubSeqProperties
  <2>4. 1 \in 1..(b - a + 1) /\ a + 1 - 1 = a
    BY <1>1, <1>2
  <2>5. Cells(g, 1, Whole(g))[1] = <<g, 1>>
    BY <1>2 DEF Cells
  <2>. QED
    BY <2>1, <2>3, <2>4, <2>5
<1>. HIDE DEF a, b
<1>4. Before(stream[a], stream[start + 1])
  <2>1. start + 1 \in DOMAIN stream /\ a \in 1..((start + 1) - 1)
    BY <1>1
  <2>. QED
    BY <2>1 DEF CellOrder
<1>5. g[2] < f[2] \/ (g[2] = f[2] /\ 1 < 1)
  BY <1>3, <1>4 DEF Before
<1>. QED
  BY <1>5

\* What the refinement calls sent, got and failed
Done   == [w \in Writers |-> at[w] - 1]
Gotten == [i \in DOMAIN heard |-> heard[i].frame]

\* Every step of a writer is a frame it is done with, or nothing.
LEMMA WriterStep ==
    ASSUME TypeOK, NEW w \in Writers, Put(w) \/ PutFails(w)
    PROVE  \/ Channel!Send(w)
           \/ UNCHANGED Channel!channelVars
<1>1. /\ at \in [Writers -> Nat \ {0}] /\ Len(Script[w]) \in Nat
      /\ at[w] <= Len(Script[w])
  BY ScriptFacts DEF TypeOK, Put, PutFails, Busy
<1>2. UNCHANGED <<heard, phase>>
  BY DEF Put, PutFails, readVars
<1>3. CASE at' = at
  BY <1>2, <1>3 DEF Channel!channelVars
<1>4. ASSUME NEW m \in 1..Len(Script[w]), at[w] <= m,
             at' = [at EXCEPT ![w] = m + 1]
      PROVE  Channel!Send(w)
  <2>1. Done[w] = at[w] - 1 /\ m > Done[w]
    BY <1>1, <1>4 DEF Done
  <2>2. Done' = [Done EXCEPT ![w] = m]
    <3>1. Done' = [u \in Writers |-> at'[u] - 1]
      BY DEF Done
    <3>2. \A u \in Writers : at'[u] - 1 = IF u = w THEN m ELSE at[u] - 1
      BY <1>1, <1>4
    <3>3. [Done EXCEPT ![w] = m] = [u \in Writers |-> IF u = w THEN m ELSE at[u] - 1]
      BY DEF Done
    <3>. QED
      BY <3>1, <3>2, <3>3
  <2>3. m \in 1..[u \in Writers |-> Len(Script[u])][w]
    OBVIOUS
  <2>. QED
    BY <1>2, <2>1, <2>2, <2>3 DEF Channel!Send, Done
<1>5. \/ at' = at
      \/ \E m \in 1..Len(Script[w]) : at[w] <= m /\ at' = [at EXCEPT ![w] = m + 1]
  <2>1. at[w] \in 1..Len(Script[w]) /\ Len(Script[w]) \in 1..Len(Script[w])
    BY <1>1
  <2>2. \/ at' = at
        \/ at' = [at EXCEPT ![w] = at[w] + 1]
        \/ at' = [at EXCEPT ![w] = Len(Script[w]) + 1]
    BY <1>1 DEF Put, PutFails
  <2>. QED
    BY <1>1, <2>1, <2>2
<1>. QED
  BY <1>3, <1>4, <1>5

\* An accepted CRC is a delivery, a refused one a failure.
LEMMA CrcStep ==
    ASSUME TypeOK, InStep, EndsBefore, CellOrder, RecvCrc
    PROVE  \/ \E w \in Writers : \E n \in 1..Len(Script[w]) : Channel!Deliver(w, n)
           \/ Channel!Fail
<1>. DEFINE n == HeaderSize + paylen + CrcSize
            f == stream[start + 1][1]
            h == [frame |-> f, from |-> start]
<1>1. CASE ~CrcMatches(n)
  BY <1>1 DEF RecvCrc, Channel!Fail, writeVars
<1>2. CASE CrcMatches(n)
  <2>1. /\ f[1] \in Writers /\ f = <<f[1], f[2]>>
        /\ f[2] \in 1..Len(Script[f[1]]) /\ f[2] <= at[f[1]] - 1
        /\ start + 1 \in DOMAIN stream /\ stream[start + 1] = <<f, 1>>
    BY <1>2, AcceptedIsSent
  <2>2. /\ heard' = Append(heard, h) /\ UNCHANGED at
        /\ phase = "crc" /\ phase' = "header"
    BY <1>2 DEF RecvCrc, writeVars
  <2>. HIDE DEF f
  <2>3. f \in Frames
    <3>1. f \in {<<f[1], k>> : k \in DOMAIN Script[f[1]]}
      BY <2>1, ScriptFacts
    <3>. QED
      BY <2>1, <3>1 DEF Frames
  <2>4. /\ heard \in Seq([frame : Frames, from : Nat]) /\ Len(heard) \in Nat
        /\ DOMAIN heard = 1..Len(heard) /\ DOMAIN heard' = 1..(Len(heard) + 1)
        /\ heard'[Len(heard) + 1] = h
        /\ \A i \in DOMAIN heard : heard'[i] = heard[i]
    <3>1. heard \in Seq([frame : Frames, from : Nat])
      BY DEF TypeOK
    <3>2. h \in [frame : Frames, from : Nat]
      BY <2>3 DEF TypeOK
    <3>3. /\ Len(heard') = Len(heard) + 1 /\ heard' \in Seq([frame : Frames, from : Nat])
          /\ heard'[Len(heard) + 1] = h
          /\ \A i \in 1..Len(heard) : heard'[i] = heard[i]
      BY <2>2, <3>1, <3>2, AppendProperties
    <3>. QED
      BY <3>1, <3>3, LenProperties
  <2>5. Gotten' = Append(Gotten, f)
    <3>1. Gotten \in Seq(Frames) /\ Len(Gotten) = Len(heard)
      <4>1. \A i \in 1..Len(heard) : heard[i].frame \in Frames
        BY <2>4, HeardPlaces
      <4>2. Gotten \in [1..Len(heard) -> Frames]
        BY <4>1, <2>4 DEF Gotten
      <4>. QED
        BY <4>2, <2>4, SeqDef, LenProperties DEF Gotten
    <3>2. /\ Append(Gotten, f) \in Seq(Frames)
          /\ Len(Append(Gotten, f)) = Len(heard) + 1
          /\ \A i \in 1..Len(heard) : Append(Gotten, f)[i] = Gotten[i]
          /\ Append(Gotten, f)[Len(heard) + 1] = f
      BY <3>1, AppendProperties, <2>3
    <3>3. \A i \in 1..(Len(heard) + 1) : Gotten'[i] = Append(Gotten, f)[i]
      BY <2>4, <3>2 DEF Gotten
    <3>4. Gotten' = [i \in 1..(Len(heard) + 1) |-> Append(Gotten, f)[i]]
      BY <3>3, <2>4 DEF Gotten
    <3>5. Append(Gotten, f) = [i \in 1..(Len(heard) + 1) |-> Append(Gotten, f)[i]]
      BY <3>2, LenProperties
    <3>. QED
      BY <3>4, <3>5
  <2>6. \A i \in DOMAIN Gotten : Gotten[i][1] = f[1] => Gotten[i][2] < f[2]
    BY <2>1, AcceptedComesNext DEF Gotten
  <2>7. f[2] <= Done[f[1]] /\ UNCHANGED Done
    BY <2>1, <2>2 DEF Done
  <2>8. (phase' = "gone") = (phase = "gone") /\ phase # "gone"
    BY <2>2
  <2>9. PICK w \in Writers, k \in 1..Len(Script[f[1]]) : w = f[1] /\ k = f[2]
    BY <2>1
  <2>10. k \in 1..Len(Script[w]) /\ f = <<w, k>>
    BY <2>1, <2>9
  <2>11. Channel!Deliver(w, k)
    BY <2>1, <2>5, <2>6, <2>7, <2>8, <2>9, <2>10 DEF Channel!Deliver, Done, Gotten
  <2>. QED
    BY <2>10, <2>11
<1>. QED
  BY <1>1, <1>2

\* What SpelWire does, a FrameChannel may do: no writer, size, signal or end of
\* the connection makes the reader take in a frame that was not sent, or take in
\* a frame twice or out of its writer's order.
THEOREM WireImplementsChannel == Spec => ImplementsChannel
<1>1. Init => Channel!ChannelInit
  BY DEF Init, Channel!ChannelInit
<1>2. TypeOK /\ InStep /\ EndsBefore /\ CellOrder /\ [Next]_vars
          => [Channel!ChannelNext]_(Channel!channelVars)
  <2>. SUFFICES ASSUME TypeOK, InStep, EndsBefore, CellOrder, [Next]_vars
                PROVE  Channel!ChannelNext \/ UNCHANGED Channel!channelVars
    OBVIOUS
  <2>1. CASE \E w \in Writers : Put(w) \/ PutFails(w)
    BY <2>1, WriterStep DEF Channel!ChannelNext
  <2>2. CASE RecvCrc
    <3>1. \A w \in Writers : [u \in Writers |-> Len(Script[u])][w] = Len(Script[w])
      OBVIOUS
    <3>. QED
      BY <3>1, <2>2, CrcStep DEF Channel!ChannelNext
  <2>3. CASE RecvHeader \/ RecvPayload \/ RecvEof
    <3>1. UNCHANGED <<at, heard>> /\ phase # "gone"
      BY <2>3 DEF RecvHeader, RecvPayload, RecvEof, writeVars
    <3>2. CASE phase' = "gone"
      BY <3>1, <3>2 DEF Channel!ChannelNext, Channel!Fail
    <3>3. CASE phase' # "gone"
      BY <3>1, <3>3 DEF Channel!channelVars
    <3>. QED
      BY <3>2, <3>3
  <2>4. CASE Shut \/ Reset \/ UNCHANGED vars
    <3>1. UNCHANGED <<at, heard, phase>>
      BY <2>4 DEF Shut, Reset, vars, writeVars, readVars
    <3>. QED
      BY <3>1 DEF Channel!channelVars
  <2>. QED
    BY <2>1, <2>2, <2>3, <2>4 DEF Next, Read
<1>3. Spec => [](InStep /\ EndsBefore)
  BY EndsStayBefore
<1>. QED
  BY <1>1, <1>2, <1>3, WireTypeCorrect, CellsInOrder, PTL
  DEF Spec, ImplementsChannel, Channel!ChannelSpec

-----------------------------------------------------------------------------
(* What FrameChannel promises by itself, and so the wire *)

\* The promise, in a state of FrameChannel: of the frames s the writers are done with,
\* the reader has got g.
Promise(s, g) ==
    /\ s \in [Writers -> Nat] /\ g \in Seq(Writers \X Nat)
    /\ \A i \in DOMAIN g : g[i][2] <= s[g[i][1]]
    /\ \A i, j \in DOMAIN g : i < j /\ g[i][1] = g[j][1] => g[i][2] < g[j][2]

\* A state of FrameChannel under the refinement mapping
ChannelPromise == Promise([w \in Writers |-> at[w] - 1],
                          [i \in DOMAIN heard |-> heard[i].frame])

LEMMA PromiseSend ==
    ASSUME NEW s, NEW g, Promise(s, g), NEW w \in Writers, NEW n \in Nat, n > s[w]
    PROVE  Promise([s EXCEPT ![w] = n], g)
<1>. DEFINE r == [s EXCEPT ![w] = n]
<1>1. s \in [Writers -> Nat] /\ g \in Seq(Writers \X Nat)
  BY DEF Promise
<1>2. r \in [Writers -> Nat] /\ \A u \in Writers : s[u] <= r[u]
  BY <1>1
<1>. HIDE DEF r
<1>3. ASSUME NEW i \in DOMAIN g PROVE g[i][2] <= r[g[i][1]]
  <2>1. g[i] \in Writers \X Nat
    BY <1>1
  <2>2. g[i][1] \in Writers /\ g[i][2] \in Nat
    BY <2>1
  <2>3. PICK u \in Writers : u = g[i][1]
    BY <2>2
  <2>4. g[i][2] <= s[u] /\ s[u] <= r[u] /\ s[u] \in Nat /\ r[u] \in Nat
    BY <1>1, <1>2, <2>3 DEF Promise
  <2>5. g[i][2] <= r[u]
    BY <2>2, <2>4
  <2>. QED
    BY <2>3, <2>5
<1>4. Promise(r, g)
  BY <1>1, <1>2, <1>3 DEF Promise
<1>. QED
  BY <1>4 DEF r

LEMMA PromiseDeliver ==
    ASSUME NEW s, NEW g, Promise(s, g), NEW w \in Writers, NEW n \in Nat, n <= s[w],
           \A i \in DOMAIN g : g[i][1] = w => g[i][2] < n
    PROVE  Promise(s, Append(g, <<w, n>>))
<1>. DEFINE h == Append(g, <<w, n>>)
<1>1. s \in [Writers -> Nat] /\ g \in Seq(Writers \X Nat) /\ Len(g) \in Nat
  BY DEF Promise
<1>2. /\ h \in Seq(Writers \X Nat) /\ DOMAIN h = 1 .. Len(g) + 1
      /\ DOMAIN g = 1 .. Len(g) /\ h[Len(g) + 1] = <<w, n>>
      /\ \A i \in 1 .. Len(g) : h[i] = g[i]
  BY <1>1
<1>. HIDE DEF h
<1>3. ASSUME NEW i \in DOMAIN h PROVE h[i][2] <= s[h[i][1]]
  <2>1. CASE i \in 1 .. Len(g)
    BY <1>2, <2>1 DEF Promise
  <2>2. CASE i = Len(g) + 1
    BY <1>2, <2>2
  <2>. QED
    BY <1>1, <1>2, <2>1, <2>2
<1>4. ASSUME NEW i \in DOMAIN h, NEW j \in DOMAIN h, i < j, h[i][1] = h[j][1]
      PROVE  h[i][2] < h[j][2]
  <2>1. CASE j \in 1 .. Len(g)
    <3>1. i \in 1 .. Len(g)
      BY <1>1, <1>2, <1>4, <2>1
    <3>. QED
      BY <1>2, <1>4, <2>1, <3>1 DEF Promise
  <2>2. CASE j = Len(g) + 1
    <3>1. i \in 1 .. Len(g)
      BY <1>1, <1>2, <1>4, <2>2
    <3>. QED
      BY <1>2, <1>4, <2>2, <3>1
  <2>. QED
    BY <1>1, <1>2, <2>1, <2>2
<1>5. Promise(s, h)
  BY <1>1, <1>2, <1>3, <1>4 DEF Promise
<1>. QED
  BY <1>5 DEF h

\* What FrameChannel allows gives the reader nothing that was not sent, nothing twice
\* and no writer's frames out of order: from its own steps alone.
THEOREM ChannelKeepsOrder == ImplementsChannel => []Channel!GotInOrder
<1>1. Channel!ChannelInit => ChannelPromise
  <2>. SUFFICES ASSUME Channel!ChannelInit PROVE ChannelPromise
    OBVIOUS
  <2>1. /\ [w \in Writers |-> at[w] - 1] = [w \in Writers |-> 0]
        /\ [i \in DOMAIN heard |-> heard[i].frame] = <<>>
    BY DEF Channel!ChannelInit
  <2>2. Promise([w \in Writers |-> 0], <<>>)
    BY DEF Promise
  <2>. QED
    BY <2>1, <2>2 DEF ChannelPromise
<1>2. ChannelPromise /\ [Channel!ChannelNext]_(Channel!channelVars) => ChannelPromise'
  <2>. SUFFICES ASSUME ChannelPromise, [Channel!ChannelNext]_(Channel!channelVars)
                PROVE  ChannelPromise'
    OBVIOUS
  <2>1. PICK s, g : /\ s = [w \in Writers |-> at[w] - 1]
                    /\ g = [i \in DOMAIN heard |-> heard[i].frame]
    OBVIOUS
  <2>2. PICK s1, g1 : /\ s1 = [w \in Writers |-> at[w] - 1]'
                      /\ g1 = [i \in DOMAIN heard |-> heard[i].frame]'
    OBVIOUS
  <2>3. Promise(s, g)
    BY <2>1 DEF ChannelPromise
  <2>4. Promise(s1, g1) => ChannelPromise'
    BY <2>2 DEF ChannelPromise
  <2>5. ASSUME NEW w \in Writers PROVE Len(Script[w]) \in Nat
    BY ScriptAssumption
  <2>6. ASSUME NEW w \in Writers, Channel!Send(w) PROVE Promise(s1, g1)
    <3>1. PICK n \in 1 .. [u \in Writers |-> Len(Script[u])][w] :
              n > s[w] /\ s1 = [s EXCEPT ![w] = n]
      BY <2>1, <2>2, <2>6 DEF Channel!Send
    <3>2. n \in Nat
      BY <2>5, <3>1
    <3>3. g1 = g
      BY <2>1, <2>2, <2>6 DEF Channel!Send
    <3>. QED
      BY <2>3, <3>1, <3>2, <3>3, PromiseSend
  <2>7. ASSUME NEW w \in Writers, NEW n \in 1 .. Len(Script[w]), Channel!Deliver(w, n)
        PROVE  Promise(s1, g1)
    <3>1. /\ n <= s[w] /\ s1 = s /\ g1 = Append(g, <<w, n>>)
          /\ \A i \in DOMAIN g : g[i][1] = w => g[i][2] < n
      BY <2>1, <2>2, <2>7 DEF Channel!Deliver
    <3>. QED
      BY <2>3, <2>5, <3>1, PromiseDeliver
  <2>8. ASSUME Channel!Fail \/ UNCHANGED Channel!channelVars PROVE Promise(s1, g1)
    <3>1. s1 = s /\ g1 = g
      BY <2>1, <2>2, <2>8 DEF Channel!Fail, Channel!channelVars
    <3>. QED
      BY <2>3, <3>1
  <2>9. \/ \E w \in Writers : Channel!Send(w)
        \/ \E w \in Writers : \E n \in 1 .. Len(Script[w]) : Channel!Deliver(w, n)
        \/ Channel!Fail \/ UNCHANGED Channel!channelVars
    BY DEF Channel!ChannelNext
  <2>. QED
    BY <2>4, <2>6, <2>7, <2>8, <2>9
<1>3. ChannelPromise => Channel!GotInOrder
  <2>1. \A s, g : Promise(s, g) =>
            /\ \A i \in DOMAIN g : g[i][2] <= s[g[i][1]]
            /\ \A i, j \in DOMAIN g : i < j /\ g[i][1] = g[j][1] => g[i][2] < g[j][2]
    BY DEF Promise
  <2>. QED
    BY <2>1, Zenon DEF ChannelPromise, Channel!GotInOrder
<1>. QED
  BY <1>1, <1>2, <1>3, PTL DEF ImplementsChannel, Channel!ChannelSpec

\* The refinement hands it down: what recvFrame takes in was sent whole, once, and in
\* the order of each thread that sends.
COROLLARY WireKeepsOrder == Spec => []Channel!GotInOrder
BY WireImplementsChannel, ChannelKeepsOrder, PTL

=============================================================================
