--------------------------- MODULE SpelWireProofs ---------------------------
(* That the reader of SpelWire stays in step with the writers, for all      *)
(* scripts and sizes.                                                       *)
EXTENDS SpelWire, SequenceTheorems, TLAPS

\* The remainder of a number that is less than the modulus, and of one that
\* is not but is less than twice the modulus.
LEMMA Remainder ==
    ASSUME NEW m \in Nat \ {0}, NEW a \in Nat
    PROVE  /\ a % m \in 0..(m - 1)
           /\ a < m => a % m = a
           /\ m <= a /\ a < 2 * m => a % m = a - m
  OBVIOUS

\* recvFrame takes from a header the payload size that sendFrame put into it,
\* as long as the length of the frame fits into 32 bits.
THEOREM LengthRoundTrip ==
    ASSUME NEW size \in Nat, HeaderSize + size + CrcSize < Modulus
    PROVE  ~TooSmall(Total(size)) /\ PayLen(Total(size)) = size
<1>. DEFINE len == HeaderSize + size + CrcSize
<1>1. HeaderSize \in Nat /\ CrcSize \in Nat /\ Modulus \in Nat \ {0}
  BY SizeAssumption
<1>2. len \in Nat /\ len < Modulus /\ ~(len < HeaderSize)
  BY <1>1
<1>3. len + Modulus - (HeaderSize + CrcSize) = size + Modulus
  BY <1>1
<1>4. Total(size) = len
  <2>. HIDE DEF len
  <2>1. len % Modulus = len
    BY <1>1, <1>2, Remainder
  <2>. QED
    BY <2>1 DEF Total, len
<1>5. (size + Modulus) % Modulus = size
  <2>1. size < Modulus /\ size + Modulus < 2 * Modulus /\ size + Modulus \in Nat
        /\ Modulus <= size + Modulus /\ (size + Modulus) - Modulus = size
    BY <1>1
  <2>. QED
    BY <1>1, <2>1, Remainder
<1>. HIDE DEF len
<1>. QED
  BY <1>2, <1>3, <1>4, <1>5 DEF TooSmall, PayLen

-----------------------------------------------------------------------------
(* Types *)

\* Sizes of frames and their cells
LEMMA FrameFacts ==
    ASSUME NEW f \in Frames
    PROVE  /\ Size(f) \in Nat
           /\ Whole(f) \in Nat \ {0}
           /\ HeaderSize + Size(f) + CrcSize < Modulus
<1>1. PICK w \in Writers : f \in {<<w, k>> : k \in DOMAIN Script[w]}
  BY DEF Frames
<1>2. PICK k \in DOMAIN Script[w] : f = <<w, k>>
  BY <1>1
<1>3. Script[w][k] \in [size : Sizes, tested : BOOLEAN]
  <2>1. Script[w] \in Seq([size : Sizes, tested : BOOLEAN])
    BY ScriptAssumption
  <2>. QED
    BY <2>1, ElementOfSeq, LenProperties
<1>4. Script[w][k].size \in Nat /\ HeaderSize + Script[w][k].size + CrcSize < Modulus
  BY <1>3, ScriptAssumption, SizeAssumption DEF Sizes
<1>. QED
  BY <1>2, <1>4, SizeAssumption DEF Size, Whole

\* A run of cells of a frame is a sequence of cells, of the length asked for.
LEMMA CellsType ==
    ASSUME NEW f \in Frames, NEW i \in Nat, NEW j \in Nat, i <= j + 1
    PROVE  Cells(f, i, j) \in Seq(Frames \X Nat)
<1>1. DEFINE n == j - i + 1
<1>2. n \in Nat
  OBVIOUS
<1>3. \A k \in 1..n : <<f, i + k - 1>> \in Frames \X Nat
  OBVIOUS
<1>4. Cells(f, i, j) \in [1..n -> Frames \X Nat]
  BY <1>3 DEF Cells
<1>. HIDE DEF n
<1>. QED
  BY <1>2, <1>4, SeqDef

\* The writers' steps keep the types, and only add to the stream.
LEMMA PutType ==
    ASSUME TypeOK, NEW w \in Writers, Put(w)
    PROVE  /\ TypeOK'
           /\ \E t \in Seq(Frames \X Nat) : stream' = stream \o t
<1>. DEFINE f == <<w, at[w]>>
<1>1. Len(Script[w]) \in Nat /\ DOMAIN Script[w] = 1..Len(Script[w])
  BY ScriptAssumption, LenProperties
<1>2. f \in Frames
  <2>1. at[w] \in DOMAIN Script[w]
    BY <1>1 DEF TypeOK, Put, Busy
  <2>. QED
    BY <2>1 DEF Frames
<1>3. PICK n \in 1..(CallEnd(w) - off[w]) :
          /\ stream' = stream \o Cells(f, off[w] + 1, off[w] + n)
          /\ IF off[w] + n = Whole(f)
             THEN /\ at' = [at EXCEPT ![w] = @ + 1]
                  /\ off' = [off EXCEPT ![w] = 0]
             ELSE /\ off' = [off EXCEPT ![w] = @ + n]
                  /\ UNCHANGED at
  BY DEF Put
<1>4. off[w] \in Nat /\ n \in Nat
  <2>1. CallEnd(w) \in Nat
    BY <1>2, FrameFacts, SizeAssumption DEF CallEnd
  <2>. QED
    BY <2>1, <1>3 DEF TypeOK
<1>5. Cells(f, off[w] + 1, off[w] + n) \in Seq(Frames \X Nat)
  <2>1. off[w] + 1 \in Nat /\ off[w] + n \in Nat /\ off[w] + 1 <= off[w] + n + 1
    BY <1>4
  <2>. HIDE DEF f
  <2>. QED
    BY <1>2, <2>1, CellsType
<1>6. stream' \in Seq(Frames \X Nat) /\ Len(stream) <= Len(stream')
  <2>. HIDE DEF f
  <2>. QED
    BY <1>3, <1>5, ConcatProperties, LenProperties DEF TypeOK
<1>7. at' \in [Writers -> Nat \ {0}] /\ off' \in [Writers -> Nat]
  <2>1. at[w] + 1 \in Nat \ {0} /\ off[w] + n \in Nat
    BY <1>4 DEF TypeOK
  <2>2. CASE off[w] + n = Whole(f)
    <3>1. at' = [at EXCEPT ![w] = at[w] + 1] /\ off' = [off EXCEPT ![w] = 0]
      BY <1>3, <2>2
    <3>. QED
      BY <3>1, <2>1 DEF TypeOK
  <2>3. CASE off[w] + n # Whole(f)
    BY <1>3, <2>1, <2>3 DEF TypeOK
  <2>. QED
    BY <2>2, <2>3
<1>8. start' \in 0..Len(stream')
  BY <1>6, LenProperties DEF TypeOK, Put, readVars
<1>. QED
  <2>1. TypeOK'
    BY <1>6, <1>7, <1>8 DEF TypeOK, Put, readVars
  <2>. HIDE DEF f
  <2>. QED
    BY <1>3, <1>5, <2>1

\* A length that recvFrame may find, and the size it takes from it
LEMMA LengthFacts ==
    ASSUME TypeOK, phase = "header", Ready(HeaderSize), NEW len \in LengthsSeen
    PROVE  PayLen(len) \in 0..(Modulus - 1)
<1>1. len \in 0..(Modulus - 1)
  <2>1. start + 1 \in 1..Len(stream)
    BY SizeAssumption, LenProperties DEF TypeOK, Ready
  <2>2. stream[start + 1][1] \in Frames
    <3>1. stream[start + 1] \in Frames \X Nat
      BY <2>1, ElementOfSeq DEF TypeOK
    <3>. QED
      BY <3>1
  <2>3. Total(Size(stream[start + 1][1])) \in 0..(Modulus - 1)
    <3>1. HeaderSize + Size(stream[start + 1][1]) + CrcSize \in Nat
          /\ Modulus \in Nat \ {0}
      BY <2>2, FrameFacts, SizeAssumption
    <3>. QED
      BY <3>1, Remainder DEF Total
  <2>. QED
    BY <2>3 DEF LengthsSeen
<1>2. len + Modulus - (HeaderSize + CrcSize) \in Nat /\ Modulus \in Nat \ {0}
  BY <1>1, SizeAssumption
<1>. QED
  BY <1>2, Remainder DEF PayLen

\* What RecvCrc accepts is a frame of a writer, and the cells of it.
LEMMA AcceptedFrame ==
    ASSUME TypeOK, phase = "crc", Ready(HeaderSize + paylen + CrcSize)
    PROVE  /\ stream[start + 1][1] \in Frames
           /\ start + HeaderSize + paylen + CrcSize \in start..Len(stream)
<1>1. start + 1 \in 1..Len(stream)
  BY SizeAssumption, LenProperties DEF TypeOK, Ready
<1>2. stream[start + 1] \in Frames \X Nat
  BY <1>1, ElementOfSeq DEF TypeOK
<1>. QED
  BY <1>1, <1>2, SizeAssumption, LenProperties DEF TypeOK, Ready

\* The reader's steps keep the types.
LEMMA ReadType == TypeOK /\ Read => TypeOK'
<1>. SUFFICES ASSUME TypeOK, Read PROVE TypeOK'
  OBVIOUS
<1>1. CASE RecvHeader
  BY <1>1, LengthFacts DEF RecvHeader, TypeOK, writeVars
<1>2. CASE RecvPayload
  BY <1>2 DEF RecvPayload, TypeOK, writeVars
<1>3. CASE RecvCrc
  <2>. DEFINE f == stream[start + 1][1]
              n == HeaderSize + paylen + CrcSize
  <2>1. f \in Frames /\ start + n \in start..Len(stream) /\ start \in Nat
        /\ n \in Nat
    BY <1>3, AcceptedFrame, SizeAssumption DEF RecvCrc, TypeOK
  <2>2. [frame |-> f, from |-> start] \in [frame : Frames, from : Nat]
    BY <2>1
  <2>3. Append(heard, [frame |-> f, from |-> start]) \in Seq([frame : Frames, from : Nat])
    BY <2>2 DEF TypeOK
  <2>4. heard' \in Seq([frame : Frames, from : Nat])
    BY <1>3, <2>3 DEF RecvCrc, TypeOK
  <2>5. start' \in 0..Len(stream')
    BY <1>3, <2>1 DEF RecvCrc, TypeOK
  <2>. QED
    BY <1>3, <2>4, <2>5 DEF RecvCrc, TypeOK, writeVars
<1>4. CASE RecvEof
  BY <1>4 DEF RecvEof, TypeOK, writeVars
<1>. QED
  BY <1>1, <1>2, <1>3, <1>4 DEF Read

\* A RST takes cells off the end of the stream, none of which was read.
LEMMA ResetKeeps ==
    ASSUME TypeOK, Reset
    PROVE  \E n \in start..Len(stream) : stream' = SubSeq(stream, 1, n)
<1>1. PICK n \in Consumed..Len(stream) : stream' = SubSeq(stream, 1, n)
  BY DEF Reset
<1>2. Consumed \in Nat /\ start <= Consumed /\ start \in Nat
  BY SizeAssumption DEF Consumed, TypeOK
<1>. QED
  BY <1>1, <1>2, LenProperties DEF TypeOK

\* It keeps the types.
LEMMA ResetType == TypeOK /\ Reset => TypeOK'
<1>. SUFFICES ASSUME TypeOK, Reset PROVE TypeOK'
  OBVIOUS
<1>1. PICK n \in start..Len(stream) : stream' = SubSeq(stream, 1, n)
  BY ResetKeeps
<1>2. start \in Nat /\ Len(stream) \in Nat /\ n \in Nat /\ n <= Len(stream)
  BY <1>1, LenProperties DEF TypeOK
<1>3. \A j \in 1..n : stream[j] \in Frames \X Nat
  BY <1>2, ElementOfSeq DEF TypeOK
<1>4. stream' \in Seq(Frames \X Nat) /\ Len(stream') = n
  BY <1>1, <1>2, <1>3, SubSeqProperties
<1>. QED
  BY <1>2, <1>4 DEF TypeOK, Reset, writeVars, readVars

\* Every state of SpelWire has the shape TypeOK says.
THEOREM WireTypeCorrect == Spec => []TypeOK
<1>1. Init => TypeOK
  BY SizeAssumption DEF Init, TypeOK
<1>2. TypeOK /\ [Next]_vars => TypeOK'
  <2>. SUFFICES ASSUME TypeOK, [Next]_vars PROVE TypeOK'
    OBVIOUS
  <2>1. CASE \E w \in Writers : Put(w)
    BY <2>1, PutType
  <2>2. ASSUME NEW w \in Writers, PutFails(w) PROVE TypeOK'
    <3>1. Len(Script[w]) \in Nat
      BY ScriptAssumption, LenProperties
    <3>2. at' \in [Writers -> Nat \ {0}] /\ off' \in [Writers -> Nat]
      BY <2>2, <3>1 DEF PutFails, TypeOK
    <3>. QED
      BY <2>2, <3>2 DEF PutFails, TypeOK, readVars
  <2>3. CASE Read
    BY <2>3, ReadType
  <2>4. CASE Shut
    BY <2>4 DEF Shut, TypeOK, writeVars, readVars
  <2>5. CASE Reset
    BY <2>5, ResetType
  <2>6. CASE UNCHANGED vars
    BY <2>6 DEF TypeOK, vars, writeVars, readVars
  <2>. QED
    BY <2>1, <2>2, <2>3, <2>4, <2>5, <2>6 DEF Next
<1>. QED
  BY <1>1, <1>2, PTL DEF Spec

-----------------------------------------------------------------------------
(* In step *)

\* Accepted frames end before the place the reader is at.  This, with InStep,
\* is inductive: what is added to the stream comes later.
EndsBefore == \A i \in DOMAIN heard : End(heard[i]) <= start

\* Where the cells of an accepted frame stand in the stream
LEMMA HeardPlaces ==
    ASSUME TypeOK, EndsBefore, NEW i \in DOMAIN heard
    PROVE  /\ heard[i].frame \in Frames /\ heard[i].from \in Nat
           /\ heard[i].from + 1 \in 1..start /\ End(heard[i]) \in 1..start
<1>1. heard[i] \in [frame : Frames, from : Nat]
  <2>1. heard \in Seq([frame : Frames, from : Nat])
    BY DEF TypeOK
  <2>. QED
    BY <2>1, ElementOfSeq, LenProperties
<1>2. heard[i].from \in Nat /\ Whole(heard[i].frame) \in Nat \ {0}
  BY <1>1, FrameFacts
<1>3. End(heard[i]) <= start /\ start \in Nat
  BY DEF EndsBefore, TypeOK
<1>. QED
  BY <1>1, <1>2, <1>3 DEF End

\* More cells at the end of the stream change nothing that was read.
LEMMA PutInStep ==
    ASSUME TypeOK, InStep, EndsBefore,
           NEW t \in Seq(Frames \X Nat), stream' = stream \o t,
           UNCHANGED <<start, heard>>
    PROVE  InStep' /\ EndsBefore'
<1>1. ASSUME NEW i \in DOMAIN heard
      PROVE  SubSeq(stream', heard[i].from + 1, End(heard[i])) =
                 SubSeq(stream, heard[i].from + 1, End(heard[i]))
  <2>1. heard[i].from + 1 \in 1..Len(stream) /\ End(heard[i]) \in 1..Len(stream)
    <3>1. start \in 0..Len(stream) /\ Len(stream) \in Nat
      BY LenProperties DEF TypeOK
    <3>. QED
      BY <3>1, HeardPlaces
  <2>. QED
    BY <2>1, SubSeqOfConcat1 DEF TypeOK
<1>. QED
  BY <1>1 DEF InStep, EndsBefore, End

\* ... and the frames accepted stay what they were.
LEMMA ResetInStep ==
    ASSUME TypeOK, InStep, EndsBefore, Reset
    PROVE  InStep' /\ EndsBefore'
<1>1. PICK n \in start..Len(stream) : stream' = SubSeq(stream, 1, n)
  BY ResetKeeps
<1>2. UNCHANGED <<start, heard>>
  BY DEF Reset, readVars
<1>3. ASSUME NEW i \in DOMAIN heard
      PROVE  SubSeq(stream', heard[i].from + 1, End(heard[i])) =
                 SubSeq(stream, heard[i].from + 1, End(heard[i]))
  <2>. DEFINE a == heard[i].from + 1
              b == End(heard[i])
  <2>1. a \in 1..start /\ b \in 1..start /\ start \in Nat /\ Len(stream) \in Nat
    BY HeardPlaces, LenProperties DEF TypeOK
  <2>. HIDE DEF a, b
  <2>2. /\ 1 \in 1..Len(stream) /\ n \in 1..Len(stream)
        /\ a \in 1..(n - 1 + 1) /\ b \in 1..(n - 1 + 1)
        /\ 1 + a - 1 = a /\ 1 + b - 1 = b
    BY <2>1
  <2>3. SubSeq(SubSeq(stream, 1, n), a, b) = SubSeq(stream, 1 + a - 1, 1 + b - 1)
    BY <2>2, SubSeqOfSubSeq DEF TypeOK
  <2>4. SubSeq(stream', a, b) = SubSeq(stream, a, b)
    BY <2>2, <2>3, <1>1
  <2>. QED
    BY <2>4 DEF a, b
<1>. QED
  BY <1>2, <1>3 DEF InStep, EndsBefore, End

\* An accepted frame continues where the last one ended.
LEMMA CrcInStep ==
    ASSUME TypeOK, InStep, EndsBefore, RecvCrc
    PROVE  InStep' /\ EndsBefore'
<1>. DEFINE f == stream[start + 1][1]
            n == HeaderSize + paylen + CrcSize
            h == [frame |-> f, from |-> start]
            H == [frame : Frames, from : Nat]
<1>1. CASE ~CrcMatches(n)
  BY <1>1 DEF RecvCrc, InStep, EndsBefore, End
<1>2. CASE CrcMatches(n)
  <2>1. /\ heard' = Append(heard, h) /\ start' = start + n /\ stream' = stream
        /\ n = Whole(f)
        /\ SubSeq(stream, start + 1, start + n) = Cells(f, 1, n)
    BY <1>2 DEF RecvCrc, CrcMatches, Taken
  <2>2. f \in Frames /\ n \in Nat /\ start \in Nat
    <3>1. phase = "crc" /\ Ready(HeaderSize + paylen + CrcSize)
      BY DEF RecvCrc
    <3>2. paylen \in Nat /\ start \in Nat
      BY SizeAssumption DEF TypeOK
    <3>. QED
      BY <3>1, <3>2, AcceptedFrame, SizeAssumption
  <2>. HIDE DEF f, n
  <2>3. h \in H /\ heard \in Seq(H) /\ End(h) = start + n
    BY <2>1, <2>2 DEF TypeOK, End
  <2>4. /\ Len(heard) \in Nat /\ Len(heard') = Len(heard) + 1
        /\ DOMAIN heard = 1..Len(heard) /\ DOMAIN heard' = 1..(Len(heard) + 1)
        /\ heard'[Len(heard) + 1] = h
        /\ \A i \in DOMAIN heard : heard'[i] = heard[i]
    BY <2>1, <2>3
  <2>5. ASSUME NEW i \in DOMAIN heard'
        PROVE  /\ SubSeq(stream, heard'[i].from + 1, End(heard'[i])) =
                       Cells(heard'[i].frame, 1, Whole(heard'[i].frame))
               /\ heard'[i].from = IF i = 1 THEN 0 ELSE End(heard'[i - 1])
               /\ End(heard'[i]) <= start + n
    <3>1. CASE i \in DOMAIN heard
      <4>1. heard'[i] = heard[i] /\ (i # 1 => heard'[i - 1] = heard[i - 1])
        BY <2>4, <3>1
      <4>2. End(heard[i]) <= start /\ End(heard[i]) \in Nat
        <5>1. heard[i] \in H
          BY <3>1, <2>3, <2>4, ElementOfSeq
        <5>. QED
          BY <5>1, <3>1, FrameFacts DEF EndsBefore, End
      <4>. QED
        BY <3>1, <4>1, <4>2, <2>2 DEF InStep
    <3>2. CASE i = Len(heard) + 1
      <4>1. heard'[i] = h
        BY <2>4, <3>2
      <4>2. start = IF i = 1 THEN 0 ELSE End(heard'[i - 1])
        <5>1. CASE i = 1
          <6>1. heard = <<>>
            BY <5>1, <3>2, <2>3, <2>4, EmptySeq
          <6>. QED
            BY <5>1, <6>1 DEF InStep
        <5>2. CASE i # 1
          <6>1. heard # <<>> /\ i - 1 = Len(heard) /\ i - 1 \in DOMAIN heard
            BY <5>2, <3>2, <2>4
          <6>. QED
            BY <5>2, <6>1, <2>4 DEF InStep
        <5>. QED
          BY <5>1, <5>2
      <4>3. h.frame = f /\ h.from = start
        OBVIOUS
      <4>. HIDE DEF h
      <4>4. SubSeq(stream, h.from + 1, End(h)) = Cells(h.frame, 1, Whole(h.frame))
        BY <4>3, <2>1, <2>3
      <4>. QED
        BY <4>1, <4>2, <4>3, <4>4, <2>2, <2>3
    <3>. QED
      BY <3>1, <3>2, <2>4
  <2>6. heard' # <<>> /\ start' = End(heard'[Len(heard')])
    BY <2>1, <2>3, <2>4
  <2>7. \A i \in DOMAIN heard' : End(heard'[i]) <= start'
    BY <2>1, <2>5
  <2>. QED
    BY <2>1, <2>5, <2>6, <2>7 DEF InStep, EndsBefore, End
<1>. QED
  BY <1>1, <1>2

\* InStep with its strengthening, as an invariant
LEMMA EndsStayBefore == Spec => [](InStep /\ EndsBefore)
<1>1. Init => InStep /\ EndsBefore
  BY DEF Init, InStep, EndsBefore
<1>2. TypeOK /\ InStep /\ EndsBefore /\ [Next]_vars => InStep' /\ EndsBefore'
  <2>. SUFFICES ASSUME TypeOK, InStep, EndsBefore, [Next]_vars
                PROVE  InStep' /\ EndsBefore'
    OBVIOUS
  <2>1. ASSUME NEW w \in Writers, Put(w) PROVE InStep' /\ EndsBefore'
    BY <2>1, PutType, PutInStep DEF Put, readVars
  <2>2. CASE RecvCrc
    BY <2>2, CrcInStep
  <2>3. CASE \/ \E w \in Writers : PutFails(w)
             \/ RecvHeader \/ RecvPayload \/ RecvEof \/ Shut \/ UNCHANGED vars
    <3>1. UNCHANGED <<stream, start, heard>>
      BY <2>3 DEF PutFails, RecvHeader, RecvPayload, RecvEof, Shut, vars, readVars
    <3>. QED
      BY <3>1 DEF InStep, EndsBefore, End
  <2>4. CASE Reset
    BY <2>4, ResetInStep
  <2>. QED
    BY <2>1, <2>2, <2>3, <2>4 DEF Next, Read
<1>. QED
  BY <1>1, <1>2, WireTypeCorrect, PTL DEF Spec

\* Whatever the writers do to each other, the frames the reader has accepted
\* are intact frames of theirs, without a gap from the beginning of the stream.
THEOREM ReaderStaysInStep == Spec => []InStep
  BY EndsStayBefore, PTL

-----------------------------------------------------------------------------
(* Never given up without a reason *)

\* No frame has more cells than it should.
Fits == \A j \in DOMAIN stream : stream[j][2] \in 1..Whole(stream[j][1])

\* Where nothing was mixed or cut short, a frame that has begun goes on until it
\* is whole.  This is Follows over many cells; as an invariant of the steps it
\* needs no induction over the stream.
Unbroken ==
    \A j \in DOMAIN stream : Clean(j) =>
        \A i \in 1..j : stream[i][2] = 1 /\ j - i < Whole(stream[i][1])
            => stream[j] = <<stream[i][1], j - i + 1>>

\* ... and the size that the reader has derived is that of the frame it is in.
Believed ==
    Open /\ phase \in {"payload", "crc"} /\ Clean(Len(stream)) =>
        /\ start + HeaderSize <= Len(stream)
        /\ paylen = Size(stream[start + 1][1])

\* Places in the stream, and what a writer is at
LEMMA StreamFacts ==
    ASSUME TypeOK
    PROVE  /\ stream \in Seq(Frames \X Nat) /\ Len(stream) \in Nat
           /\ DOMAIN stream = 1..Len(stream) /\ start \in Nat
           /\ \A j \in 1..Len(stream) : /\ stream[j] \in Frames \X Nat
                                        /\ stream[j][1] \in Frames /\ stream[j][2] \in Nat
                                        /\ stream[j] = <<stream[j][1], stream[j][2]>>
<1>1. stream \in Seq(Frames \X Nat) /\ start \in 0..Len(stream)
  BY DEF TypeOK
<1>2. Len(stream) \in Nat /\ DOMAIN stream = 1..Len(stream)
  BY <1>1, LenProperties
<1>3. \A j \in 1..Len(stream) : stream[j] \in Frames \X Nat
  BY <1>1, ElementOfSeq
<1>. QED
  BY <1>1, <1>2, <1>3

\* send() of n cells, seen from the stream
LEMMA PutCells ==
    ASSUME TypeOK, NEW w \in Writers, Put(w)
    PROVE  \E n \in Nat \ {0} :
              /\ <<w, at[w]>> \in Frames
              /\ off[w] \in Nat /\ off[w] + n <= Whole(<<w, at[w]>>)
              /\ stream' \in Seq(Frames \X Nat) /\ Len(stream') = Len(stream) + n
              /\ DOMAIN stream' = 1..(Len(stream) + n)
              /\ \A j \in 1..Len(stream) : stream'[j] = stream[j]
              /\ \A j \in (Len(stream) + 1)..(Len(stream) + n) :
                    stream'[j] = <<<<w, at[w]>>, off[w] + (j - Len(stream))>>
              /\ IF off[w] + n = Whole(<<w, at[w]>>)
                 THEN /\ at' = [at EXCEPT ![w] = @ + 1]
                      /\ off' = [off EXCEPT ![w] = 0]
                 ELSE /\ off' = [off EXCEPT ![w] = @ + n]
                      /\ UNCHANGED at
<1>. DEFINE f == <<w, at[w]>>
            L == Len(stream)
<1>1. f \in Frames
  <2>1. Len(Script[w]) \in Nat /\ DOMAIN Script[w] = 1..Len(Script[w])
    BY ScriptAssumption, LenProperties
  <2>2. at[w] \in DOMAIN Script[w]
    BY <2>1 DEF TypeOK, Put, Busy
  <2>. QED
    BY <2>2 DEF Frames
<1>2. PICK n \in 1..(CallEnd(w) - off[w]) :
          /\ stream' = stream \o Cells(f, off[w] + 1, off[w] + n)
          /\ IF off[w] + n = Whole(f)
             THEN /\ at' = [at EXCEPT ![w] = @ + 1]
                  /\ off' = [off EXCEPT ![w] = 0]
             ELSE /\ off' = [off EXCEPT ![w] = @ + n]
                  /\ UNCHANGED at
  BY DEF Put
<1>3. /\ Whole(f) \in Nat \ {0} /\ off[w] \in Nat /\ n \in Nat \ {0}
      /\ off[w] + n <= Whole(f)
  <2>1. CallEnd(w) \in Nat /\ CallEnd(w) <= Whole(f)
    BY <1>1, FrameFacts, SizeAssumption DEF CallEnd, Whole
  <2>2. Whole(f) \in Nat \ {0} /\ off[w] \in Nat
    BY <1>1, FrameFacts DEF TypeOK
  <2>. QED
    BY <2>1, <2>2, <1>2
<1>. DEFINE t == Cells(f, off[w] + 1, off[w] + n)
<1>4. /\ t \in Seq(Frames \X Nat) /\ Len(t) = n
      /\ \A k \in 1..n : t[k] = <<f, off[w] + k>>
  <2>1. off[w] + 1 \in Nat /\ off[w] + n \in Nat /\ off[w] + 1 <= off[w] + n + 1
        /\ (off[w] + n) - (off[w] + 1) + 1 = n
    BY <1>3
  <2>. HIDE DEF f
  <2>2. t \in Seq(Frames \X Nat)
    BY <1>1, <2>1, CellsType
  <2>3. t = [k \in 1..n |-> <<f, (off[w] + 1) + k - 1>>]
    BY <2>1 DEF Cells
  <2>4. \A k \in 1..n : t[k] = <<f, off[w] + k>>
    BY <2>3, <1>3
  <2>5. Len(t) = n
    BY <2>2, <2>3, <1>3, LenProperties
  <2>. QED
    BY <2>2, <2>4, <2>5
<1>5. stream' = stream \o t
  BY <1>2
<1>. HIDE DEF t
<1>6. /\ stream' \in Seq(Frames \X Nat) /\ Len(stream') = L + n
      /\ DOMAIN stream' = 1..(L + n)
      /\ \A j \in 1..L : stream'[j] = stream[j]
      /\ \A j \in (L + 1)..(L + n) : stream'[j] = <<f, off[w] + (j - L)>>
  <2>1. stream \in Seq(Frames \X Nat) /\ L \in Nat
    BY StreamFacts
  <2>2. /\ stream' \in Seq(Frames \X Nat) /\ Len(stream') = L + n
        /\ \A j \in 1..(L + n) : stream'[j] = IF j <= L THEN stream[j] ELSE t[j - L]
    BY <2>1, <1>4, <1>5, ConcatProperties
  <2>3. \A j \in (L + 1)..(L + n) : j - L \in 1..n /\ j \in 1..(L + n) /\ ~(j <= L)
    BY <2>1, <1>3
  <2>4. \A j \in 1..L : j \in 1..(L + n) /\ j <= L
    BY <2>1, <1>3
  <2>5. DOMAIN stream' = 1..(L + n)
    BY <2>2, LenProperties
  <2>. QED
    BY <2>2, <2>3, <2>4, <2>5, <1>4
<1>. QED
  BY <1>1, <1>2, <1>3, <1>6

\* A stream that goes on is as clean as it was.
LEMMA CleanPrefix ==
    ASSUME NEW n \in Nat, \A j \in 1..n : stream'[j] = stream[j]
    PROVE  Clean(n)' <=> Clean(n)
<1>1. \A j \in 1..n : Follows(j)' <=> Follows(j)
  <2>. TAKE j \in 1..n
  <2>1. stream'[j] = stream[j]
    OBVIOUS
  <2>2. j # 1 => stream'[j - 1] = stream[j - 1]
    OBVIOUS
  <2>. QED
    BY <2>1, <2>2 DEF Follows
<1>. QED
  BY <1>1 DEF Clean

\* After a send() every frame still fits, and goes on where nothing is mixed.
LEMMA PutUnbroken ==
    ASSUME TypeOK, Fits, Unbroken, NEW w \in Writers, Put(w)
    PROVE  Fits' /\ Unbroken'
<1>. DEFINE f == <<w, at[w]>>
<1>2. PICK L \in Nat : L = Len(stream) /\ DOMAIN stream = 1..L
  BY StreamFacts
<1>1. PICK n \in Nat \ {0} :
          /\ f \in Frames /\ off[w] \in Nat /\ off[w] + n <= Whole(f)
          /\ DOMAIN stream' = 1..(L + n)
          /\ \A j \in 1..L : stream'[j] = stream[j]
          /\ \A j \in (L + 1)..(L + n) : stream'[j] = <<f, off[w] + (j - L)>>
  BY <1>2, PutCells
<1>3. Whole(f) \in Nat
  BY <1>1, FrameFacts
<1>. HIDE DEF f
<1>4. \A j \in (L + 1)..(L + n) : /\ stream'[j][1] = f
                                  /\ stream'[j][2] = off[w] + (j - L)
  BY <1>1
<1>5. Fits'
  <2>1. \A j \in 1..L : stream'[j][2] \in 1..Whole(stream'[j][1])
    BY <1>1, <1>2 DEF Fits
  <2>2. \A j \in (L + 1)..(L + n) : stream'[j][2] \in 1..Whole(stream'[j][1])
    <3>. TAKE j \in (L + 1)..(L + n)
    <3>1. off[w] + (j - L) \in 1..Whole(f)
      BY <1>1, <1>2, <1>3
    <3>. QED
      BY <3>1, <1>4
  <2>3. \A j \in 1..(L + n) : j \in 1..L \/ j \in (L + 1)..(L + n)
    BY <1>2
  <2>. QED
    BY <2>1, <2>2, <2>3, <1>1 DEF Fits
<1>6. ASSUME NEW j \in 1..L PROVE Clean(j)' <=> Clean(j)
  <2>1. j \in Nat /\ \A k \in 1..j : stream'[k] = stream[k]
    BY <1>1
  <2>. QED
    BY <2>1, CleanPrefix
<1>7. ASSUME NEW j \in 1..(L + n), Clean(j)', NEW i \in 1..j,
             stream'[i][2] = 1, j - i < Whole(stream'[i][1])
      PROVE  stream'[j] = <<stream'[i][1], j - i + 1>>
  <2>1. CASE j \in 1..L
    <3>1. i \in 1..L /\ stream'[i] = stream[i] /\ stream'[j] = stream[j] /\ Clean(j)
      BY <2>1, <1>1, <1>2, <1>6, <1>7
    <3>. QED
      BY <3>1, <2>1, <1>2, <1>7 DEF Unbroken
  <2>2. CASE j \in (L + 1)..(L + n) /\ i \in (L + 1)..(L + n)
    <3>1. off[w] = 0 /\ i = L + 1
      <4>1. off[w] \in Nat /\ i \in (L + 1)..(L + n) /\ off[w] + (i - L) = 1
        BY <2>2, <1>1, <1>4, <1>7
      <4>. QED
        BY <4>1
    <3>2. stream'[j] = <<f, off[w] + (j - L)>> /\ stream'[i][1] = f
      BY <2>2, <1>1, <1>4
    <3>3. off[w] + (j - L) = j - i + 1
      BY <3>1, <1>2
    <3>. QED
      BY <3>2, <3>3
  <2>3. CASE j \in (L + 1)..(L + n) /\ i \in 1..L
    <3>. DEFINE g == stream[i][1]
    <3>1. /\ stream'[i] = stream[i] /\ g \in Frames /\ Whole(g) \in Nat
          /\ stream[i][2] = 1 /\ j - i < Whole(g)
      BY <2>3, <1>1, <1>2, <1>7, StreamFacts, FrameFacts
    <3>2. L \in 1..L /\ L - i < Whole(g) /\ L - i + 1 < Whole(g)
          /\ i \in 1..L /\ L + 1 \in 1..j
      BY <2>3, <3>1, <1>2
    <3>3. Clean(L)
      <4>1. \A k \in 1..L : k \in 1..j
        BY <2>3, <1>2
      <4>2. Clean(L)'
        BY <4>1, <1>7 DEF Clean
      <4>. QED
        BY <4>2, <3>2, <1>6
    <3>4. stream[L] = <<g, L - i + 1>>
      BY <3>1, <3>2, <3>3, <1>2 DEF Unbroken
    <3>5. stream'[L] = <<g, L - i + 1>> /\ (L + 1) - 1 = L /\ L + 1 # 1
      BY <3>2, <3>4, <1>1, <1>2
    <3>6. Follows(L + 1)'
      BY <3>2, <1>7 DEF Clean
    <3>7. \/ stream'[L + 1] = <<stream'[L + 1][1], stream'[L][2] + 1>>
             /\ stream'[L][1] = stream'[L + 1][1]
          \/ stream'[L + 1][2] = 1 /\ stream'[L][2] = Whole(stream'[L][1])
      BY <3>5, <3>6 DEF Follows
    <3>8. L + 1 \in (L + 1)..(L + n) /\ off[w] + ((L + 1) - L) = off[w] + 1
      BY <1>1, <1>2
    <3>9. stream'[L + 1][1] = f /\ stream'[L + 1][2] = off[w] + 1
      BY <3>8, <1>4
    <3>10. stream'[L][1] = g /\ stream'[L][2] = L - i + 1
      BY <3>5
    <3>11. f = g /\ off[w] + 1 = L - i + 1 + 1
      <4>1. L - i + 1 # Whole(g)
        BY <3>1, <3>2, <1>2
      <4>2. stream'[L + 1] = <<stream'[L + 1][1], stream'[L][2] + 1>>
            /\ stream'[L][1] = stream'[L + 1][1]
        BY <4>1, <3>7, <3>10
      <4>. QED
        BY <4>2, <3>9, <3>10
    <3>12. off[w] + (j - L) = j - i + 1
      <4>1. off[w] \in Nat /\ off[w] + 1 = L - i + 1 + 1
        BY <3>11, <1>1
      <4>. QED
        BY <4>1
    <3>. QED
      BY <3>1, <3>11, <3>12, <2>3, <1>1
  <2>. QED
    BY <2>1, <2>2, <2>3, <1>2
<1>. QED
  BY <1>1, <1>5, <1>7 DEF Unbroken

\* A RST leaves the beginning of the stream.
LEMMA ResetUnbroken ==
    ASSUME TypeOK, Fits, Unbroken, Reset
    PROVE  Fits' /\ Unbroken'
<1>1. PICK m \in start..Len(stream) : stream' = SubSeq(stream, 1, m)
  BY ResetKeeps
<1>2. m \in Nat /\ m <= Len(stream) /\ DOMAIN stream = 1..Len(stream)
  BY <1>1, StreamFacts
<1>3. DOMAIN stream' = 1..m /\ \A j \in 1..m : stream'[j] = stream[j]
  <2>1. \A j \in 1..m : stream[j] \in Frames \X Nat
    BY <1>2, StreamFacts
  <2>2. /\ stream' \in Seq(Frames \X Nat) /\ Len(stream') = m
        /\ \A j \in 1..m : stream'[j] = stream[1 + j - 1]
    BY <1>1, <1>2, <2>1, SubSeqProperties
  <2>. QED
    BY <2>2, LenProperties
<1>4. \A j \in 1..m : j \in DOMAIN stream
  BY <1>2, StreamFacts
<1>5. ASSUME NEW j \in 1..m PROVE Clean(j)' <=> Clean(j)
  <2>1. j \in Nat /\ \A k \in 1..j : stream'[k] = stream[k]
    BY <1>2, <1>3
  <2>. QED
    BY <2>1, CleanPrefix
<1>6. ASSUME NEW j \in 1..m, Clean(j)', NEW i \in 1..j,
             stream'[i][2] = 1, j - i < Whole(stream'[i][1])
      PROVE  stream'[j] = <<stream'[i][1], j - i + 1>>
  <2>1. i \in 1..m /\ stream'[i] = stream[i] /\ stream'[j] = stream[j] /\ Clean(j)
    BY <1>2, <1>3, <1>5, <1>6
  <2>. QED
    BY <2>1, <1>4, <1>6 DEF Unbroken
<1>. QED
  BY <1>3, <1>4, <1>6 DEF Fits, Unbroken

\* A piece of a sequence, by its places
LEMMA Window ==
    ASSUME NEW S, NEW s, NEW a \in Nat, NEW n \in Nat \ {0},
           \A j \in (a + 1)..(a + n) : s[j] \in S
    PROVE  /\ SubSeq(s, a + 1, a + n) \in Seq(S)
           /\ Len(SubSeq(s, a + 1, a + n)) = n
           /\ \A k \in 1..n : SubSeq(s, a + 1, a + n)[k] = s[a + k]
<1>1. PICK b \in Int, e \in Int : b = a + 1 /\ e = a + n
  OBVIOUS
<1>2. /\ SubSeq(s, b, e) \in Seq(S)
      /\ Len(SubSeq(s, b, e)) = IF b <= e THEN e - b + 1 ELSE 0
      /\ \A k \in 1..(e - b + 1) : SubSeq(s, b, e)[k] = s[b + k - 1]
  BY <1>1, SubSeqProperties
<1>3. b <= e /\ e - b + 1 = n /\ \A k \in 1..n : b + k - 1 = a + k
  BY <1>1
<1>4. \A k \in 1..n : SubSeq(s, b, e)[k] = s[a + k]
  BY <1>2, <1>3
<1>. QED
  BY <1>1, <1>2, <1>3, <1>4

\* What the reader is behind is the end of a frame, and so, in a clean stream,
\* what it reads next are cells of the frame that begins there.
LEMMA CleanFrame ==
    ASSUME TypeOK, InStep, EndsBefore, Fits, Unbroken, Clean(Len(stream)),
           NEW n \in Nat \ {0}, Ready(n), n <= Whole(stream[start + 1][1])
    PROVE  stream[start + 1][1] \in Frames /\ Taken(n) = Cells(stream[start + 1][1], 1, n)
<1>. DEFINE f == stream[start + 1][1]
            L == Len(stream)
<1>1. /\ start \in Nat /\ L \in Nat /\ start + n <= L /\ DOMAIN stream = 1..L
      /\ start + 1 \in 1..L /\ start + n \in 1..L
  BY StreamFacts DEF Ready
<1>2. f \in Frames /\ stream[start + 1] = <<f, stream[start + 1][2]>>
  BY <1>1, StreamFacts
<1>3. Whole(f) \in Nat
  BY <1>2, FrameFacts
<1>4. stream[start + 1] = <<f, 1>>
  <2>1. Follows(start + 1)
    BY <1>1 DEF Clean
  <2>2. CASE heard = <<>>
    <3>1. start + 1 = 1
      BY <2>2 DEF InStep
    <3>. QED
      BY <2>1, <3>1 DEF Follows
  <2>3. CASE heard # <<>>
    <3>. DEFINE h == heard[Len(heard)]
    <3>1. Len(heard) \in DOMAIN heard
      <4>1. heard \in Seq([frame : Frames, from : Nat])
        BY DEF TypeOK
      <4>2. Len(heard) \in Nat /\ DOMAIN heard = 1..Len(heard)
        BY <4>1, LenProperties
      <4>3. Len(heard) # 0
        BY <4>1, <2>3, EmptySeq
      <4>. QED
        BY <4>2, <4>3
    <3>2. PICK g \in Frames, a \in Nat, W \in Nat \ {0} :
             /\ start = a + W /\ W = Whole(g)
             /\ SubSeq(stream, a + 1, a + W) = Cells(g, 1, W)
      <4>1. /\ h.frame \in Frames /\ h.from \in Nat /\ Whole(h.frame) \in Nat \ {0}
            /\ start = h.from + Whole(h.frame)
            /\ SubSeq(stream, h.from + 1, h.from + Whole(h.frame)) =
                   Cells(h.frame, 1, Whole(h.frame))
        BY <3>1, <2>3, HeardPlaces, FrameFacts DEF InStep, End
      <4>. HIDE DEF h
      <4>. QED
        BY <4>1
    <3>3. stream[start] = <<g, W>>
      <4>1. \A j \in (a + 1)..(a + W) : stream[j] \in Frames \X Nat
        <5>1. \A j \in (a + 1)..(a + W) : j \in 1..Len(stream)
          BY <3>2, <1>1
        <5>. QED
          BY <5>1, StreamFacts
      <4>2. SubSeq(stream, a + 1, a + W)[W] = stream[a + W]
        BY <4>1, Window
      <4>3. Cells(g, 1, W)[W] = <<g, W>>
        BY DEF Cells
      <4>. QED
        BY <3>2, <4>2, <4>3
    <3>4. start + 1 # 1 /\ (start + 1) - 1 = start
      <4>1. start = a + W
        BY <3>2
      <4>. QED
        BY <4>1
    <3>5. \/ stream[start + 1] = <<f, W + 1>> /\ g = f
          \/ stream[start + 1][2] = 1
      BY <2>1, <3>3, <3>4 DEF Follows
    <3>6. stream[start + 1][2] \in 1..Whole(f)
      BY <1>1 DEF Fits
    <3>7. ~(stream[start + 1] = <<f, W + 1>> /\ g = f)
      <4>. SUFFICES ASSUME stream[start + 1] = <<f, W + 1>>, g = f PROVE FALSE
        OBVIOUS
      <4>1. stream[start + 1][2] = W + 1 /\ Whole(f) = W
        BY <3>2
      <4>. HIDE DEF f
      <4>. QED
        BY <4>1, <3>2, <3>6
    <3>. QED
      BY <1>2, <3>5, <3>7
  <2>. QED
    BY <2>2, <2>3
<1>. HIDE DEF f
<1>5. ASSUME NEW k \in 1..n PROVE stream[start + k] = <<f, k>>
  <2>1. /\ start + k \in 1..L /\ start + 1 \in 1..(start + k)
        /\ (start + k) - (start + 1) + 1 = k
        /\ (start + k) - (start + 1) < Whole(f)
    <3>1. n <= Whole(f)
      BY DEF f
    <3>. QED
      BY <3>1, <1>1, <1>3
  <2>2. Clean(start + k)
    BY <2>1, <1>1 DEF Clean
  <2>3. stream[start + 1][2] = 1 /\ stream[start + 1][1] = f
    BY <1>4
  <2>. QED
    BY <1>1, <2>1, <2>2, <2>3 DEF Unbroken
<1>6. Taken(n) = Cells(f, 1, n)
  <2>1. \A j \in (start + 1)..(start + n) : stream[j] \in Frames \X Nat
    BY <1>1, StreamFacts
  <2>2. /\ Taken(n) \in Seq(Frames \X Nat) /\ Len(Taken(n)) = n
        /\ \A k \in 1..n : Taken(n)[k] = stream[start + k]
    BY <1>1, <2>1, Window DEF Taken
  <2>3. Taken(n) = [k \in 1..n |-> Taken(n)[k]]
    BY <2>2, LenProperties
  <2>4. \A k \in 1..n : Taken(n)[k] = <<f, 1 + k - 1>>
    BY <2>2, <1>5
  <2>5. Cells(f, 1, n) = [k \in 1..n |-> <<f, 1 + k - 1>>]
    <3>1. n - 1 + 1 = n
      OBVIOUS
    <3>. QED
      BY <3>1 DEF Cells
  <2>. QED
    BY <2>3, <2>4, <2>5
<1>. QED
  BY <1>2, <1>6 DEF f

ReaderInv == Fits /\ Unbroken /\ Believed /\ GivenUpMeansMixed

\* Over a clean stream recvFrame believes the right length, and goes on.
LEMMA HeaderKeepsReader ==
    ASSUME TypeOK, InStep, EndsBefore, Fits, Unbroken, RecvHeader
    PROVE  Believed' /\ GivenUpMeansMixed'
<1>. DEFINE f == stream[start + 1][1]
<1>1. UNCHANGED <<stream, start, end>>
  BY DEF RecvHeader
<1>2. CASE ~Clean(Len(stream))
  BY <1>1, <1>2 DEF Believed, GivenUpMeansMixed, Clean, Follows
<1>3. CASE Clean(Len(stream))
  <2>1. /\ start \in Nat /\ Len(stream) \in Nat /\ HeaderSize \in Nat \ {0}
        /\ start + HeaderSize <= Len(stream) /\ start + 1 \in 1..Len(stream)
    BY StreamFacts, SizeAssumption DEF RecvHeader, Ready
  <2>2. f \in Frames
    BY <2>1, StreamFacts
  <2>3. /\ Size(f) \in Nat /\ HeaderSize + Size(f) + CrcSize < Modulus
        /\ HeaderSize <= Whole(f)
    BY <2>2, FrameFacts, SizeAssumption DEF Whole
  <2>4. Taken(HeaderSize) = Cells(f, 1, HeaderSize)
    <3>1. Ready(HeaderSize)
      BY DEF RecvHeader
    <3>. QED
      BY <1>3, <2>1, <2>3, <3>1, CleanFrame
  <2>5. LengthsSeen = {Total(Size(f))}
    BY <2>4 DEF LengthsSeen
  <2>6. ~TooSmall(Total(Size(f))) /\ PayLen(Total(Size(f))) = Size(f)
    BY <2>3, LengthRoundTrip
  <2>7. ~HeaderUnfit(Total(Size(f)))
    BY <2>4, <2>6 DEF HeaderUnfit
  <2>8. phase' = "payload" /\ paylen' = Size(f)
    BY <2>5, <2>6, <2>7 DEF RecvHeader
  <2>. QED
    BY <1>1, <2>1, <2>8 DEF Believed, GivenUpMeansMixed
<1>. QED
  BY <1>2, <1>3

\* ... and the CRC it reads is that of the frame.
LEMMA CrcKeepsReader ==
    ASSUME TypeOK, InStep, EndsBefore, Fits, Unbroken, Believed, RecvCrc
    PROVE  Believed' /\ GivenUpMeansMixed'
<1>. DEFINE f == stream[start + 1][1]
            n == HeaderSize + paylen + CrcSize
<1>1. UNCHANGED <<stream, end>> /\ phase' \in {"header", "gone"}
  BY DEF RecvCrc
<1>2. CASE ~Clean(Len(stream)) \/ ~Open
  BY <1>1, <1>2 DEF Believed, GivenUpMeansMixed, Clean, Follows, Open
<1>3. CASE Clean(Len(stream)) /\ Open
  <2>1. phase = "crc" /\ Ready(n)
    BY DEF RecvCrc
  <2>2. paylen = Size(f) /\ n = Whole(f)
    BY <1>3, <2>1 DEF Believed, Whole
  <2>3. n \in Nat \ {0}
    BY SizeAssumption DEF TypeOK
  <2>4. Taken(n) = Cells(f, 1, n)
    <3>1. n <= Whole(f)
      BY <2>2, <2>3
    <3>. HIDE DEF n
    <3>. QED
      BY <1>3, <2>1, <2>3, <3>1, CleanFrame
  <2>5. CrcMatches(n)
    BY <2>2, <2>4 DEF CrcMatches
  <2>6. phase' = "header"
    BY <2>5 DEF RecvCrc
  <2>. QED
    BY <2>6 DEF Believed, GivenUpMeansMixed
<1>. QED
  BY <1>2, <1>3

\* More cells do not clean a stream, nor do they change the header of a frame.
LEMMA PutKeepsReader ==
    ASSUME TypeOK, Believed, GivenUpMeansMixed, NEW w \in Writers, Put(w)
    PROVE  Believed' /\ GivenUpMeansMixed'
<1>1. PICK L \in Nat : L = Len(stream) /\ start \in Nat
  BY StreamFacts
<1>2. PICK n \in Nat \ {0} :
          Len(stream') = L + n /\ \A j \in 1..L : stream'[j] = stream[j]
  BY <1>1, PutCells
<1>3. UNCHANGED <<start, phase, paylen, end>>
  BY DEF Put, readVars
<1>4. PICK M \in Nat : M = L + n
  OBVIOUS
<1>5. Clean(M)' => Clean(L)
  <2>1. \A j \in 1..L : j \in 1..M
    BY <1>4
  <2>2. Clean(M)' => Clean(L)'
    BY <2>1 DEF Clean
  <2>. QED
    BY <2>2, <1>2, CleanPrefix
<1>6. Clean(Len(stream))' => Clean(Len(stream))
  <2>1. Clean(Len(stream))' <=> Clean(M)'
    BY <1>2, <1>4 DEF Clean
  <2>2. Clean(Len(stream)) <=> Clean(L)
    BY <1>1 DEF Clean
  <2>. QED
    BY <1>5, <2>1, <2>2
<1>7. GivenUpMeansMixed'
  BY <1>3, <1>6 DEF GivenUpMeansMixed, Open
<1>8. Believed'
  <2>. SUFFICES ASSUME Open', phase' \in {"payload", "crc"}, Clean(Len(stream))'
                PROVE  /\ start' + HeaderSize <= Len(stream')
                       /\ paylen' = Size(stream'[start' + 1][1])
    BY DEF Believed
  <2>1. start + HeaderSize <= Len(stream) /\ paylen = Size(stream[start + 1][1])
    BY <1>3, <1>6 DEF Believed, Open
  <2>2. start + 1 \in 1..L /\ start + HeaderSize <= L + n
    BY <2>1, <1>1, <1>2, SizeAssumption
  <2>. QED
    BY <1>2, <1>3, <2>1, <2>2
<1>. QED
  BY <1>7, <1>8

\* The invariant behind the reader's staying
LEMMA ReaderKept == Spec => []ReaderInv
<1>1. Init => ReaderInv
  BY DEF Init, ReaderInv, Fits, Unbroken, Believed, GivenUpMeansMixed
<1>2. TypeOK /\ InStep /\ EndsBefore /\ ReaderInv /\ [Next]_vars => ReaderInv'
  <2>. SUFFICES ASSUME TypeOK, InStep, EndsBefore, ReaderInv, [Next]_vars
                PROVE  ReaderInv'
    OBVIOUS
  <2>. USE DEF ReaderInv
  <2>1. ASSUME NEW w \in Writers, Put(w) PROVE ReaderInv'
    BY <2>1, PutUnbroken, PutKeepsReader
  <2>2. CASE Reset
    <3>1. ~Open'
      BY <2>2 DEF Reset, Open
    <3>. QED
      BY <3>1, <2>2, ResetUnbroken DEF Believed, GivenUpMeansMixed
  <2>3. ASSUME UNCHANGED stream PROVE Fits' /\ Unbroken'
    BY <2>3 DEF Fits, Unbroken, Clean, Follows
  <2>4. CASE RecvHeader
    <3>1. UNCHANGED stream
      BY <2>4 DEF RecvHeader
    <3>. QED
      BY <2>3, <2>4, <3>1, HeaderKeepsReader
  <2>5. CASE RecvCrc
    <3>1. UNCHANGED stream
      BY <2>5 DEF RecvCrc
    <3>. QED
      BY <2>3, <2>5, <3>1, CrcKeepsReader
  <2>6. CASE RecvPayload
    <3>1. /\ UNCHANGED <<stream, start, paylen, end>>
          /\ phase = "payload" /\ phase' = "crc"
      BY <2>6 DEF RecvPayload
    <3>. QED
      BY <2>3, <3>1 DEF Believed, GivenUpMeansMixed, Clean, Follows, Open
  <2>7. CASE RecvEof \/ Shut
    <3>1. UNCHANGED stream /\ ~Open'
      BY <2>7 DEF RecvEof, Shut, Open
    <3>. QED
      BY <2>3, <3>1 DEF Believed, GivenUpMeansMixed
  <2>8. CASE (\E w \in Writers : PutFails(w)) \/ UNCHANGED vars
    <3>1. UNCHANGED <<stream, start, paylen, end, phase>>
      BY <2>8 DEF PutFails, vars, readVars
    <3>. QED
      BY <2>3, <3>1 DEF Believed, GivenUpMeansMixed, Clean, Follows, Open
  <2>. QED
    BY <2>1, <2>2, <2>4, <2>5, <2>6, <2>7, <2>8 DEF Next, Read
<1>. QED
  BY <1>1, <1>2, WireTypeCorrect, EndsStayBefore, PTL DEF Spec

\* The reader gives up an open connection only over frames that were mixed or cut
\* short, whatever their sizes and however TCP hands them over.
THEOREM OnlyMixedFramesEndIt == Spec => []GivenUpMeansMixed
<1>1. ReaderInv => GivenUpMeansMixed
  BY DEF ReaderInv
<1>. QED
  BY <1>1, ReaderKept, PTL

\* What the only writer of a connection has sent is clean, and ends where it is.
Alone(d) ==
    Open => /\ Clean(Len(stream))
            /\ IF stream = <<>> THEN off[d] = 0
               ELSE LET c == stream[Len(stream)]
                    IN  IF off[d] = 0 THEN c[2] = Whole(c[1])
                        ELSE c = <<<<d, at[d]>>, off[d]>>

\* A lone writer puts the cells of a frame in order, and frame after frame.
LEMMA PutAlone ==
    ASSUME TypeOK, NEW d \in Writers, Alone(d), Put(d)
    PROVE  Alone(d)'
<1>. DEFINE f == <<d, at[d]>>
<1>1. PICK L \in Nat : L = Len(stream) /\ DOMAIN stream = 1..L
  BY StreamFacts
<1>2. PICK n \in Nat \ {0} :
          /\ f \in Frames /\ off[d] \in Nat /\ off[d] + n <= Whole(f)
          /\ stream' \in Seq(Frames \X Nat) /\ Len(stream') = L + n
          /\ \A j \in 1..L : stream'[j] = stream[j]
          /\ \A j \in (L + 1)..(L + n) : stream'[j] = <<f, off[d] + (j - L)>>
          /\ IF off[d] + n = Whole(f)
             THEN /\ at' = [at EXCEPT ![d] = @ + 1]
                  /\ off' = [off EXCEPT ![d] = 0]
             ELSE /\ off' = [off EXCEPT ![d] = @ + n]
                  /\ UNCHANGED at
  BY <1>1, PutCells
<1>3. Open /\ Clean(L) /\ off \in [Writers -> Nat] /\ at \in [Writers -> Nat \ {0}]
  BY <1>1 DEF Put, Alone, TypeOK
<1>4. IF L = 0 THEN off[d] = 0
      ELSE IF off[d] = 0 THEN stream[L][2] = Whole(stream[L][1])
           ELSE stream[L] = <<f, off[d]>>
  <2>1. L = 0 <=> stream = <<>>
    BY <1>1, StreamFacts, EmptySeq
  <2>. QED
    BY <2>1, <1>1, <1>3 DEF Alone
<1>5. PICK M \in Nat : M = L + n
  OBVIOUS
<1>6. ASSUME NEW j \in 1..M PROVE Follows(j)'
  <2>1. CASE j \in 1..L
    <3>1. j \in Nat /\ \A k \in 1..j : stream'[k] = stream[k]
      BY <2>1, <1>2
    <3>2. Clean(j)'
      <4>1. Clean(j)
        BY <2>1, <1>3 DEF Clean
      <4>. QED
        BY <3>1, <4>1, CleanPrefix
    <3>3. j \in 1..j
      BY <2>1
    <3>. QED
      BY <3>2, <3>3 DEF Clean
  <2>2. CASE j \in (L + 1)..(L + n) /\ j # L + 1
    <3>1. j - 1 \in (L + 1)..(L + n) /\ j # 1
          /\ off[d] + (j - L) = (off[d] + ((j - 1) - L)) + 1
      <4>1. off[d] \in Nat
        BY <1>2
      <4>. QED
        BY <4>1, <2>2
    <3>2. stream'[j] = <<f, off[d] + (j - L)>>
          /\ stream'[j - 1] = <<f, off[d] + ((j - 1) - L)>>
      BY <2>2, <3>1, <1>2
    <3>. QED
      BY <3>1, <3>2 DEF Follows
  <2>3. CASE j = L + 1
    <3>1. /\ j \in (L + 1)..(L + n) /\ off[d] + (j - L) = off[d] + 1
          /\ j - 1 = L /\ (L # 0 => L \in 1..L)
      BY <2>3, <1>2
    <3>2. stream'[j] = <<f, off[d] + 1>> /\ (L # 0 => stream'[j - 1] = stream[L])
      BY <3>1, <1>2
    <3>3. CASE L = 0
      BY <3>2, <3>3, <2>3, <1>4 DEF Follows
    <3>4. CASE L # 0
      <4>1. j # 1
        BY <2>3, <3>4
      <4>. QED
        BY <4>1, <3>2, <3>4, <1>4 DEF Follows
    <3>. QED
      BY <3>3, <3>4
  <2>. QED
    BY <2>1, <2>2, <2>3, <1>5
<1>7. Clean(Len(stream))'
  <2>1. Clean(M)'
    BY <1>6 DEF Clean
  <2>. QED
    BY <2>1, <1>2, <1>5 DEF Clean
<1>8. stream'[Len(stream')] = <<f, off[d] + n>> /\ stream' # <<>>
  <2>1. L + n \in (L + 1)..(L + n) /\ off[d] + ((L + n) - L) = off[d] + n /\ L + n # 0
    BY <1>2
  <2>2. stream'[L + n] = <<f, off[d] + n>>
    BY <2>1, <1>2
  <2>. QED
    BY <2>1, <2>2, <1>2
<1>9. IF off'[d] = 0 THEN off[d] + n = Whole(f)
      ELSE off'[d] = off[d] + n /\ at'[d] = at[d]
  BY <1>2, <1>3
<1>. QED
  BY <1>7, <1>8, <1>9 DEF Alone

\* The device is the only one that writes on its end of the connection, and no
\* signal interrupts it: then the reader never gives up an open connection.
THEOREM LoneWriterIsHeard ==
    ASSUME NEW d, Writers = {d}, Interruptible = {}
    PROVE  Spec => []NeverGivenUp
<1>1. Init => Alone(d)
  BY DEF Init, Alone, Clean
<1>2. TypeOK /\ Alone(d) /\ [Next]_vars => Alone(d)'
  <2>. SUFFICES ASSUME TypeOK, Alone(d), [Next]_vars PROVE Alone(d)'
    OBVIOUS
  <2>1. CASE Put(d)
    BY <2>1, PutAlone
  <2>2. CASE PutFails(d) \/ Shut \/ Reset \/ RecvEof
    BY <2>2 DEF PutFails, Shut, Reset, RecvEof, Alone, Open
  <2>3. CASE RecvHeader \/ RecvPayload \/ RecvCrc \/ UNCHANGED vars
    <3>1. UNCHANGED <<at, off, stream, end>>
      BY <2>3 DEF RecvHeader, RecvPayload, RecvCrc, vars, writeVars
    <3>2. Clean(Len(stream)) = Clean(Len(stream))' /\ Open = Open'
      BY <3>1 DEF Clean, Follows, Open
    <3>. QED
      BY <3>1, <3>2 DEF Alone
  <2>. QED
    BY <2>1, <2>2, <2>3 DEF Next, Read
<1>3. Alone(d) /\ GivenUpMeansMixed => NeverGivenUp
  BY DEF Alone, GivenUpMeansMixed, NeverGivenUp
<1>. QED
  BY <1>1, <1>2, <1>3, WireTypeCorrect, OnlyMixedFramesEndIt, PTL DEF Spec

=============================================================================
