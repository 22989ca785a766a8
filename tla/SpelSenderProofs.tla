-------------------------- MODULE SpelSenderProofs --------------------------
(* Proofs about SpelSender: in which order the node hears the runs of the   *)
(* tool, and what, for any number of runs and starts of the node.            *)
EXTENDS SpelSender, SequenceTheorems, TLAPS

Phases == {"new", "waiting", "lingering", "ended"}

\* The shape of the state
Shape ==
    /\ pc \in [Runs -> Phases] /\ earlier \in [Runs -> SUBSET Runs]
    /\ DOMAIN typed = Runs /\ DOMAIN data = Runs
    /\ life \in Nat /\ up \in {"off", "connecting", "spinning"}
    /\ sent \subseteq Runs /\ queue \in Seq(Runs)
    /\ got \in Seq(Runs)

\* A run that had ended when another began stays ended: nothing is delivered of it
\* any more.
EndedStay == \A r \in Runs : \A q \in earlier[r] : pc[q] = "ended"

\* What was heard and what still waits, put together, are in order.
InOrder ==
    /\ \A i, j \in DOMAIN queue : i < j => queue[j] \notin earlier[queue[i]]
    /\ \A i \in DOMAIN got, j \in DOMAIN queue : queue[j] \notin earlier[got[i]]
    /\ RunsHeardInOrder

Honest(r) == Becomes(typed[r], data[r])

\* Whoever publishes has begun, and its data are what becomes of what was typed.
AllHonest ==
    /\ \A r \in Runs : pc[r] \in {"waiting", "lingering"} => Honest(r)
    /\ \A i \in DOMAIN queue : pc[queue[i]] # "new" /\ Honest(queue[i])
    /\ \A i \in DOMAIN got : pc[got[i]] # "new" /\ Honest(got[i])

SenderInv == Shape /\ EndedStay /\ InOrder /\ AllHonest

-----------------------------------------------------------------------------
(* The queue *)

\* Places in the queue and in what was heard
LEMMA Places ==
    ASSUME Shape
    PROVE  /\ Len(queue) \in Nat /\ DOMAIN queue = 1..Len(queue)
           /\ Len(got) \in Nat /\ DOMAIN got = 1..Len(got)
           /\ \A i \in DOMAIN queue : queue[i] \in Runs
           /\ \A i \in DOMAIN got : got[i] \in Runs
<1>1. queue \in Seq(Runs) /\ got \in Seq(Runs)
  BY DEF Shape
<1>2. \A i \in 1..Len(got) : got[i] \in Runs
  BY <1>1, ElementOfSeq
<1>. QED
  BY <1>1, <1>2, LenProperties, ElementOfSeq

\* A message that is delivered is the last in the queue; the first may have gone.
LEMMA Delivered ==
    ASSUME Shape, NEW r \in Runs, Deliver(r)
    PROVE  \E d \in {0, 1} :
              /\ queue' \in Seq(Runs) /\ DOMAIN queue' = 1..(Len(queue) + 1 - d)
              /\ \A j \in 1..(Len(queue) + 1 - d) :
                    \/ j + d \in DOMAIN queue /\ queue'[j] = queue[j + d]
                    \/ j + d = Len(queue) + 1 /\ queue'[j] = r
<1>. DEFINE q == Append(queue, r)
            L == Len(queue)
<1>1. queue \in Seq(Runs) /\ L \in Nat /\ DOMAIN queue = 1..L
  BY Places DEF Shape
<1>2. /\ q \in Seq(Runs) /\ Len(q) = L + 1 /\ q[L + 1] = r
      /\ \A j \in 1..L : q[j] = queue[j]
  BY <1>1, AppendProperties
<1>3. queue' = IF Len(q) > Depth THEN Tail(q) ELSE q
  BY DEF Deliver
<1>. HIDE DEF q
<1>4. CASE queue' = q
  <2>1. DOMAIN q = 1..(L + 1 - 0)
    BY <1>1, <1>2, LenProperties
  <2>2. \A j \in 1..(L + 1 - 0) : \/ j + 0 \in DOMAIN queue /\ q[j] = queue[j + 0]
                                  \/ j + 0 = L + 1 /\ q[j] = r
    BY <1>1, <1>2
  <2>. QED
    BY <1>2, <1>4, <2>1, <2>2
<1>5. CASE queue' = Tail(q)
  <2>1. q # <<>>
    BY <1>1, <1>2, EmptySeq
  <2>2. /\ Tail(q) \in Seq(Runs) /\ Len(Tail(q)) = L
        /\ \A j \in 1..L : Tail(q)[j] = q[j + 1]
    BY <1>1, <1>2, <2>1, HeadTailProperties
  <2>3. DOMAIN Tail(q) = 1..(L + 1 - 1)
    BY <1>1, <2>2, LenProperties
  <2>4. \A j \in 1..(L + 1 - 1) :
            \/ j + 1 \in DOMAIN queue /\ Tail(q)[j] = queue[j + 1]
            \/ j + 1 = L + 1 /\ Tail(q)[j] = r
    BY <1>1, <1>2, <2>2
  <2>. QED
    BY <1>5, <2>2, <2>3, <2>4
<1>. QED
  BY <1>3, <1>4, <1>5

\* The callback is given the first message of the queue.
LEMMA Called ==
    ASSUME Shape, Callback
    PROVE  /\ 1 \in DOMAIN queue /\ queue' \in Seq(Runs)
           /\ DOMAIN queue' = 1..(Len(queue) - 1)
           /\ \A j \in DOMAIN queue' : j + 1 \in DOMAIN queue /\ queue'[j] = queue[j + 1]
           /\ got' \in Seq(Runs)
           /\ DOMAIN got' = 1..(Len(got) + 1)
           /\ \A i \in DOMAIN got : got'[i] = got[i]
           /\ got'[Len(got) + 1] = queue[1]
<1>. DEFINE e == queue[1]
<1>1. /\ queue \in Seq(Runs) /\ queue # <<>> /\ Len(queue) \in Nat
      /\ DOMAIN queue = 1..Len(queue)
  BY Places DEF Shape, Callback
<1>2. Len(queue) # 0
  BY <1>1, EmptySeq
<1>3. /\ Head(queue) = queue[1] /\ Tail(queue) \in Seq(Runs)
      /\ Len(Tail(queue)) = Len(queue) - 1
      /\ \A j \in 1..(Len(queue) - 1) : Tail(queue)[j] = queue[j + 1]
  BY <1>1, HeadTailProperties
<1>4. queue' = Tail(queue) /\ got' = Append(got, e)
  BY <1>3 DEF Callback
<1>5. 1 \in DOMAIN queue /\ \A j \in 1..(Len(queue) - 1) : j + 1 \in DOMAIN queue
  BY <1>1, <1>2
<1>6. DOMAIN queue' = 1..(Len(queue) - 1)
  BY <1>3, <1>4, LenProperties
<1>7. e \in Runs /\ got \in Seq(Runs)
  <2>1. queue[1] \in Runs
    BY <1>5, Places
  <2>. QED
    BY <2>1 DEF Shape
<1>. HIDE DEF e
<1>8. /\ got' \in Seq(Runs) /\ Len(got') = Len(got) + 1
      /\ \A i \in 1..Len(got) : got'[i] = got[i]
      /\ got'[Len(got) + 1] = e
  BY <1>4, <1>7, AppendProperties
<1>9. DOMAIN got' = 1..(Len(got) + 1)
  BY <1>8, LenProperties
<1>. QED
  BY <1>3, <1>4, <1>5, <1>6, <1>8, <1>9, Places DEF e

-----------------------------------------------------------------------------
(* The invariant *)

\* What holds before anything has run
LEMMA InitKeeps == Init => SenderInv
  BY SenderAssumption
     DEF Init, SenderInv, Shape, EndedStay, InOrder, AllHonest, Honest,
         Phases, RunsHeardInOrder

\* What is cut off a number is a multiple of the width.
LEMMA Multiple ==
    ASSUME NEW x \in Int, NEW m \in Nat \ {0}
    PROVE  /\ x % m \in 0..(m - 1)
           /\ (x - (x % m)) % m = 0
<1>1. x = m * (x \div m) + (x % m) /\ x % m \in 0..(m - 1) /\ x \div m \in Int
  OBVIOUS
<1>. DEFINE q == x \div m
<1>2. (m * q) % m = 0
  <2>. HIDE DEF q
  <2>1. q \in Int
    BY <1>1 DEF q
  <2>. QED
    BY <2>1
<1>3. x - (x % m) = m * q
  BY <1>1
<1>. QED
  BY <1>1, <1>2, <1>3

\* What is added to a multiple of the width is what is left.
LEMMA Remainder ==
    ASSUME NEW q \in Int, NEW m \in Nat \ {0}, NEW c \in 0..(m - 1)
    PROVE  (m * q + c) % m = c
  OBVIOUS

\* What the check lets through is a byte, and what becomes of the argument.
LEMMA Accepted ==
    ASSUME NEW a \in Arguments, Valid(Atoi(a))
    PROVE  Becomes(a, Atoi(a) % Bytes)
<1>. DEFINE n == Atoi(a)
            h == IntHalf
            m == 2 * h
            l == LongHalf
<1>1. /\ h \in Nat \ {0} /\ Bytes \in Nat \ {0} /\ Bytes <= h /\ m \in Nat \ {0}
      /\ l \in Nat /\ l % m = 0
  BY SenderAssumption
<1>2. n \in Int
  <2>1. CASE IsNumber(a)
    <3>1. a.value \in Int
      BY <2>1, SenderAssumption DEF IsNumber
    <3>2. Long(a.value) \in Int
      BY <3>1, <1>1 DEF Long
    <3>3. (Long(a.value) + h) % m \in Int
      <4>1. Long(a.value) + h \in Int
        BY <3>2, <1>1
      <4>. HIDE DEF m, h
      <4>. QED
        BY <1>1, <4>1
    <3>. QED
      BY <2>1, <3>3, <1>1 DEF Atoi, CutToInt
  <2>2. CASE ~IsNumber(a)
    BY <2>2 DEF Atoi
  <2>. QED
    BY <2>1, <2>2
<1>3. n \in 0..(Bytes - 1)
  BY <1>1, <1>2 DEF Valid
<1>4. n % Bytes = n
  <2>. HIDE DEF n
  <2>. QED
    BY <1>1, <1>3
<1>5. CASE ~IsNumber(a)
  <2>1. n = 0
    BY <1>5 DEF Atoi
  <2>. QED
    BY <1>3, <1>4, <1>5, <2>1 DEF Becomes
<1>6. CASE IsNumber(a)
  <2>. DEFINE v == a.value
  <2>1. v \in Int
    BY <1>6, SenderAssumption DEF IsNumber
  <2>2. n = ((Long(v) + h) % m) - h
    BY <1>6 DEF Atoi, CutToInt
  <2>3. CASE v \in -l..(l - 1)
    <3>1. Long(v) = v
      BY <1>1, <2>1, <2>3 DEF Long
    <3>. DEFINE x == v + h
    <3>2. x \in Int /\ n = (x % m) - h
      BY <1>1, <2>1, <2>2, <3>1
    <3>. HIDE DEF x, m
    <3>3. (x - (x % m)) % m = 0 /\ x % m \in Int
      <4>1. x \in Int /\ m \in Nat \ {0}
        BY <1>1, <3>2
      <4>2. /\ x % m \in 0..(m - 1)
            /\ (x - (x % m)) % m = 0
        BY ONLY <4>1, Multiple
      <4>. QED
        BY <4>1, <4>2
    <3>4. v - n = x - (x % m)
      <4>. HIDE DEF n, v
      <4>. QED
        BY <1>1, <1>2, <2>1, <3>2, <3>3 DEF x
    <3>5. (v - n) % m = 0
      BY <3>3, <3>4
    <3>. QED
      BY <1>3, <1>4, <1>6, <2>3, <3>5 DEF Becomes, m
  <2>. DEFINE k == l \div m
  <2>4. k \in Int /\ l = m * k
    <3>. HIDE DEF m, l
    <3>. QED
      BY <1>1
  <2>5. v >= l => FALSE
    <3>. SUFFICES ASSUME v >= l PROVE FALSE
      OBVIOUS
    <3>1. Long(v) = l - 1
      BY DEF Long
    <3>2. Long(v) + h = m * k + (h - 1)
      <4>. HIDE DEF k, m, l, v
      <4>. QED
        BY <1>1, <2>4, <3>1
    <3>3. (Long(v) + h) % m = h - 1
      <4>1. h - 1 \in 0..(m - 1)
        BY <1>1
      <4>. HIDE DEF k, m, l, v
      <4>. QED
        BY <1>1, <2>4, <3>2, <4>1, Remainder
    <3>4. n = -1
      <4>. HIDE DEF n
      <4>. QED
        BY <1>1, <2>2, <3>3
    <3>. QED
      BY <1>1, <1>3, <3>4
  <2>6. CASE v < -l
    <3>1. Long(v) = -l
      BY <1>1, <2>1, <2>6 DEF Long
    <3>2. Long(v) + h = m * (-k) + h
      <4>. HIDE DEF k, m, l, v
      <4>. QED
        BY <1>1, <2>4, <3>1
    <3>3. (Long(v) + h) % m = h
      <4>1. h \in 0..(m - 1)
        BY <1>1
      <4>2. -k \in Int
        BY <2>4
      <4>. HIDE DEF k, m, l, v
      <4>. QED
        BY <1>1, <2>4, <3>2, <4>1, <4>2, Remainder
    <3>4. n = 0
      <4>. HIDE DEF n
      <4>. QED
        BY <1>1, <2>2, <3>3
    <3>5. v < 0 /\ v \notin -l..(l - 1)
      BY <1>1, <2>1, <2>6
    <3>. QED
      BY <1>3, <1>4, <1>6, <3>4, <3>5 DEF Becomes
  <2>. QED
    BY <1>1, <2>1, <2>3, <2>5, <2>6
<1>. QED
  BY <1>5, <1>6

\* A run that begins is nowhere yet, and the runs that have ended were never to
\* be heard after it.
LEMMA BeginKeeps ==
    ASSUME SenderInv, NEW r \in Runs, NEW a \in Arguments, Begin(r, a)
    PROVE  SenderInv'
<1>1. /\ Shape /\ EndedStay /\ InOrder /\ AllHonest
      /\ pc[r] = "new" /\ typed' = [typed EXCEPT ![r] = a]
      /\ earlier' = [earlier EXCEPT ![r] = {q \in Runs : pc[q] = "ended"}]
      /\ pc' \in [Runs -> Phases] /\ pc'[r] \in {"waiting", "ended"}
      /\ \A q \in Runs \ {r} : pc'[q] = pc[q] /\ data'[q] = data[q]
      /\ DOMAIN data' = Runs
      /\ UNCHANGED nodeVars
  BY DEF SenderInv, Begin, Shape, Phases
<1>2. /\ \A i \in DOMAIN queue : queue[i] \in Runs \ {r}
      /\ \A i \in DOMAIN got : got[i] \in Runs \ {r}
  BY <1>1, Places DEF AllHonest
<1>3. \A q \in Runs \ {r} : earlier'[q] = earlier[q] /\ typed'[q] = typed[q]
  BY <1>1 DEF Shape
<1>4. Shape'
  BY <1>1 DEF Shape, nodeVars
<1>5. EndedStay'
  <2>1. earlier'[r] = {q \in Runs : pc[q] = "ended"}
    BY <1>1 DEF Shape
  <2>2. \A q \in Runs : pc[q] = "ended" => pc'[q] = "ended"
    BY <1>1
  <2>. QED
    BY <1>1, <1>3, <2>1, <2>2 DEF EndedStay, Shape
<1>6. InOrder'
  <2>1. queue' = queue /\ got' = got
    BY <1>1 DEF nodeVars
  <2>. QED
    BY <1>1, <1>2, <1>3, <2>1 DEF InOrder, RunsHeardInOrder
<1>8. \A q \in Runs : Honest(q) /\ q # r => Honest(q)'
  BY <1>1, <1>3 DEF Honest
<1>9. pc'[r] = "waiting" => Honest(r)'
  <2>1. ASSUME pc'[r] = "waiting"
        PROVE  Valid(Atoi(a)) /\ data'[r] = Atoi(a) % Bytes /\ typed'[r] = a
    BY <1>1, <2>1 DEF Begin, Shape
  <2>. QED
    BY <2>1, Accepted DEF Honest
<1>10. AllHonest'
  <2>1. queue' = queue /\ got' = got
    BY <1>1 DEF nodeVars
  <2>. QED
    BY <1>1, <1>2, <1>8, <1>9, <2>1 DEF AllHonest
<1>. QED
  BY <1>4, <1>5, <1>6, <1>10 DEF SenderInv

\* A run that publishes, ends or is discovered changes nothing the node has.
LEMMA RunKeeps ==
    ASSUME SenderInv, NEW r \in Runs, Publish(r) \/ End(r) \/ Match(r)
    PROVE  SenderInv'
<1>1. /\ Shape /\ EndedStay /\ InOrder /\ AllHonest
      /\ UNCHANGED <<typed, data, earlier, life, up, sent, queue, got>>
      /\ pc' \in [Runs -> Phases]
      /\ \A q \in Runs : \/ pc'[q] = pc[q]
                         \/ pc[q] \in {"waiting", "lingering"}
                            /\ pc'[q] \in {"lingering", "ended"}
  BY DEF SenderInv, Shape, Phases, Publish, End, Match, nodeVars, toolVars
<1>2. \A q \in Runs : Honest(q)' <=> Honest(q)
  BY <1>1 DEF Honest
<1>3. Shape'
  BY <1>1 DEF Shape
<1>4. EndedStay'
  BY <1>1 DEF EndedStay, Shape
<1>5. InOrder'
  BY <1>1 DEF InOrder, RunsHeardInOrder
<1>7. AllHonest'
  BY <1>1, <1>2, Places DEF AllHonest
<1>. QED
  BY <1>3, <1>4, <1>5, <1>7 DEF SenderInv

\* Whose message is delivered has not ended: it was not heard, nor does it wait,
\* and whoever was heard or waits did not begin after its end.
LEMMA DeliverKeeps ==
    ASSUME SenderInv, NEW r \in Runs, Deliver(r)
    PROVE  SenderInv'
<1>1. /\ Shape /\ EndedStay /\ InOrder /\ AllHonest
      /\ up # "off" /\ r \notin sent /\ pc[r] = "lingering" /\ sent' = sent \cup {r}
      /\ UNCHANGED <<pc, typed, data, earlier, life, up, got>>
  BY DEF SenderInv, Deliver, Retained, toolVars
<1>2. \A q \in Runs : r \notin earlier[q]
  BY <1>1 DEF EndedStay
<1>3. PICK d \in {0, 1} :
         /\ queue' \in Seq(Runs) /\ DOMAIN queue' = 1..(Len(queue) + 1 - d)
         /\ \A j \in 1..(Len(queue) + 1 - d) :
               \/ j + d \in DOMAIN queue /\ queue'[j] = queue[j + d]
               \/ j + d = Len(queue) + 1 /\ queue'[j] = r
  BY <1>1, Delivered
<1>4. /\ Len(queue) \in Nat /\ DOMAIN queue = 1..Len(queue)
      /\ \A i \in DOMAIN queue : queue[i] \in Runs
      /\ \A i \in DOMAIN got : got[i] \in Runs
  BY <1>1, Places
<1>5. Shape'
  BY <1>1, <1>3 DEF Shape
<1>6. EndedStay'
  BY <1>1 DEF EndedStay
<1>7. InOrder'
  <2>1. ASSUME NEW i \in DOMAIN queue', NEW j \in DOMAIN queue', i < j
        PROVE  queue'[j] \notin earlier[queue'[i]]
    <3>1. i + d \in DOMAIN queue /\ queue'[i] = queue[i + d]
      <4>1. i \in 1..(Len(queue) + 1 - d) /\ j \in 1..(Len(queue) + 1 - d)
        BY <1>3
      <4>2. i + d # Len(queue) + 1
        BY <1>4, <2>1, <4>1
      <4>. QED
        BY <1>3, <4>1, <4>2
    <3>2. \/ j + d \in DOMAIN queue /\ queue'[j] = queue[j + d]
          \/ queue'[j] = r
      BY <1>3
    <3>3. i + d < j + d
      BY <1>3, <2>1
    <3>. QED
      <4>1. CASE queue'[j] = r
        BY <1>2, <1>4, <3>1, <4>1
      <4>2. CASE j + d \in DOMAIN queue /\ queue'[j] = queue[j + d]
        BY <1>1, <3>1, <3>3, <4>2 DEF InOrder
      <4>. QED
        BY <3>2, <4>1, <4>2
  <2>2. ASSUME NEW i \in DOMAIN got, NEW j \in DOMAIN queue'
        PROVE  queue'[j] \notin earlier[got[i]]
    <3>1. \/ j + d \in DOMAIN queue /\ queue'[j] = queue[j + d]
          \/ queue'[j] = r
      BY <1>3
    <3>. QED
      BY <1>1, <1>2, <1>4, <3>1 DEF InOrder
  <2>. QED
    BY <1>1, <2>1, <2>2 DEF InOrder, RunsHeardInOrder
<1>9. AllHonest'
  <2>1. Honest(r) /\ pc[r] # "new"
    BY <1>1 DEF AllHonest
  <2>2. \A j \in DOMAIN queue' : queue'[j] \in Runs /\ pc[queue'[j]] # "new"
                                 /\ Honest(queue'[j])
    BY <1>1, <1>3, <1>4, <2>1 DEF AllHonest
  <2>. QED
    BY <1>1, <1>4, <2>2 DEF AllHonest, Honest
<1>. QED
  BY <1>5, <1>6, <1>7, <1>9 DEF SenderInv

\* The first message of the queue is heard after all before it and in its turn.
LEMMA CallbackKeeps ==
    ASSUME SenderInv, Callback
    PROVE  SenderInv'
<1>1. /\ Shape /\ EndedStay /\ InOrder /\ AllHonest
      /\ up # "off" /\ UNCHANGED <<pc, typed, data, earlier, life, up, sent>>
  BY DEF SenderInv, Callback, toolVars
<1>2. /\ 1 \in DOMAIN queue /\ queue' \in Seq(Runs)
      /\ DOMAIN queue' = 1..(Len(queue) - 1)
      /\ \A j \in DOMAIN queue' : j + 1 \in DOMAIN queue /\ queue'[j] = queue[j + 1]
      /\ got' \in Seq(Runs)
      /\ DOMAIN got' = 1..(Len(got) + 1)
      /\ \A i \in DOMAIN got : got'[i] = got[i]
      /\ got'[Len(got) + 1] = queue[1]
  BY <1>1, Called
<1>3. /\ Len(queue) \in Nat /\ DOMAIN queue = 1..Len(queue)
      /\ Len(got) \in Nat /\ DOMAIN got = 1..Len(got)
      /\ \A i \in DOMAIN queue : queue[i] \in Runs
      /\ \A i \in DOMAIN got : got[i] \in Runs
  BY <1>1, Places
<1>4. \A i \in DOMAIN got' :
          \/ i \in DOMAIN got /\ got'[i] = got[i]
          \/ i = Len(got) + 1 /\ got'[i] = queue[1]
  BY <1>2, <1>3
<1>5. Shape' /\ EndedStay'
  BY <1>1, <1>2 DEF Shape, EndedStay
<1>6. InOrder'
  <2>1. \A i, j \in DOMAIN queue' : i < j => queue'[j] \notin earlier[queue'[i]]
    <3>1. \A i, j \in DOMAIN queue' : i < j => i + 1 < j + 1
      BY <1>2, <1>3
    <3>. QED
      BY <1>1, <1>2, <3>1 DEF InOrder
  <2>2. ASSUME NEW i \in DOMAIN got', NEW j \in DOMAIN queue'
        PROVE  queue'[j] \notin earlier[got'[i]]
    <3>1. j + 1 \in DOMAIN queue /\ queue'[j] = queue[j + 1] /\ 1 < j + 1
      BY <1>2, <1>3
    <3>. QED
      BY <1>1, <1>2, <1>4, <3>1 DEF InOrder
  <2>3. ASSUME NEW i \in DOMAIN got', NEW j \in DOMAIN got', i < j
        PROVE  got'[j] \notin earlier[got'[i]]
    <3>1. i \in DOMAIN got /\ got'[i] = got[i]
      BY <1>2, <1>3, <2>3
    <3>. QED
      BY <1>1, <1>2, <1>4, <2>3, <3>1 DEF InOrder, RunsHeardInOrder
  <2>. QED
    BY <1>1, <2>1, <2>2, <2>3 DEF InOrder, RunsHeardInOrder
<1>8. AllHonest'
  <2>1. /\ \A j \in DOMAIN queue' : queue'[j] \in Runs /\ pc[queue'[j]] # "new"
                                    /\ Honest(queue'[j])
        /\ \A i \in DOMAIN got' : got'[i] \in Runs /\ pc[got'[i]] # "new"
                                  /\ Honest(got'[i])
    BY <1>1, <1>2, <1>3, <1>4 DEF AllHonest
  <2>. QED
    BY <1>1, <2>1 DEF AllHonest, Honest
<1>. QED
  BY <1>5, <1>6, <1>8 DEF SenderInv

\* A node that starts has heard nothing in its life; one that stops loses what waits.
LEMMA NodeKeeps ==
    ASSUME SenderInv, Start \/ Spin \/ Stop \/ UNCHANGED vars
    PROVE  SenderInv'
<1>1. /\ Shape /\ EndedStay /\ InOrder /\ AllHonest
      /\ UNCHANGED <<pc, typed, data, earlier, got>>
      /\ up' \in {"off", "connecting", "spinning"}
      /\ \/ UNCHANGED <<life, sent, queue>> /\ (up' = "off" <=> up = "off")
         \/ up = "off" /\ up' # "off" /\ life' = life + 1 /\ UNCHANGED <<sent, queue>>
         \/ up' = "off" /\ life' = life /\ sent' = {} /\ queue' = <<>>
  BY DEF SenderInv, Start, Spin, Stop, vars, toolVars, nodeVars, Shape
<1>2. \/ queue' = queue
      \/ queue' = <<>>
  BY <1>1
<1>3. Shape' /\ EndedStay'
  <2>1. queue' \in Seq(Runs)
    BY <1>1, <1>2, EmptySeq DEF Shape
  <2>2. life' \in Nat /\ sent' \subseteq Runs
    BY <1>1 DEF Shape
  <2>. QED
    BY <1>1, <2>1, <2>2 DEF Shape, EndedStay
<1>4. InOrder' /\ AllHonest'
  <2>1. CASE queue' = queue
    BY <1>1, <2>1 DEF InOrder, RunsHeardInOrder, AllHonest, Honest
  <2>2. CASE queue' = <<>>
    <3>1. InOrder'
      BY <1>1, <2>2 DEF InOrder, RunsHeardInOrder
    <3>2. \A r \in Runs : pc[r] \in {"waiting", "lingering"} => Honest(r)'
      BY <1>1 DEF AllHonest, Honest
    <3>3. \A i \in DOMAIN got : pc[got[i]] # "new" /\ Honest(got[i])
      BY <1>1 DEF AllHonest
    <3>. QED
      BY <1>1, <2>2, <3>1, <3>2, <3>3 DEF AllHonest, Honest
  <2>. QED
    BY <1>2, <2>1, <2>2
<1>. QED
  BY <1>3, <1>4 DEF SenderInv

\* Of what was heard, what waits and what may still be sent, nothing is out of
\* order, and nothing is another number than atoi has made.
THEOREM SenderCorrect == Spec => []SenderInv
<1>1. ASSUME SenderInv, [Next]_vars
      PROVE  SenderInv'
  <2>1. CASE \E r \in Runs : \E a \in Arguments : Begin(r, a)
    BY <1>1, <2>1, BeginKeeps
  <2>2. CASE \E r \in Runs : Publish(r) \/ End(r) \/ Match(r)
    BY <1>1, <2>2, RunKeeps
  <2>3. CASE \E r \in Runs : Deliver(r)
    BY <1>1, <2>3, DeliverKeeps
  <2>4. CASE Callback
    BY <1>1, <2>4, CallbackKeeps
  <2>5. CASE Start \/ Spin \/ Stop \/ UNCHANGED vars
    BY <1>1, <2>5, NodeKeeps
  <2>. QED
    BY <1>1, <2>1, <2>2, <2>3, <2>4, <2>5 DEF Next
<1>. QED
  BY <1>1, InitKeeps, PTL DEF Spec

-----------------------------------------------------------------------------
(* What the user is promised *)

\* The node is never taken back to an earlier command of the user: late discovery,
\* a full queue and restarts may lose a run, but never hear it after a later one.
THEOREM RunsAreHeardInOrder == Spec => []RunsHeardInOrder
<1>1. SenderInv => RunsHeardInOrder
  BY DEF SenderInv, InOrder
<1>. QED
  BY <1>1, SenderCorrect, PTL

\* What is heard of an argument is what atoi has left of it: the number itself if an
\* int has room for it.
THEOREM ArgumentsAreRead == Spec => []HeardAsRead
<1>1. SenderInv => HeardAsRead
  BY DEF SenderInv, AllHonest, Honest, HeardAsRead
<1>. QED
  BY <1>1, SenderCorrect, PTL
=============================================================================
