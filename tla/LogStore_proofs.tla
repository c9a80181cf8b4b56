--------------------------- MODULE LogStore_proofs ---------------------------
(***************************************************************************)
(* Proofs about LogStore for every depth, buffer, length of lines and set  *)
(* of faults: the files keep the order of submission, the buffer is never  *)
(* overrun, and starts are numbered.                                       *)
(***************************************************************************)
EXTENDS LogStore, SequenceTheorems, TLAPS

Below(s, n) == \A i \in DOMAIN s : s[i] < n
Before(s, t) == \A i \in DOMAIN s : \A j \in DOMAIN t : s[i] < t[j]

\* What has left the queue was submitted before message n.
Passed(n) == Below(data, n) /\ Below(buf, n) /\ Below(errors, n)

FilesInOrder == /\ Increasing(data) /\ Increasing(errors)
                /\ Increasing(buf) /\ Before(data, buf)

QueueInOrder ==
    /\ \A i, j \in DOMAIN queue : i < j => queue[i].number < queue[j].number
    /\ \A i \in DOMAIN queue : Passed(queue[i].number) /\ queue[i].number < next

\* The last start in the log has the count on flash, or is before it while
\* the line of the present start is not written.
Counted == "count" \notin Faults =>
    /\ Increasing(starts)
    /\ Below(starts, meta + 1)
    /\ pc = "boot" => count = meta /\ Below(starts, meta)

IInv == TypeOK /\ FilesInOrder /\ QueueInOrder /\ Passed(next) /\ Counted

(***************************************************************************)
(* Sequences of numbers.                                                   *)
(***************************************************************************)
LEMMA AppendOrder ==
    ASSUME NEW s \in Seq(Nat), NEW n \in Nat, Increasing(s), Below(s, n)
    PROVE  /\ Append(s, n) \in Seq(Nat) /\ Increasing(Append(s, n))
           /\ \A m \in Nat : n < m => Below(Append(s, n), m)
<1>1. /\ Append(s, n) \in Seq(Nat) /\ Len(Append(s, n)) = Len(s) + 1
      /\ \A i \in 1..Len(s) : Append(s, n)[i] = s[i]
      /\ Append(s, n)[Len(s) + 1] = n
  OBVIOUS
<1>2. \A i \in 1..Len(s) : s[i] \in Nat /\ s[i] < n
  BY DEF Below
<1>3. Increasing(Append(s, n))
  BY <1>1, <1>2 DEF Increasing
<1>4. \A m \in Nat : n < m => Below(Append(s, n), m)
  BY <1>1, <1>2 DEF Below
<1> QED
  BY <1>1, <1>3, <1>4

LEMMA ConcatOrder ==
    ASSUME NEW s \in Seq(Nat), NEW t \in Seq(Nat),
           Increasing(s), Increasing(t), Before(s, t)
    PROVE  /\ s \o t \in Seq(Nat) /\ Increasing(s \o t)
           /\ \A m \in Nat : Below(s, m) /\ Below(t, m) => Below(s \o t, m)
<1>1. /\ s \o t \in Seq(Nat) /\ Len(s \o t) = Len(s) + Len(t)
      /\ \A i \in 1..Len(s) : (s \o t)[i] = s[i]
      /\ \A i \in 1..(Len(s) + Len(t)) :
            i > Len(s) => (s \o t)[i] = t[i - Len(s)]
  OBVIOUS
<1> DEFINE u == s \o t
<1> HIDE DEF u
<1>2. u \in Seq(Nat) /\ DOMAIN u = 1..(Len(s) + Len(t))
  BY <1>1 DEF u
<1>3. \A i \in DOMAIN u :
        \/ i \in DOMAIN s /\ u[i] = s[i]
        \/ i > Len(s) /\ i - Len(s) \in DOMAIN t /\ u[i] = t[i - Len(s)]
  BY <1>1, <1>2 DEF u
<1>4. Increasing(u)
  <2> SUFFICES ASSUME NEW i \in DOMAIN u, NEW j \in DOMAIN u, i < j
               PROVE  u[i] < u[j]
    BY DEF Increasing
  <2>1. CASE i \in DOMAIN s /\ j \in DOMAIN s
    <3>1. u[i] = s[i] /\ u[j] = s[j]
      BY <1>3, <2>1
    <3> QED
      BY <2>1, <3>1 DEF Increasing
  <2>2. CASE i \in DOMAIN s /\ j > Len(s)
    <3>1. u[i] = s[i] /\ j - Len(s) \in DOMAIN t /\ u[j] = t[j - Len(s)]
      BY <1>3, <2>2
    <3> QED
      BY <2>2, <3>1 DEF Before
  <2>3. CASE i > Len(s) /\ j > Len(s)
    <3>1. /\ i - Len(s) \in DOMAIN t /\ u[i] = t[i - Len(s)]
          /\ j - Len(s) \in DOMAIN t /\ u[j] = t[j - Len(s)]
      BY <1>3, <2>3
    <3>2. i - Len(s) < j - Len(s)
      BY <1>2
    <3> QED
      BY <3>1, <3>2 DEF Increasing
  <2> QED
    BY <1>2, <2>1, <2>2, <2>3
<1>5. \A m \in Nat : Below(s, m) /\ Below(t, m) => Below(u, m)
  BY <1>3 DEF Below
<1> QED
  BY <1>2, <1>4, <1>5 DEF u

LEMMA SingleOrder ==
    ASSUME NEW n \in Nat
    PROVE  /\ <<n>> \in Seq(Nat) /\ Increasing(<<n>>)
           /\ \A m \in Nat : n < m => Below(<<n>>, m)
           /\ \A s \in Seq(Nat) : Below(s, n) => Before(s, <<n>>)
  BY DEF Increasing, Below, Before

LEMMA EmptyOrder ==
    /\ <<>> \in Seq(Nat) /\ Increasing(<<>>)
    /\ \A m \in Nat : Below(<<>>, m)
    /\ \A s \in Seq(Nat) : Before(s, <<>>)
  BY DEF Increasing, Below, Before

\* A number above both sequences can be appended to the later one.
LEMMA AppendBefore ==
    ASSUME NEW s \in Seq(Nat), NEW t \in Seq(Nat), NEW n \in Nat,
           Before(s, t), Below(s, n)
    PROVE  Before(s, Append(t, n))
<1>1. /\ Len(Append(t, n)) = Len(t) + 1
      /\ \A i \in 1..Len(t) : Append(t, n)[i] = t[i]
      /\ Append(t, n)[Len(t) + 1] = n
  OBVIOUS
<1> QED
  BY <1>1 DEF Before, Below

LEMMA BelowMore ==
    ASSUME NEW s \in Seq(Nat), NEW m \in Nat, NEW n \in Nat, m <= n, Below(s, m)
    PROVE  Below(s, n)
<1>1. \A i \in DOMAIN s : s[i] \in Nat
  OBVIOUS
<1> QED
  BY <1>1 DEF Below

(***************************************************************************)
(* The queue.                                                              *)
(***************************************************************************)
LEMMA NumbersTyped ==
    ASSUME NEW s \in Seq(Messages), NEW i \in 1..Len(s)
    PROVE  s[i].number \in Nat
<1>1. s[i] \in Messages
  OBVIOUS
<1> QED
  BY <1>1 DEF Messages

LEMMA SubmitKeeps ==
    ASSUME IInv, NEW kind \in Kinds, Submit(kind), leaving' \in BOOLEAN
    PROVE  IInv'
<1> DEFINE m == [kind |-> kind, number |-> next]
<1>1. m \in Messages /\ m.number = next
  BY DEF IInv, TypeOK, Messages
<1>2. /\ next' = next + 1 /\ next \in Nat
      /\ UNCHANGED <<pc, ready, due, errors, buffer, boot>>
      /\ data \in Seq(Nat) /\ buf \in Seq(Nat) /\ errors \in Seq(Nat)
  BY DEF IInv, TypeOK, Submit
<1>3. Passed(next)' /\ FilesInOrder' /\ Counted'
  <2>1. Below(data, next + 1) /\ Below(buf, next + 1) /\ Below(errors, next + 1)
    BY <1>2, BelowMore DEF IInv, Passed
  <2> QED
    BY <1>2, <2>1 DEF IInv, Passed, FilesInOrder, Counted, buffer, boot
<1>4. \A n : Passed(n) <=> Passed(n)'
  BY <1>2 DEF Passed, buffer
<1>5. /\ queue' \in Seq(Messages) /\ Len(queue') <= Depth
      /\ QueueInOrder'
  <2>1. CASE queue' = queue
    <3>1. \A i \in DOMAIN queue : queue[i].number \in Nat
      BY NumbersTyped DEF IInv, TypeOK
    <3> QED
      BY <2>1, <3>1, <1>2, <1>4 DEF IInv, TypeOK, QueueInOrder
  <2>2. CASE Len(queue) < Depth /\ queue' = Append(queue, m)
    <3>1. /\ queue' \in Seq(Messages) /\ Len(queue') = Len(queue) + 1
          /\ \A i \in 1..Len(queue) : queue'[i] = queue[i]
          /\ queue'[Len(queue) + 1] = m
      BY <1>1, <2>2 DEF IInv, TypeOK
    <3>2. \A i \in 1..Len(queue) :
            queue[i].number \in Nat /\ queue[i].number < next
            /\ Passed(queue[i].number)
      BY NumbersTyped DEF IInv, TypeOK, QueueInOrder
    <3> HIDE DEF m
    <3>6. \A i \in DOMAIN queue' : i \in DOMAIN queue \/ i = Len(queue) + 1
      BY <3>1 DEF IInv, TypeOK
    <3>3. \A i \in DOMAIN queue' :
            queue'[i].number < next' /\ Passed(queue'[i].number)
      BY <1>1, <1>2, <3>1, <3>2, <3>6 DEF IInv
    <3>4. \A i, j \in DOMAIN queue' :
            i < j => queue'[i].number < queue'[j].number
      <4> SUFFICES ASSUME NEW i \in DOMAIN queue', NEW j \in DOMAIN queue', i < j
                   PROVE  queue'[i].number < queue'[j].number
        OBVIOUS
      <4>1. i \in 1..Len(queue) /\ queue'[i] = queue[i]
        BY <3>1, <3>6 DEF IInv, TypeOK
      <4>2. CASE j \in 1..Len(queue)
        <5>1. queue'[j] = queue[j] /\ i \in DOMAIN queue /\ j \in DOMAIN queue
          BY <3>1, <4>1, <4>2
        <5> QED
          BY <4>1, <5>1 DEF IInv, QueueInOrder
      <4>3. CASE j = Len(queue) + 1
        BY <1>1, <3>1, <3>2, <4>1, <4>3
      <4> QED
        BY <3>6, <4>2, <4>3 DEF IInv, TypeOK
    <3>5. Len(queue') <= Depth
      BY <3>1, <2>2, SizesAssumption DEF IInv, TypeOK
    <3> QED
      BY <3>1, <3>3, <3>4, <3>5, <1>4 DEF QueueInOrder
  <2> QED
    BY <2>1, <2>2 DEF Submit
<1>6. TypeOK'
  BY <1>2, <1>5 DEF IInv, TypeOK, buffer, boot
<1> QED
  BY <1>3, <1>5, <1>6 DEF IInv

\* What remains in the queue comes after the message that is taken.
LEMMA TakenOrder ==
    ASSUME TypeOK, QueueInOrder, queue # <<>>, queue' = Tail(queue)
    PROVE  /\ Head(queue).number \in Nat /\ Head(queue).number < next
           /\ Passed(Head(queue).number)
           /\ queue' \in Seq(Messages) /\ Len(queue') <= Depth
           /\ \A i, j \in DOMAIN queue' :
                i < j => queue'[i].number < queue'[j].number
           /\ \A i \in DOMAIN queue' :
                /\ queue'[i].number \in Nat /\ queue'[i].number < next
                /\ Head(queue).number < queue'[i].number
                /\ Passed(queue'[i].number)
<1>1. queue \in Seq(Messages) /\ Len(queue) <= Depth /\ Len(queue) \in Nat
  BY DEF TypeOK
<1>2. /\ queue' \in Seq(Messages) /\ Len(queue') = Len(queue) - 1
      /\ \A i \in 1..Len(queue') : queue'[i] = queue[i + 1]
  BY <1>1, HeadTailProperties
<1>3. Len(queue) > 0 /\ Head(queue) = queue[1]
  BY <1>1
<1>4. \A i \in 1..Len(queue) : queue[i].number \in Nat
  BY <1>1, NumbersTyped
<1>5. \A i \in DOMAIN queue' :
        /\ i + 1 \in DOMAIN queue /\ 1 \in DOMAIN queue /\ 1 < i + 1
        /\ queue'[i] = queue[i + 1]
  BY <1>1, <1>2, <1>3
<1>6. \A i \in DOMAIN queue' :
        /\ queue'[i].number \in Nat /\ queue'[i].number < next
        /\ Head(queue).number < queue'[i].number
        /\ Passed(queue'[i].number)
  BY <1>3, <1>4, <1>5 DEF QueueInOrder
<1>7. \A i, j \in DOMAIN queue' :
        i < j => queue'[i].number < queue'[j].number
  BY <1>1, <1>2, <1>5 DEF QueueInOrder
<1>8. Len(queue') <= Depth
  BY <1>1, <1>2, SizesAssumption
<1> QED
  BY <1>1, <1>2, <1>3, <1>4, <1>6, <1>7, <1>8 DEF QueueInOrder

(***************************************************************************)
(* Writing the buffer.                                                     *)
(***************************************************************************)
LEMMA WrittenOrder ==
    ASSUME TypeOK, FilesInOrder,
           NEW d, d \in Written(data \o buf, data, "files")
    PROVE  /\ d \in Seq(Nat) /\ Increasing(d)
           /\ \A n \in Nat : Below(data, n) /\ Below(buf, n) => Below(d, n)
<1>1. d = data \o buf \/ d = data
  BY DEF Written
<1> QED
  BY <1>1, ConcatOrder DEF TypeOK, FilesInOrder

LEMMA FlushOrder ==
    ASSUME TypeOK, FilesInOrder, Flush
    PROVE  /\ data' \in Seq(Nat) /\ Increasing(data')
           /\ buf' \in Seq(Nat) /\ len' \in 0..(BufSize - 1)
           /\ Increasing(buf') /\ Before(data', buf') /\ failed' \in BOOLEAN
           /\ \A n \in Nat : Below(data, n) /\ Below(buf, n)
                => Below(data', n) /\ Below(buf', n)
<1>1. /\ data' \in Seq(Nat) /\ Increasing(data')
      /\ \A n \in Nat : Below(data, n) /\ Below(buf, n) => Below(data', n)
  BY WrittenOrder DEF Flush
<1>2. buf' = <<>> /\ len' \in 0..(BufSize - 1) /\ failed' \in BOOLEAN
  BY SizesAssumption DEF Flush, TypeOK
<1> QED
  BY <1>1, <1>2, EmptyOrder

(***************************************************************************)
(* The steps.                                                              *)
(***************************************************************************)
LEMMA NothingTyped ==
    /\ <<>> \in Seq(Messages) /\ <<>> \in Seq(Nat) /\ Len(<<>>) <= Depth
    /\ 0 \in 0..(BufSize - 1)
<1>1. Len(<<>>) = 0
  OBVIOUS
<1> QED
  BY <1>1, SizesAssumption

LEMMA InitInv == Init => IInv
<1> SUFFICES ASSUME Init PROVE IInv
  OBVIOUS
<1>1. TypeOK
  <2>1. 0 \in Nat /\ 1 \in Nat \ {0}
    OBVIOUS
  <2> QED
    BY NothingTyped, <2>1, Zenon DEF Init, TypeOK
<1>2. FilesInOrder /\ QueueInOrder /\ Passed(next) /\ Counted
  BY DEF Init, FilesInOrder, QueueInOrder, Passed, Counted, Increasing, Before,
         Below
<1> QED
  BY <1>1, <1>2 DEF IInv

LEMMA OffKeeps == ASSUME IInv, Off PROVE IInv'
<1>1. TypeOK'
  BY NothingTyped DEF IInv, TypeOK, Off
<1>2. FilesInOrder' /\ QueueInOrder' /\ Passed(next)' /\ Counted'
  BY DEF IInv, Off, FilesInOrder, QueueInOrder, Passed, Counted, Increasing,
         Before, Below
<1> QED
  BY <1>1, <1>2 DEF IInv

\* A step that leaves the queue, the buffer and the files alone.
LEMMA IdleKeeps ==
    ASSUME IInv, UNCHANGED <<queue, errors, next, buffer, boot>>,
           pc' \in {"off", "init", "boot", "recv", "check"}, pc' = "boot" => pc = "boot",
           ready' \in BOOLEAN, due' \in BOOLEAN, leaving' \in BOOLEAN
    PROVE  IInv'
  BY DEF IInv, TypeOK, FilesInOrder, QueueInOrder, Passed, Counted, buffer, boot

LEMMA CountStartKeeps == ASSUME IInv, CountStart PROVE IInv'
<1>1. /\ meta \in Nat /\ starts \in Seq(Nat)
      /\ count' = meta + 1 /\ meta' \in {meta, meta + 1}
      /\ "count" \notin Faults => meta' = meta + 1
  BY DEF IInv, TypeOK, CountStart, Written
<1>2. TypeOK'
  BY <1>1 DEF IInv, TypeOK, CountStart, buffer
<1>3. FilesInOrder' /\ QueueInOrder' /\ Passed(next)'
  BY DEF IInv, CountStart, FilesInOrder, QueueInOrder, Passed, buffer
<1>4. Counted'
  <2>1. Below(starts, meta + 1) => Below(starts, meta + 2)
    BY <1>1, BelowMore
  <2> QED
    BY <1>1, <2>1 DEF IInv, Counted, CountStart
<1> QED
  BY <1>2, <1>3, <1>4 DEF IInv

LEMMA LogBootKeeps == ASSUME IInv, LogBoot PROVE IInv'
<1>1. /\ meta \in Nat /\ count \in Nat /\ starts \in Seq(Nat)
      /\ starts' = Append(starts, count) \/ starts' = starts
      /\ pc = "boot" /\ meta' = meta /\ count' = count
  BY DEF IInv, TypeOK, LogBoot, Written
<1>2. TypeOK'
  <2>1. Append(starts, count) \in Seq(Nat)
    BY <1>1
  <2> QED
    BY <1>1, <2>1 DEF IInv, TypeOK, LogBoot, buffer
<1>3. FilesInOrder' /\ QueueInOrder' /\ Passed(next)'
  BY DEF IInv, LogBoot, FilesInOrder, QueueInOrder, Passed, buffer
<1>4. Counted'
  <2> SUFFICES ASSUME "count" \notin Faults
               PROVE  Increasing(starts') /\ Below(starts', meta + 1)
    BY <1>1 DEF Counted, LogBoot
  <2>1. Increasing(starts) /\ Below(starts, meta) /\ Below(starts, meta + 1)
        /\ count = meta
    BY <1>1 DEF IInv, Counted
  <2> QED
    <3>1. CASE starts' = starts
      BY <2>1, <3>1
    <3>2. CASE starts' = Append(starts, count)
      <4>1. Increasing(starts') /\ \A m \in Nat : count < m => Below(starts', m)
        BY <1>1, <2>1, <3>2, AppendOrder
      <4> QED
        BY <1>1, <2>1, <4>1
    <3> QED
      BY <1>1, <3>1, <3>2
<1> QED
  BY <1>2, <1>3, <1>4 DEF IInv

\* A step that takes the first message keeps the order, if what it writes
\* comes before the messages that remain.
LEMMA TakeKeeps ==
    ASSUME IInv, queue # <<>>, queue' = Tail(queue), next' = next,
           UNCHANGED boot, pc' = "check", ready' \in BOOLEAN, due' \in BOOLEAN,
           leaving' = leaving, failed' \in BOOLEAN,
           data' \in Seq(Nat), buf' \in Seq(Nat), errors' \in Seq(Nat),
           len' \in 0..(BufSize - 1), FilesInOrder',
           \A n \in Nat : Passed(n) /\ Head(queue).number < n => Passed(n)'
    PROVE  IInv'
<1>1. /\ Head(queue).number \in Nat /\ Head(queue).number < next
      /\ queue' \in Seq(Messages) /\ Len(queue') <= Depth
      /\ \A i, j \in DOMAIN queue' :
           i < j => queue'[i].number < queue'[j].number
      /\ \A i \in DOMAIN queue' :
           /\ queue'[i].number \in Nat /\ queue'[i].number < next
           /\ Head(queue).number < queue'[i].number
           /\ Passed(queue'[i].number)
  BY TakenOrder DEF IInv
<1>2. TypeOK'
  BY <1>1 DEF IInv, TypeOK, boot
<1>3. Passed(next)'
  <2>1. next \in Nat /\ next' \in Nat
    BY <1>2 DEF IInv, TypeOK
  <2>2. \A n \in Nat : n = next /\ Passed(n)' => Passed(next)'
    BY DEF Passed
  <2> QED
    BY <1>1, <2>1, <2>2 DEF IInv
<1>4. QueueInOrder'
  <2>1. \A i \in DOMAIN queue' : \A n \in Nat :
          n = queue'[i].number /\ Passed(n)' => (Passed(queue[i].number))'
    BY DEF Passed
  <2>2. \A i \in DOMAIN queue' : (Passed(queue[i].number))'
    BY <1>1, <2>1
  <2> QED
    BY <1>1, <2>2 DEF QueueInOrder
<1>5. Counted'
  BY DEF IInv, Counted, boot
<1> QED
  BY <1>2, <1>3, <1>4, <1>5 DEF IInv

LEMMA LogSensorKeeps == ASSUME IInv, LogSensor PROVE IInv'
<1> DEFINE h == Head(queue).number
<1>1. /\ queue # <<>> /\ queue' = Tail(queue) /\ next' = next /\ UNCHANGED boot
      /\ pc' = "check" /\ ready' \in BOOLEAN /\ due' \in BOOLEAN
      /\ leaving' = leaving /\ errors' = errors
  BY DEF IInv, TypeOK, LogSensor, Take
<1>2. h \in Nat /\ Passed(h)
  BY <1>1, TakenOrder DEF IInv
<1>3. PICK n \in LineSizes :
        \/ /\ len + n < BufSize
           /\ buf' = Append(buf, h) /\ len' = len + n
           /\ UNCHANGED <<data, failed>>
        \/ /\ len + n >= BufSize
           /\ data' \in Written(data \o buf, data, "files")
           /\ failed' = (failed \/ data' = data)
           /\ buf' = <<h>> /\ len' = n
  BY DEF LogSensor
<1>4. n \in 1..(BufSize - 1) /\ BufSize \in Nat /\ len \in Nat
      /\ data \in Seq(Nat) /\ buf \in Seq(Nat) /\ errors \in Seq(Nat)
      /\ failed \in BOOLEAN
  BY SizesAssumption DEF IInv, TypeOK
<1>5. /\ data' \in Seq(Nat) /\ buf' \in Seq(Nat) /\ len' \in 0..(BufSize - 1)
      /\ failed' \in BOOLEAN
      /\ Increasing(data') /\ Increasing(buf') /\ Before(data', buf')
      /\ \A m \in Nat : Below(data, m) /\ Below(buf, m) /\ h < m
            => Below(data', m) /\ Below(buf', m)
  <2>1. CASE /\ len + n < BufSize
             /\ buf' = Append(buf, h) /\ len' = len + n
             /\ UNCHANGED <<data, failed>>
    <3>1. /\ buf' \in Seq(Nat) /\ Increasing(buf') /\ Before(data', buf')
          /\ \A m \in Nat : Below(buf, m) /\ h < m => Below(buf', m)
      BY <1>2, <1>4, <2>1, AppendOrder, AppendBefore DEF IInv, FilesInOrder, Passed
    <3>2. len' \in 0..(BufSize - 1)
      BY <1>4, <2>1
    <3> QED
      BY <1>4, <2>1, <3>1, <3>2 DEF IInv, FilesInOrder
  <2>2. CASE /\ len + n >= BufSize
             /\ data' \in Written(data \o buf, data, "files")
             /\ failed' = (failed \/ data' = data)
             /\ buf' = <<h>> /\ len' = n
    <3>1. /\ data' \in Seq(Nat) /\ Increasing(data')
          /\ \A m \in Nat : Below(data, m) /\ Below(buf, m) => Below(data', m)
      BY <2>2, WrittenOrder DEF IInv
    <3>2. Below(data', h)
      BY <1>2, <3>1 DEF Passed
    <3>3. /\ buf' \in Seq(Nat) /\ Increasing(buf') /\ Before(data', buf')
          /\ \A m \in Nat : h < m => Below(buf', m)
      BY <1>2, <2>2, <3>1, <3>2, SingleOrder
    <3>4. len' \in 0..(BufSize - 1) /\ failed' \in BOOLEAN
      BY <1>4, <2>2
    <3> QED
      BY <3>1, <3>3, <3>4
  <2> QED
    BY <1>3, <2>1, <2>2
<1>6. FilesInOrder'
  BY <1>1, <1>5 DEF IInv, FilesInOrder
<1>7. \A m \in Nat : Passed(m) /\ h < m => Passed(m)'
  BY <1>1, <1>5 DEF Passed
<1> QED
  BY <1>1, <1>4, <1>5, <1>6, <1>7, TakeKeeps

LEMMA LogErrorKeeps == ASSUME IInv, LogError PROVE IInv'
<1> DEFINE h == Head(queue).number
<1>1. /\ queue # <<>> /\ queue' = Tail(queue) /\ next' = next /\ UNCHANGED boot
      /\ pc' = "check" /\ ready' \in BOOLEAN /\ due' \in BOOLEAN
      /\ leaving' = leaving /\ UNCHANGED buffer
      /\ errors' = Append(errors, h) \/ errors' = errors
      /\ errors \in Seq(Nat)
  BY DEF IInv, TypeOK, LogError, Take, Written
<1>2. h \in Nat /\ Below(errors, h)
  BY <1>1, TakenOrder DEF IInv, Passed
<1>3. /\ errors' \in Seq(Nat) /\ Increasing(errors')
      /\ \A m \in Nat : Below(errors, m) /\ h < m => Below(errors', m)
  BY <1>1, <1>2, AppendOrder DEF IInv, FilesInOrder
<1>4. FilesInOrder' /\ \A m \in Nat : Passed(m) /\ h < m => Passed(m)'
  BY <1>1, <1>3 DEF IInv, FilesInOrder, Passed, buffer
<1>5. /\ data' \in Seq(Nat) /\ buf' \in Seq(Nat) /\ failed' \in BOOLEAN
      /\ len' \in 0..(BufSize - 1)
  BY <1>1 DEF IInv, TypeOK, buffer
<1> QED
  BY <1>1, <1>3, <1>4, <1>5, TakeKeeps

LEMMA FlushAskedKeeps == ASSUME IInv, FlushAsked PROVE IInv'
<1>1. /\ queue # <<>> /\ queue' = Tail(queue) /\ next' = next /\ UNCHANGED boot
      /\ pc' = "check" /\ ready' \in BOOLEAN /\ due' \in BOOLEAN
      /\ leaving' = leaving /\ errors' = errors /\ errors' \in Seq(Nat)
  BY DEF IInv, TypeOK, FlushAsked, Take
<1>2. /\ data' \in Seq(Nat) /\ Increasing(data')
      /\ buf' \in Seq(Nat) /\ len' \in 0..(BufSize - 1)
      /\ Increasing(buf') /\ Before(data', buf') /\ failed' \in BOOLEAN
      /\ \A n \in Nat : Below(data, n) /\ Below(buf, n)
            => Below(data', n) /\ Below(buf', n)
  BY FlushOrder DEF IInv, FlushAsked
<1>3. FilesInOrder' /\ \A n \in Nat : Passed(n) => Passed(n)'
  BY <1>1, <1>2 DEF IInv, FilesInOrder, Passed
<1> QED
  BY <1>1, <1>2, <1>3, TakeKeeps

LEMMA DiscardKeeps == ASSUME IInv, Discard PROVE IInv'
<1>1. /\ queue # <<>> /\ queue' = Tail(queue) /\ next' = next /\ UNCHANGED boot
      /\ pc' = "check" /\ UNCHANGED <<ready, due, leaving, errors, buffer>>
  BY DEF Discard
<1>2. FilesInOrder' /\ \A n \in Nat : Passed(n) => Passed(n)'
  BY <1>1 DEF IInv, FilesInOrder, Passed, buffer
<1>3. /\ data' \in Seq(Nat) /\ buf' \in Seq(Nat) /\ errors' \in Seq(Nat)
      /\ len' \in 0..(BufSize - 1) /\ failed' \in BOOLEAN
      /\ ready' \in BOOLEAN /\ due' \in BOOLEAN
  BY <1>1 DEF IInv, TypeOK, buffer
<1> QED
  BY <1>1, <1>2, <1>3, TakeKeeps

LEMMA FlushInTimeKeeps == ASSUME IInv, FlushInTime PROVE IInv'
<1>1. CASE ready /\ due /\ Flush /\ due' = FALSE
  <2>1. /\ data' \in Seq(Nat) /\ Increasing(data')
        /\ buf' \in Seq(Nat) /\ len' \in 0..(BufSize - 1)
        /\ Increasing(buf') /\ Before(data', buf') /\ failed' \in BOOLEAN
        /\ \A n \in Nat : Below(data, n) /\ Below(buf, n)
              => Below(data', n) /\ Below(buf', n)
    BY <1>1, FlushOrder DEF IInv
  <2>2. TypeOK'
    BY <1>1, <2>1 DEF IInv, TypeOK, FlushInTime, boot
  <2>3. \A n \in Nat : Passed(n) => Passed(n)'
    BY <2>1 DEF FlushInTime, Passed
  <2>4. QueueInOrder' /\ Passed(next)'
    <3>1. \A i \in DOMAIN queue : queue[i].number \in Nat
      BY NumbersTyped DEF IInv, TypeOK
    <3> QED
      BY <2>3, <3>1 DEF IInv, TypeOK, FlushInTime, QueueInOrder, Passed
  <2>5. FilesInOrder' /\ Counted'
    BY <2>1 DEF IInv, FlushInTime, FilesInOrder, Counted, boot
  <2> QED
    BY <2>2, <2>4, <2>5 DEF IInv
<1>2. CASE UNCHANGED <<due, buffer>>
  BY <1>2, IdleKeeps DEF IInv, TypeOK, FlushInTime
<1> QED
  BY <1>1, <1>2 DEF FlushInTime

LEMMA NextKeeps == ASSUME IInv, [Next]_vars PROVE IInv'
<1>1. CASE PowerLoss \/ UpgradeReset
  BY <1>1, OffKeeps DEF PowerLoss, UpgradeReset
<1>2. CASE SubmitSensor \/ SubmitErrorf \/ HandlePendingUpgrade
  <2>1. leaving' \in BOOLEAN
    BY <1>2 DEF IInv, TypeOK, SubmitSensor, SubmitErrorf, HandlePendingUpgrade
  <2> QED
    BY <1>2, <2>1, SubmitKeeps
    DEF SubmitSensor, SubmitErrorf, HandlePendingUpgrade, Kinds
<1>3. CASE PowerOn \/ MountFails \/ RecvTimeout \/ FlushDue
  BY <1>3, IdleKeeps
  DEF IInv, TypeOK, PowerOn, MountFails, RecvTimeout, FlushDue
<1>4. CASE UNCHANGED vars
  BY <1>4, IdleKeeps DEF IInv, TypeOK, vars
<1>5. CASE CountStart
  BY <1>5, CountStartKeeps
<1>6. CASE LogBoot
  BY <1>6, LogBootKeeps
<1>7. CASE LogSensor
  BY <1>7, LogSensorKeeps
<1>8. CASE LogError
  BY <1>8, LogErrorKeeps
<1>9. CASE FlushAsked
  BY <1>9, FlushAskedKeeps
<1>10. CASE Discard
  BY <1>10, DiscardKeeps
<1>11. CASE FlushInTime
  BY <1>11, FlushInTimeKeeps
<1> QED
  BY <1>1, <1>2, <1>3, <1>4, <1>5, <1>6, <1>7, <1>8, <1>9, <1>10, <1>11
  DEF Next, Logger

(***************************************************************************)
(* The theorems.                                                           *)
(***************************************************************************)
LEMMA Invariance == Spec => []IInv
<1>1. Init => IInv
  BY InitInv
<1>2. IInv /\ [Next]_vars => IInv'
  BY NextKeeps
<1> QED
  BY <1>1, <1>2, PTL DEF Spec

\* The queue keeps its depth and no line is copied past the end of s_csv_buf
\* (DataLogger_LogSensor), for every buffer and any lengths of lines below it.
THEOREM LogTyped == Spec => []TypeOK
<1>1. IInv => TypeOK
  BY DEF IInv
<1> QED
  BY <1>1, Invariance, PTL

\* Whatever is dropped, lost or fails to be written, the files hold each
\* message at most once and in the order of submission.
THEOREM FilesKeepOrder == Spec => []InOrder
<1>1. IInv => InOrder
  BY DEF IInv, FilesInOrder, InOrder
<1> QED
  BY <1>1, Invariance, PTL

\* As long as /meta.dat can be saved, no two BOOT lines have the same count.
THEOREM StartsAreNumbered == Spec => []StartsNumbered
<1>1. IInv => StartsNumbered
  BY DEF IInv, Counted, StartsNumbered
<1> QED
  BY <1>1, Invariance, PTL
=============================================================================
