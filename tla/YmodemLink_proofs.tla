-------------------------- MODULE YmodemLink_proofs --------------------------
(***************************************************************************)
(* Proofs about YmodemLink for every number of packets and every bound:    *)
(* the packets reach the slot in order, the device resets only with a      *)
(* whole image, and the sender is not ahead of the receiver.               *)
(***************************************************************************)
EXTENDS YmodemLink, SequenceTheorems, TLAPS

\* The bytes counted are those in the slot, once a header was accepted.
Counted == file => bytes = Len(slot)

\* The number expected is that of the first packet that is not in the slot.
Numbered == expected # 0 => file /\ expected = Len(slot) + 1

Erasing == mode = "erase" => file /\ slot = <<>> /\ expected = 0

IInv == TypeOK /\ InOrder /\ WholeWhenGone /\ Counted /\ Numbered /\ Erasing

LEMMA AppendInSeq ==
    ASSUME NEW S, NEW s \in Seq(S), NEW e \in S
    PROVE  Append(s, e) \in Seq(S)
  OBVIOUS

LEMMA TailInSeq ==
    ASSUME NEW S, NEW s \in Seq(S), s # <<>>
    PROVE  Tail(s) \in Seq(S) /\ Head(s) \in S
  OBVIOUS

LEMMA TailNotEmpty ==
    ASSUME NEW S, NEW s \in Seq(S), Len(s) > 1
    PROVE  Tail(s) # <<>>
<1> DEFINE t == Tail(s)
<1>1. s # <<>>
  OBVIOUS
<1>2. Len(t) = Len(s) - 1
  BY <1>1, HeadTailProperties
<1>3. Len(s) \in Nat
  OBVIOUS
<1> HIDE DEF t
<1>4. Len(t) # 0
  BY <1>2, <1>3
<1>5. Len(<<>>) = 0
  OBVIOUS
<1>6. t # <<>>
  BY <1>4, <1>5
<1> QED
  BY <1>6 DEF t

LEMMA ConcatInSeq ==
    ASSUME NEW S, NEW s \in Seq(S), NEW t \in Seq(S)
    PROVE  s \o t \in Seq(S)
  OBVIOUS

LEMMA SingletonInSeq ==
    ASSUME NEW S, NEW e \in S
    PROVE  <<e>> \in Seq(S)
  OBVIOUS

LEMMA PairInSeq ==
    ASSUME NEW S, NEW d \in S, NEW e \in S
    PROVE  <<d, e>> \in Seq(S)
  OBVIOUS

\* A sequence in order stays in order when the next number is appended.
LEMMA AppendInOrder ==
    ASSUME NEW s \in Seq(Nat), s = [i \in 1..Len(s) |-> i],
           NEW k \in Nat, k = Len(s) + 1
    PROVE  /\ Append(s, k) = [i \in 1..Len(Append(s, k)) |-> i]
           /\ Len(Append(s, k)) = k
<1>1. /\ Append(s, k) \in Seq(Nat)
      /\ Len(Append(s, k)) = k
  OBVIOUS
<1>2. ASSUME NEW i \in 1..k
      PROVE  Append(s, k)[i] = i
  OBVIOUS
<1>3. Append(s, k) = [i \in 1..k |-> Append(s, k)[i]]
  BY <1>1
<1> QED
  BY <1>1, <1>2, <1>3

(***************************************************************************)
(* Messages and replies.                                                   *)
(***************************************************************************)
LEMMA MessagesTyped ==
    /\ {Header, Final, EOT, Bad, Abort, Stale} \subseteq Messages
    /\ \A k \in 1..N : Data(k) \in Messages
    /\ \A m \in Messages : m.no \in 0..N
    /\ \A m \in Messages : m.kind = "data" => m.no \in 1..N
<1>1. {Header, Final, EOT, Bad, Abort, Stale} \subseteq Messages
  BY DEF Messages
<1>2. \A k \in 1..N : Data(k) \in Messages
  BY DEF Messages
<1>3. ASSUME NEW m \in Messages
      PROVE  m.no \in 0..N /\ (m.kind = "data" => m.no \in 1..N)
  <2>1. CASE m \in {Header, Final, EOT, Bad, Abort, Stale}
    BY <2>1, NAssumption DEF Header, Final, EOT, Bad, Abort, Stale
  <2>2. CASE \E k \in 1..N : m = Data(k)
    BY <2>2, NAssumption DEF Data
  <2> QED
    BY <2>1, <2>2 DEF Messages
<1> QED
  BY <1>1, <1>2, <1>3

LEMMA CurrentTyped == TypeOK /\ Sending => Current \in Messages
  BY MessagesTyped DEF TypeOK, Sending, Current

LEMMA RepliesTyped ==
    /\ <<"ACK">> \in Seq(Replies) /\ <<"NAK">> \in Seq(Replies)
    /\ <<"C">> \in Seq(Replies) /\ <<"CAN">> \in Seq(Replies)
    /\ <<"ACK", "C">> \in Seq(Replies)
<1>1. {"ACK", "NAK", "C", "CAN"} = Replies
  BY DEF Replies
<1> QED
  BY <1>1, SingletonInSeq, PairInSeq

(***************************************************************************)
(* The sender changes nothing of the receiver and leaves it typed messages *)
(* only.                                                                   *)
(***************************************************************************)
SenderTyped ==
    /\ phase \in {"ready", "header", "follow", "data", "eot", "final",
                  "done", "failed"}
    /\ next \in 1..N
    /\ tries \in 0..(MaxRetries - 1)
    /\ toDevice \in Seq(Messages)

LEMMA StartTyped ==
    ASSUME TypeOK,
           NEW p \in {"ready", "header", "follow", "data", "eot", "final"},
           NEW k \in 1..N, NEW message \in Messages, Start(p, k, message)
    PROVE  SenderTyped'
  BY AppendInSeq, BoundsAssumption DEF TypeOK, Start, SenderTyped

LEMMA StopTyped ==
    ASSUME TypeOK,
           NEW p \in {"ready", "header", "follow", "data", "eot", "final",
                      "done", "failed"},
           Stop(p)
    PROVE  SenderTyped'
  BY DEF TypeOK, Stop, SenderTyped

LEMMA RetryTyped ==
    ASSUME TypeOK, Sending, Retry
    PROVE  SenderTyped'
<1>1. CASE tries + 1 = MaxRetries /\ Stop("failed")
  BY <1>1, StopTyped
<1>2. CASE /\ tries + 1 < MaxRetries
           /\ tries' = tries + 1
           /\ toDevice' = Append(toDevice, Current)
           /\ UNCHANGED <<phase, next>>
  BY <1>2, CurrentTyped, AppendInSeq, BoundsAssumption
     DEF TypeOK, SenderTyped
<1> QED
  BY <1>1, <1>2 DEF Retry

LineTyped == faults \in 0..MaxFaults /\ astray \in BOOLEAN

LEMMA LineKept ==
    ASSUME TypeOK, UNCHANGED line
    PROVE  LineTyped'
  BY DEF TypeOK, LineTyped, line

\* What every step of the sender and of the line keeps.
LEMMA HearsTyped ==
    ASSUME TypeOK, NEW reply, Hears(reply)
    PROVE  toTool' \in Seq(Replies) /\ LineTyped' /\ UNCHANGED receiver
  BY TailInSeq, LineKept DEF TypeOK, Hears

LEMMA SenderKeeps ==
    ASSUME IInv, SenderTyped', toTool' \in Seq(Replies), LineTyped',
           UNCHANGED receiver
    PROVE  IInv'
  BY DEF IInv, TypeOK, SenderTyped, LineTyped, InOrder, WholeWhenGone,
         Counted, Numbered, Erasing, receiver

LEMMA SenderStepKeeps ==
    ASSUME IInv, SenderStep \/ SenderTimeout
    PROVE  IInv'
<1> USE DEF IInv
<1>1. CASE HearReady
  <2>1. Hears("C") /\ Start("header", 1, Header)
    BY <1>1 DEF HearReady
  <2> QED
    BY <2>1, StartTyped, HearsTyped, SenderKeeps, MessagesTyped, NAssumption
       DEF TypeOK
<1>2. CASE HearAck
  <2>1. Stop("follow") \/ Stop("done") => SenderTyped'
    BY StopTyped
  <2>2. next < N /\ Start("data", next + 1, Data(next + 1)) => SenderTyped'
    <3>1. next < N => next + 1 \in 1..N
      BY NAssumption DEF TypeOK
    <3> QED
      BY <3>1, StartTyped, MessagesTyped
  <2>3. Start("eot", next, EOT) \/ Start("final", next, Final) => SenderTyped'
    BY StartTyped, MessagesTyped DEF TypeOK
  <2> QED
    BY <1>2, <2>1, <2>2, <2>3, HearsTyped, SenderKeeps DEF HearAck, TypeOK
<1>3. CASE HearNak
  BY <1>3, RetryTyped, HearsTyped, SenderKeeps DEF HearNak, TypeOK
<1>4. CASE HearAbort
  BY <1>4, StopTyped, HearsTyped, SenderKeeps DEF HearAbort, TypeOK
<1>5. CASE HearPoll
  <2>1. phase \in {"ready", "header", "follow", "data", "eot", "final",
                   "done", "failed"}
    BY DEF TypeOK
  <2> QED
    BY <1>5, <2>1, StopTyped, HearsTyped, SenderKeeps DEF HearPoll, TypeOK
<1>6. CASE HearFollow
  <2>1. StartData => SenderTyped'
    BY StartTyped, MessagesTyped, NAssumption DEF StartData
  <2>2. Stop("header") => SenderTyped'
    BY StopTyped
  <2> QED
    BY <1>6, <2>1, <2>2, HearsTyped, SenderKeeps DEF HearFollow, TypeOK
<1>7. CASE FollowTimeout
  <2>1. SenderTyped'
    BY <1>7, StartTyped, MessagesTyped, NAssumption
       DEF FollowTimeout, StartData
  <2> QED
    BY <1>7, <2>1, LineKept, SenderKeeps DEF FollowTimeout, TypeOK
<1>8. CASE SenderTimeout
  <2>1. SenderTyped'
    BY <1>8, RetryTyped DEF SenderTimeout
  <2> QED
    BY <1>8, <2>1, LineKept, SenderKeeps DEF SenderTimeout, TypeOK
<1> QED
  BY <1>1, <1>2, <1>3, <1>4, <1>5, <1>6, <1>7, <1>8 DEF SenderStep

(***************************************************************************)
(* The line.                                                               *)
(***************************************************************************)
LEMMA LineKeeps ==
    ASSUME IInv, Line
    PROVE  IInv'
<1> USE DEF IInv
<1>1. ASSUME NEW kind, Damage(kind)
      PROVE  /\ faults' \in 0..MaxFaults /\ UNCHANGED receiver
             /\ UNCHANGED astray \/ astray' = TRUE => LineTyped'
             /\ toDevice' \in Seq(Messages) => SenderTyped'
  <2>1. faults' \in 0..MaxFaults
    BY <1>1, BoundsAssumption DEF Damage, TypeOK
  <2>2. UNCHANGED astray \/ astray' = TRUE => LineTyped'
    BY <2>1, Zenon DEF TypeOK, LineTyped
  <2> QED
    BY <1>1, <2>1, <2>2 DEF Damage, TypeOK, SenderTyped, sender
<1>2. ASSUME NEW m \in Messages, toDevice # <<>>
      PROVE  <<m>> \o Tail(toDevice) \in Seq(Messages)
  BY <1>2, TailInSeq, SingletonInSeq, ConcatInSeq DEF TypeOK
<1>3. CASE Lose
  BY <1>1, <1>3, TailInSeq, SenderKeeps DEF Lose, TypeOK
<1>4. CASE Corrupt
  BY <1>1, <1>2, <1>4, MessagesTyped, SenderKeeps DEF Corrupt, TypeOK
<1>5. CASE Garble
  BY <1>1, <1>2, <1>5, MessagesTyped, SenderKeeps DEF Garble, TypeOK
<1>6. CASE LoseReply
  BY <1>1, <1>6, TailInSeq, SenderKeeps DEF LoseReply, TypeOK
<1> QED
  BY <1>3, <1>4, <1>5, <1>6 DEF Line

(***************************************************************************)
(* The receiver.                                                           *)
(***************************************************************************)
ReceiverTyped ==
    /\ mode \in {"poll", "erase", "gone"}
    /\ expected \in 0..(N + 1)
    /\ begun \in BOOLEAN
    /\ errors \in 0..MaxErrors
    /\ file \in BOOLEAN
    /\ bytes \in 0..N
    /\ slot \in Seq(1..N) /\ Len(slot) <= N

\* What a receiver step has to keep besides the line.
ReceiverInv ==
    ReceiverTyped /\ InOrder /\ WholeWhenGone /\ Counted /\ Numbered /\ Erasing

LEMMA ReceiverKeeps ==
    ASSUME IInv, ReceiverInv', UNCHANGED sender, LineTyped',
           toDevice' \in Seq(Messages), toTool' \in Seq(Replies)
    PROVE  IInv'
  BY DEF IInv, TypeOK, ReceiverInv, ReceiverTyped, LineTyped, sender

LEMMA TakesTyped ==
    ASSUME IInv, NEW kind, Takes(kind)
    PROVE  /\ toDevice' \in Seq(Messages) /\ UNCHANGED sender /\ LineTyped'
           /\ Head(toDevice) \in Messages /\ Head(toDevice).kind = kind
           /\ mode = "poll"
  BY TailInSeq, LineKept DEF IInv, TypeOK, Takes

LEMMA ReplyTyped ==
    ASSUME IInv, NEW controls \in Seq(Replies), Reply(controls)
    PROVE  toTool' \in Seq(Replies)
  BY ConcatInSeq DEF IInv, TypeOK, Reply

LEMMA SlotKept ==
    ASSUME IInv, UNCHANGED slot
    PROVE  InOrder' /\ slot' \in Seq(1..N) /\ Len(slot') <= N
  BY DEF IInv, TypeOK, InOrder

\* A session that ends keeps the slot as it is.
LEMMA NewSessionKeeps ==
    ASSUME IInv, NewSession, UNCHANGED slot
    PROVE  ReceiverInv'
<1>1. ReceiverTyped'
  <2>1. (begun \in BOOLEAN /\ file \in BOOLEAN)'
    BY Zenon DEF NewSession
  <2>2. (errors \in 0..MaxErrors /\ expected \in 0..(N + 1) /\ bytes \in 0..N)'
    BY NAssumption, BoundsAssumption DEF NewSession
  <2>3. mode' = "poll"
    BY DEF NewSession
  <2> QED
    BY <2>1, <2>2, <2>3, SlotKept DEF ReceiverTyped
<1>2. InOrder'
  BY SlotKept
<1>3. (WholeWhenGone /\ Counted /\ Numbered /\ Erasing)'
  BY DEF NewSession, WholeWhenGone, Counted, Numbered, Erasing
<1> QED
  BY <1>1, <1>2, <1>3 DEF ReceiverInv

LEMMA AbortSessionKeeps ==
    ASSUME IInv, AbortSession, UNCHANGED slot
    PROVE  ReceiverInv' /\ toTool' \in Seq(Replies)
  BY NewSessionKeeps, ReplyTyped, RepliesTyped DEF AbortSession

LEMMA MissesKeeps ==
    ASSUME IInv, mode = "poll", Misses
    PROVE  ReceiverInv' /\ toTool' \in Seq(Replies)
<1> DEFINE n == IF begun THEN errors + 1 ELSE errors
<1>1. CASE n > MaxErrors
  <2>1. AbortSession /\ UNCHANGED slot
    BY <1>1, BoundsAssumption DEF Misses, IInv, TypeOK
  <2> QED
    BY <2>1, AbortSessionKeeps
<1>2. CASE n <= MaxErrors
  <2>1. /\ errors' = n
        /\ Reply(<<"C">>)
        /\ UNCHANGED <<mode, expected, begun, file, bytes, slot>>
    BY <1>2, BoundsAssumption DEF Misses, IInv, TypeOK
  <2>2. n \in 0..MaxErrors
    BY <1>2, BoundsAssumption DEF IInv, TypeOK
  <2>3. ReceiverInv'
    BY <2>1, <2>2, SlotKept
       DEF IInv, TypeOK, ReceiverInv, ReceiverTyped,
           WholeWhenGone, Counted, Numbered, Erasing
  <2> QED
    BY <2>1, <2>3, ReplyTyped, RepliesTyped
<1> QED
  BY <1>1, <1>2, BoundsAssumption DEF IInv, TypeOK

LEMMA TakeDataKeeps ==
    ASSUME IInv, TakeData
    PROVE  ReceiverInv' /\ toTool' \in Seq(Replies)
<1> DEFINE k == Head(toDevice).no
<1>1. /\ k \in 1..N /\ k = expected /\ mode = "poll"
  BY TakesTyped, MessagesTyped DEF TakeData
<1>2. file /\ bytes = Len(slot) /\ k = Len(slot) + 1
  BY <1>1 DEF IInv, Numbered, Counted
<1>3. CASE AbortSession /\ UNCHANGED slot
  BY <1>3, AbortSessionKeeps
<1>4. CASE /\ bytes < N
           /\ slot' = Append(slot, k)
           /\ bytes' = bytes + 1 /\ expected' = expected + 1
           /\ begun' = TRUE /\ errors' = 0
           /\ Reply(<<"ACK">>)
           /\ UNCHANGED <<mode, file>>
  <2>1. slot \in Seq(Nat) /\ slot \in Seq(1..N)
    BY NAssumption DEF IInv, TypeOK
  <2>2. slot' \in Seq(1..N)
    BY <1>1, <1>4, <2>1, AppendInSeq
  <2>3. InOrder' /\ Len(slot') = k
    BY <1>1, <1>2, <1>4, <2>1, AppendInOrder, NAssumption
       DEF IInv, InOrder
  <2>4. ReceiverInv'
    BY <1>1, <1>2, <1>4, <2>2, <2>3, NAssumption, BoundsAssumption
       DEF IInv, TypeOK, ReceiverInv, ReceiverTyped,
           WholeWhenGone, Counted, Numbered, Erasing
  <2> QED
    BY <1>4, <2>4, ReplyTyped, RepliesTyped
<1> QED
  BY <1>3, <1>4 DEF TakeData

LEMMA ReceiverStepKeeps ==
    ASSUME IInv, ReceiverStep \/ EraseFails
    PROVE  IInv'
<1> USE NAssumption, BoundsAssumption
<1>1. CASE TakeOutOfTurn
  <2>1. PICK kind : Takes(kind)
    BY <1>1 DEF TakeOutOfTurn
  <2>2. ReceiverInv'
    BY <1>1, <2>1, TakesTyped, SlotKept
       DEF TakeOutOfTurn, IInv, TypeOK, ReceiverInv, ReceiverTyped,
           WholeWhenGone, Counted, Numbered, Erasing
  <2> QED
    BY <1>1, <2>1, <2>2, TakesTyped, ReplyTyped, RepliesTyped, ReceiverKeeps
       DEF TakeOutOfTurn
<1>2. CASE TakeHeader
  <2>1. ReceiverInv'
    <3>1. slot' = <<>> /\ Len(slot') = 0
      BY <1>2 DEF TakeHeader
    <3>2. InOrder' /\ slot' \in Seq(1..N)
      BY <3>1 DEF InOrder
    <3> QED
      BY <1>2, <3>1, <3>2
         DEF TakeHeader, IInv, TypeOK, ReceiverInv, ReceiverTyped,
             WholeWhenGone, Counted, Numbered, Erasing
  <2> QED
    BY <1>2, <2>1, TakesTyped, ReceiverKeeps DEF TakeHeader, IInv, TypeOK
<1>3. (IF toDevice = <<>> THEN <<>> ELSE <<Stale>>) \in Seq(Messages)
  BY SingletonInSeq, MessagesTyped
<1>4. CASE Erased
  <2>1. ReceiverInv'
    <3>1. Len(slot) = 0
      BY <1>4 DEF Erased, IInv, Erasing
    <3> QED
      BY <1>4, <3>1, SlotKept
         DEF Erased, IInv, TypeOK, ReceiverInv, ReceiverTyped,
             WholeWhenGone, Counted, Numbered, Erasing
  <2> QED
    BY <1>3, <1>4, <2>1, ReplyTyped, RepliesTyped, ReceiverKeeps,
       LineKept
       DEF Erased, IInv
<1>5. CASE EraseFails
  BY <1>3, <1>5, AbortSessionKeeps, ReceiverKeeps, LineKept
     DEF EraseFails, IInv
<1>6. CASE TakeData
  BY <1>6, TakeDataKeeps, TakesTyped, ReceiverKeeps DEF TakeData
<1>7. CASE TakeEot
  <2>1. ReceiverInv'
    BY <1>7, TakesTyped, SlotKept
       DEF TakeEot, IInv, TypeOK, ReceiverInv, ReceiverTyped,
           WholeWhenGone, Counted, Numbered, Erasing
  <2> QED
    BY <1>7, <2>1, TakesTyped, ReplyTyped, RepliesTyped, ReceiverKeeps
       DEF TakeEot
<1>8. CASE TakeFinal
  <2>1. CASE NewSession
    BY <1>8, <2>1, NewSessionKeeps, TakesTyped, ReplyTyped, RepliesTyped,
       ReceiverKeeps
       DEF TakeFinal
  <2>2. CASE /\ file /\ bytes = N
             /\ mode' = "gone"
             /\ UNCHANGED <<expected, begun, errors, file, bytes>>
    <3>1. ReceiverInv'
      BY <1>8, <2>2, TakesTyped, SlotKept
         DEF TakeFinal, IInv, TypeOK, ReceiverInv, ReceiverTyped,
             WholeWhenGone, Counted, Numbered, Erasing
    <3> QED
      BY <1>8, <3>1, TakesTyped, ReplyTyped, RepliesTyped, ReceiverKeeps
         DEF TakeFinal
  <2> QED
    BY <1>8, <2>1, <2>2 DEF TakeFinal
<1>9. CASE TakeBad
  BY <1>9, MissesKeeps, TakesTyped, ReceiverKeeps DEF TakeBad
<1>10. CASE TakeStale
  <2>1. toDevice' \in Seq(Messages)
    <3>1. Tail(toDevice) \in Seq(Messages)
      BY <1>10, TailInSeq DEF TakeStale, IInv, TypeOK
    <3>2. Len(toDevice) > 1 => Tail(Tail(toDevice)) \in Seq(Messages)
      <4>1. Len(toDevice) > 1 => Tail(toDevice) # <<>>
        BY TailNotEmpty DEF IInv, TypeOK
      <4> QED
        BY <3>1, <4>1, TailInSeq
    <3>3. ASSUME NEW m \in {EOT, Abort}, Len(toDevice) > 1
          PROVE  <<m>> \o Tail(Tail(toDevice)) \in Seq(Messages)
      BY <3>2, <3>3, MessagesTyped, SingletonInSeq, ConcatInSeq
    <3> QED
      BY <1>10, <3>1, <3>2, <3>3 DEF TakeStale
  <2>2. LineTyped'
    BY <1>10 DEF TakeStale, IInv, TypeOK, LineTyped
  <2> QED
    BY <1>10, <2>1, <2>2, MissesKeeps, ReceiverKeeps DEF TakeStale
<1>11. CASE Poll
  BY <1>11, MissesKeeps, ReceiverKeeps, LineKept DEF Poll, IInv, TypeOK
<1>12. CASE TakeAbort
  BY <1>12, AbortSessionKeeps, TakesTyped, ReceiverKeeps DEF TakeAbort
<1>13. CASE Ignored
  <2>1. toDevice' \in Seq(Messages)
    BY <1>13, TailInSeq DEF Ignored, IInv, TypeOK
  <2>2. ReceiverInv'
    BY <1>13, SlotKept
       DEF Ignored, receiver, IInv, TypeOK, ReceiverInv, ReceiverTyped,
           WholeWhenGone, Counted, Numbered, Erasing
  <2> QED
    BY <1>13, <2>1, <2>2, ReceiverKeeps, LineKept DEF Ignored, IInv, TypeOK
<1> QED
  BY <1>1, <1>2, <1>4, <1>5, <1>6, <1>7, <1>8, <1>9, <1>10, <1>11, <1>12,
     <1>13 DEF ReceiverStep

(***************************************************************************)
(* The theorems.                                                           *)
(***************************************************************************)
\* Every reachable state satisfies the inductive invariant.
THEOREM Invariance == Spec => []IInv
<1>1. Init => IInv
  <2>1. Init => /\ slot = <<>> /\ Len(slot) = 0 /\ slot \in Seq(1..N)
                /\ toDevice \in Seq(Messages) /\ toTool \in Seq(Replies)
    BY DEF Init
  <2>2. Init => InOrder
    BY <2>1 DEF InOrder
  <2>3. Init => TypeOK
    <3>1. Init => begun \in BOOLEAN /\ file \in BOOLEAN /\ astray \in BOOLEAN
      BY Zenon DEF Init
    <3>2. Init => /\ next \in 1..N /\ tries \in 0..(MaxRetries - 1)
                  /\ faults \in 0..MaxFaults /\ expected \in 0..(N + 1)
                  /\ errors \in 0..MaxErrors /\ bytes \in 0..N
                  /\ Len(slot) <= N
      BY <2>1, NAssumption, BoundsAssumption DEF Init
    <3>3. Init => phase = "ready" /\ mode = "poll"
      BY DEF Init
    <3> QED
      BY <2>1, <3>1, <3>2, <3>3 DEF TypeOK
  <2>4. Init => WholeWhenGone /\ Counted /\ Numbered /\ Erasing
    BY DEF Init, WholeWhenGone, Counted, Numbered, Erasing
  <2> QED
    BY <2>2, <2>3, <2>4 DEF IInv
<1>2. IInv /\ [Next]_vars => IInv'
  <2>1. IInv /\ Next => IInv'
    BY SenderStepKeeps, ReceiverStepKeeps, LineKeeps DEF Next
  <2>2. IInv /\ UNCHANGED vars => IInv'
    BY SlotKept DEF vars, sender, line, receiver, IInv, TypeOK, WholeWhenGone,
                    Counted, Numbered, Erasing
  <2> QED
    BY <2>1, <2>2
<1> QED
  BY <1>1, <1>2, PTL DEF Spec

\* Numbers, counters and queues stay within the protocol's bounds.
THEOREM TypeCorrect == Spec => []TypeOK
<1>1. IInv => TypeOK
  BY DEF IInv
<1> QED
  BY <1>1, Invariance, PTL

\* However many packets the image has and whatever the line does, the slot
\* holds the packets in order (the packet numbers of Ymodem_Receive).
THEOREM ArrivesInOrder == Spec => []InOrder
<1>1. IInv => InOrder
  BY DEF IInv
<1> QED
  BY <1>1, Invariance, PTL

\* The device resets after a transfer only with the whole image in its slot.
THEOREM ResetsWhole == Spec => []WholeWhenGone
<1>1. IInv => WholeWhenGone
  BY DEF IInv
<1> QED
  BY <1>1, Invariance, PTL

(***************************************************************************)
(* SenderNotAhead.  Every ACK under way to the sender answers a packet of  *)
(* its own: the ACKs ahead of the first abort can be numbered upwards by   *)
(* the packets they answer, the header being the first.                    *)
(***************************************************************************)
PacketKinds == {"header", "data", "EOT", "final"}

Holds(q, kind) == \E i \in 1..Len(q) : q[i].kind = kind

\* A header is sent before anything that follows the header.
HeadersFirst(q) ==
    \A i, j \in 1..Len(q) :
        i < j /\ q[j].kind = "header" =>
            q[i].kind \notin PacketKinds \ {"header"}

\* The answers that the sender reads before it is told of an abort.
Live(q, i) == \A j \in 1..i : q[j] # "CAN"

NoAbort(q) == Live(q, Len(q))

NoAck(q) == \A i \in 1..Len(q) : q[i] # "ACK"

LiveAck(q, i) == q[i] = "ACK" /\ Live(q, i)

\* num numbers the ACKs of q, each with a packet from low + 1 to high.
Numbers(num, q, low, high) ==
    \A i \in 1..Len(q) : LiveAck(q, i) =>
        /\ num[i] \in (low + 1)..high
        /\ \A j \in 1..(i - 1) : q[j] = "ACK" => num[j] < num[i]

Answers(q, low, high) ==
    \E num \in Seq(Nat) : Len(num) = Len(q) /\ Numbers(num, q, low, high)

\* The packets that the sender knows to be acknowledged.
Rank == CASE phase \in {"ready", "header"} -> 0
          [] phase = "follow" -> 1
          [] OTHER -> next

EarlyPhases == {"ready", "header", "follow", "data"}

\* Nothing is sent before the packet that precedes it has arrived, so that no
\* header is left to be accepted once the slot holds data.
SentInTurn ==
    /\ HeadersFirst(toDevice)
    /\ Holds(toDevice, "header") => slot = <<>>
    /\ phase \in {"ready", "header", "follow"} =>
          slot = <<>> /\ ~Holds(toDevice, "data")
    /\ phase \in EarlyPhases =>
          ~Holds(toDevice, "EOT") /\ ~Holds(toDevice, "final")
    /\ phase \in {"eot", "final", "done"} => Len(slot) = N

\* A session without a header has acknowledged nothing.
Unanswered ==
    /\ phase \in EarlyPhases /\ expected = 0 /\ slot = <<>>
    /\ NoAbort(toTool)
    => Rank = 0 /\ NoAck(toTool)

AnsweredInTurn ==
    phase \in EarlyPhases =>
        Rank <= 1 + Len(slot) /\ Answers(toTool, Rank, 1 + Len(slot))

Kept == SentInTurn /\ Unanswered /\ AnsweredInTurn

InTurn == astray \/ Kept

(***************************************************************************)
(* The answers under way.                                                  *)
(***************************************************************************)
LEMMA WidenAnswers ==
    ASSUME NEW q \in Seq(Replies), NEW low \in Nat, NEW high \in Nat,
           Answers(q, low, high),
           NEW lower \in Nat, lower <= low, NEW higher \in Nat, high <= higher
    PROVE  Answers(q, lower, higher)
<1>1. PICK num \in Seq(Nat) :
          Len(num) = Len(q) /\ Numbers(num, q, low, high)
  BY DEF Answers
<1>2. Numbers(num, q, lower, higher)
  BY <1>1 DEF Numbers
<1> QED
  BY <1>1, <1>2 DEF Answers

LEMMA TailAnswers ==
    ASSUME NEW q \in Seq(Replies), q # <<>>, Head(q) # "CAN",
           NEW low \in Nat, NEW high \in Nat, Answers(q, low, high)
    PROVE  /\ Answers(Tail(q), low, high)
           /\ Head(q) = "ACK" =>
                 low + 1 <= high /\ Answers(Tail(q), low + 1, high)
<1> DEFINE t == Tail(q)
<1>1. /\ Len(q) \in Nat /\ Len(q) >= 1 /\ Len(t) = Len(q) - 1
      /\ q[1] = Head(q)
      /\ \A i \in 1..Len(t) : t[i] = q[i + 1]
  OBVIOUS
<1> HIDE DEF t
<1>2. PICK num \in Seq(Nat) :
          Len(num) = Len(q) /\ Numbers(num, q, low, high)
  BY DEF Answers
<1> DEFINE rest == Tail(num)
<1>3. /\ rest \in Seq(Nat) /\ Len(rest) = Len(t)
      /\ \A i \in 1..Len(t) : rest[i] = num[i + 1] /\ rest[i] \in Nat
  BY <1>1, <1>2
<1> HIDE DEF rest
<1>4. ASSUME NEW i \in 1..Len(t), LiveAck(t, i)
      PROVE  LiveAck(q, i + 1) /\ i + 1 \in 1..Len(q)
  <2>1. ASSUME NEW j \in 1..(i + 1) PROVE q[j] # "CAN"
    <3>1. CASE j = 1
      BY <1>1, <3>1
    <3>2. CASE j # 1
      <4>1. j - 1 \in 1..i /\ j - 1 \in 1..Len(t) /\ (j - 1) + 1 = j
        BY <1>1, <3>2
      <4>2. t[j - 1] = q[(j - 1) + 1]
        BY <1>1, <4>1
      <4> QED
        BY <1>4, <4>1, <4>2 DEF LiveAck, Live
    <3> QED
      BY <3>1, <3>2
  <2> QED
    BY <1>1, <1>4, <2>1 DEF LiveAck, Live
<1>5. ASSUME NEW i \in 1..Len(t), LiveAck(t, i)
      PROVE  /\ rest[i] \in (low + 1)..high
             /\ \A j \in 1..(i - 1) : t[j] = "ACK" => rest[j] < rest[i]
             /\ Head(q) = "ACK" => num[1] < rest[i]
  <2> DEFINE k == i + 1
  <2>1. LiveAck(q, k) /\ k \in 1..Len(q) /\ i \in Nat /\ k - 1 = i /\ i >= 1
    BY <1>1, <1>4, <1>5
  <2>2. rest[i] = num[k]
    BY <1>3
  <2> HIDE DEF k
  <2>3. /\ num[k] \in (low + 1)..high
        /\ \A j \in 1..(k - 1) : q[j] = "ACK" => num[j] < num[k]
    BY <1>2, <2>1 DEF Numbers
  <2>4. ASSUME NEW j \in 1..(i - 1), t[j] = "ACK"
        PROVE  rest[j] < rest[i]
    <3> DEFINE m == j + 1
    <3>1. m \in 1..i /\ t[j] = q[m] /\ rest[j] = num[m]
      BY <1>1, <1>3, <2>1
    <3> HIDE DEF m
    <3> QED
      BY <2>1, <2>2, <2>3, <2>4, <3>1
  <2>5. Head(q) = "ACK" => num[1] < rest[i]
    BY <1>1, <2>1, <2>2, <2>3
  <2> QED
    BY <2>2, <2>3, <2>4, <2>5
<1>6. Answers(t, low, high)
  <2>1. Numbers(rest, t, low, high)
    BY <1>5 DEF Numbers
  <2> QED
    BY <1>3, <2>1 DEF Answers
<1>7. ASSUME Head(q) = "ACK"
      PROVE  low + 1 <= high /\ Answers(t, low + 1, high)
  <2>1. LiveAck(q, 1)
    BY <1>1, <1>7 DEF LiveAck, Live
  <2>2. num[1] \in (low + 1)..high
    BY <1>1, <1>2, <2>1 DEF Numbers
  <2>3. ASSUME NEW i \in 1..Len(t), LiveAck(t, i)
        PROVE  rest[i] \in ((low + 1) + 1)..high
    <3>1. num[1] < rest[i] /\ rest[i] \in (low + 1)..high
      BY <1>5, <1>7, <2>3
    <3> QED
      BY <2>2, <3>1
  <2>4. Numbers(rest, t, low + 1, high)
    BY <1>5, <2>3 DEF Numbers
  <2> QED
    BY <1>3, <2>2, <2>4 DEF Answers
<1> QED
  BY <1>6, <1>7 DEF t

\* An answer is added: an ACK to the next packet, or none to a packet.
LEMMA AppendAnswer ==
    ASSUME NEW q \in Seq(Replies), NEW e \in Replies,
           NEW low \in Nat, NEW high \in Nat, low <= high,
           Answers(q, low, high)
    PROVE  /\ Answers(q \o <<e>>, low, high + 1)
           /\ e # "ACK" => Answers(q \o <<e>>, low, high)
<1> DEFINE r == q \o <<e>>
           n == Len(q)
<1>1. /\ n \in Nat /\ Len(r) = n + 1 /\ r[n + 1] = e
      /\ \A i \in 1..n : r[i] = q[i]
  OBVIOUS
<1>2. PICK num \in Seq(Nat) : Len(num) = n /\ Numbers(num, q, low, high)
  BY DEF Answers
<1> DEFINE more == Append(num, high + 1)
<1>3. /\ more \in Seq(Nat) /\ Len(more) = n + 1 /\ more[n + 1] = high + 1
      /\ \A i \in 1..n : more[i] = num[i] /\ more[i] \in Nat
  BY <1>2
<1>4. \A i \in 1..n : LiveAck(q, i) =>
          /\ num[i] \in (low + 1)..high
          /\ \A j \in 1..(i - 1) : q[j] = "ACK" => num[j] < num[i]
  BY <1>2 DEF Numbers
<1> HIDE DEF r, n, more
<1>5. ASSUME NEW i \in 1..n, LiveAck(r, i)
      PROVE  LiveAck(q, i)
  BY <1>1, <1>5 DEF LiveAck, Live
<1>6. ASSUME NEW i \in 1..n, LiveAck(r, i)
      PROVE  /\ more[i] \in (low + 1)..high
             /\ \A j \in 1..(i - 1) : r[j] = "ACK" => more[j] < more[i]
  <2>1. /\ more[i] = num[i] /\ num[i] \in (low + 1)..high
        /\ \A j \in 1..(i - 1) : q[j] = "ACK" => num[j] < num[i]
    BY <1>3, <1>4, <1>5, <1>6
  <2>2. \A j \in 1..(i - 1) : q[j] = r[j] /\ more[j] = num[j]
    BY <1>1, <1>3
  <2> QED
    BY <2>1, <2>2
<1>7. ASSUME NEW i \in 1..(n + 1), LiveAck(r, i)
      PROVE  /\ more[i] \in (low + 1)..(high + 1)
             /\ \A j \in 1..(i - 1) : r[j] = "ACK" => more[j] < more[i]
  <2>1. CASE i \in 1..n
    BY <1>6, <1>7, <2>1
  <2>2. CASE i = n + 1
    <3>1. more[i] = high + 1
      BY <1>3, <2>2
    <3>2. ASSUME NEW j \in 1..(i - 1), r[j] = "ACK"
          PROVE  more[j] < more[i]
      <4>1. j \in 1..n /\ LiveAck(r, j)
        BY <1>1, <1>7, <2>2, <3>2 DEF LiveAck, Live
      <4>2. more[j] \in (low + 1)..high
        BY <1>6, <4>1
      <4> QED
        BY <3>1, <4>2
    <3> QED
      BY <3>1, <3>2
  <2> QED
    BY <1>1, <2>1, <2>2
<1>8. Answers(r, low, high + 1)
  BY <1>1, <1>3, <1>7 DEF Answers, Numbers
<1>9. ASSUME e # "ACK" PROVE Answers(r, low, high)
  <2>1. \A i \in 1..(n + 1) : LiveAck(r, i) => i \in 1..n
    BY <1>1, <1>9 DEF LiveAck
  <2> QED
    BY <1>1, <1>3, <1>6, <2>1 DEF Answers, Numbers
<1> QED
  BY <1>8, <1>9 DEF r

\* What is added after an abort says nothing of packets.
LEMMA AnswersAfterAbort ==
    ASSUME NEW q \in Seq(Replies), NEW e \in Replies,
           NEW low \in Nat, NEW high \in Nat,
           Answers(q, low, high), ~Live(q, Len(q))
    PROVE  Answers(q \o <<e>>, low, high)
<1> DEFINE r == q \o <<e>>
           n == Len(q)
<1>1. /\ n \in Nat /\ Len(r) = n + 1
      /\ \A i \in 1..n : r[i] = q[i]
  OBVIOUS
<1>2. PICK k \in 1..n : q[k] = "CAN"
  BY DEF Live
<1>3. PICK num \in Seq(Nat) : Len(num) = n /\ Numbers(num, q, low, high)
  BY DEF Answers
<1> DEFINE more == Append(num, 0)
<1>4. /\ more \in Seq(Nat) /\ Len(more) = n + 1
      /\ \A i \in 1..n : more[i] = num[i] /\ more[i] \in Nat
  BY <1>3
<1>5. \A i \in 1..n : LiveAck(q, i) =>
          /\ num[i] \in (low + 1)..high
          /\ \A j \in 1..(i - 1) : q[j] = "ACK" => num[j] < num[i]
  BY <1>3 DEF Numbers
<1> HIDE DEF r, n, more
<1>6. ASSUME NEW i \in 1..(n + 1), LiveAck(r, i)
      PROVE  i \in 1..n /\ LiveAck(q, i)
  BY <1>1, <1>2, <1>6 DEF LiveAck, Live
<1>7. ASSUME NEW i \in 1..(n + 1), LiveAck(r, i)
      PROVE  /\ more[i] \in (low + 1)..high
             /\ \A j \in 1..(i - 1) : r[j] = "ACK" => more[j] < more[i]
  <2>1. /\ i \in 1..n /\ more[i] = num[i] /\ num[i] \in (low + 1)..high
        /\ \A j \in 1..(i - 1) : q[j] = "ACK" => num[j] < num[i]
    BY <1>4, <1>5, <1>6, <1>7
  <2>2. \A j \in 1..(i - 1) : q[j] = r[j] /\ more[j] = num[j]
    BY <1>1, <1>4, <2>1
  <2> QED
    BY <2>1, <2>2
<1> QED
  BY <1>1, <1>4, <1>7 DEF Answers, Numbers, r

(***************************************************************************)
(* The packets under way.                                                  *)
(***************************************************************************)
\* What is left of a queue, or damaged, keeps the order of its packets.
Cut(q, r) ==
    /\ \A kind \in PacketKinds : Holds(r, kind) => Holds(q, kind)
    /\ HeadersFirst(q) => HeadersFirst(r)

LEMMA CutTail ==
    ASSUME NEW q \in Seq(Messages), q # <<>>
    PROVE  /\ Cut(q, Tail(q)) /\ Holds(q, Head(q).kind)
           /\ HeadersFirst(q) /\ Head(q).kind \in PacketKinds \ {"header"} =>
                 ~Holds(Tail(q), "header")
<1> DEFINE t == Tail(q)
           n == Len(t)
<1>1. /\ n \in Nat /\ Len(q) = n + 1 /\ q[1] = Head(q)
      /\ \A i \in 1..n : t[i] = q[i + 1]
  OBVIOUS
<1> HIDE DEF t, n
<1>2. \A i \in 1..n : i + 1 \in 1..Len(q) /\ t[i] = q[i + 1] /\ 1 < i + 1
  BY <1>1
<1>3. 1 \in 1..Len(q)
  BY <1>1
<1>4. \A kind : Holds(t, kind) => Holds(q, kind)
  BY <1>2 DEF Holds, n
<1>5. HeadersFirst(q) => HeadersFirst(t)
  <2> SUFFICES ASSUME HeadersFirst(q), NEW i \in 1..n, NEW j \in 1..n,
                      i < j, t[j].kind = "header"
               PROVE  t[i].kind \notin PacketKinds \ {"header"}
    BY DEF HeadersFirst, n
  <2>1. i + 1 < j + 1
    BY <1>1
  <2> QED
    BY <1>2, <2>1 DEF HeadersFirst
<1>6. Holds(q, Head(q).kind)
  BY <1>1, <1>3 DEF Holds
<1>7. ASSUME HeadersFirst(q), Head(q).kind \in PacketKinds \ {"header"}
      PROVE  ~Holds(t, "header")
  BY <1>1, <1>2, <1>3, <1>7 DEF Holds, HeadersFirst, n
<1> QED
  BY <1>4, <1>5, <1>6, <1>7 DEF Cut, t

LEMMA CutBad ==
    ASSUME NEW q \in Seq(Messages), q # <<>>
    PROVE  Cut(q, <<Bad>> \o Tail(q))
<1> DEFINE r == <<Bad>> \o Tail(q)
           n == Len(q)
<1>1. /\ n \in Nat /\ n >= 1 /\ Len(r) = n /\ r[1] = Bad
      /\ \A i \in 2..n : r[i] = q[i]
  OBVIOUS
<1>2. Bad.kind = "bad"
  BY DEF Bad
<1> HIDE DEF r, n
<1>3. \A i \in 1..n : r[i].kind \in PacketKinds => r[i] = q[i]
  <2> SUFFICES ASSUME NEW i \in 1..n, r[i].kind \in PacketKinds
               PROVE  r[i] = q[i]
    OBVIOUS
  <2>1. i # 1
    BY <1>1, <1>2 DEF PacketKinds
  <2> QED
    BY <1>1, <2>1
<1>4. \A kind \in PacketKinds : Holds(r, kind) => Holds(q, kind)
  BY <1>1, <1>3 DEF Holds, n
<1>5. HeadersFirst(q) => HeadersFirst(r)
  <2> SUFFICES ASSUME HeadersFirst(q), NEW i \in 1..n, NEW j \in 1..n,
                      i < j, r[j].kind = "header",
                      r[i].kind \in PacketKinds \ {"header"}
               PROVE  FALSE
    BY <1>1 DEF HeadersFirst
  <2>1. r[i] = q[i] /\ r[j] = q[j]
    BY <1>3 DEF PacketKinds
  <2> QED
    BY <2>1 DEF HeadersFirst, n
<1> QED
  BY <1>4, <1>5 DEF Cut, r

LEMMA CutTwice ==
    ASSUME NEW q, NEW r, NEW t, Cut(q, r), Cut(r, t)
    PROVE  Cut(q, t)
  BY DEF Cut

LEMMA CutAll ==
    ASSUME NEW q
    PROVE  Cut(q, q) /\ Cut(q, <<>>) /\ Cut(q, <<Stale>>)
<1>1. Cut(q, <<>>)
  BY DEF Cut, Holds, HeadersFirst
<1>2. Len(<<Stale>>) = 1 /\ <<Stale>>[1].kind = "stale"
  BY DEF Stale
<1>3. Cut(q, <<Stale>>)
  BY <1>2 DEF Cut, Holds, HeadersFirst, PacketKinds
<1> QED
  BY <1>1, <1>3 DEF Cut

LEMMA AppendPacket ==
    ASSUME NEW q \in Seq(Messages), NEW m \in Messages, HeadersFirst(q),
           m.kind = "header" =>
               \A kind \in PacketKinds \ {"header"} : ~Holds(q, kind)
    PROVE  /\ HeadersFirst(Append(q, m))
           /\ \A kind : Holds(Append(q, m), kind) =>
                  Holds(q, kind) \/ m.kind = kind
<1> DEFINE r == Append(q, m)
           n == Len(q)
<1>1. /\ n \in Nat /\ Len(r) = n + 1 /\ r[n + 1] = m
      /\ \A i \in 1..n : r[i] = q[i]
  OBVIOUS
<1> HIDE DEF r, n
<1>2. \A kind : Holds(r, kind) => Holds(q, kind) \/ m.kind = kind
  BY <1>1 DEF Holds, n
<1>3. HeadersFirst(r)
  <2> SUFFICES ASSUME NEW i \in 1..(n + 1), NEW j \in 1..(n + 1),
                      i < j, r[j].kind = "header",
                      r[i].kind \in PacketKinds \ {"header"}
               PROVE  FALSE
    BY <1>1 DEF HeadersFirst
  <2>1. i \in 1..n /\ r[i] = q[i] /\ Holds(q, r[i].kind)
    BY <1>1 DEF Holds, n
  <2>2. j \in 1..n /\ r[j] = q[j]
    BY <1>1, <2>1
  <2> QED
    BY <2>1, <2>2 DEF HeadersFirst, n
<1> QED
  BY <1>2, <1>3 DEF r

\* Nothing acknowledges nothing.
LEMMA NoAckAnswers ==
    ASSUME NEW q \in Seq(Replies), NoAck(q), NEW low \in Nat, NEW high \in Nat
    PROVE  Answers(q, low, high)
<1> DEFINE num == [i \in 1..Len(q) |-> 0]
<1>1. num \in Seq(Nat) /\ Len(num) = Len(q)
  OBVIOUS
<1>2. Numbers(num, q, low, high)
  BY DEF Numbers, LiveAck, NoAck
<1> QED
  BY <1>1, <1>2 DEF Answers

LEMMA ReplyAppended ==
    ASSUME NEW q \in Seq(Replies), NEW e \in Replies
    PROVE  /\ NoAbort(q \o <<e>>) => NoAbort(q) /\ e # "CAN"
           /\ NoAck(q) /\ e # "ACK" => NoAck(q \o <<e>>)
<1> DEFINE r == q \o <<e>>
           n == Len(q)
<1>1. /\ n \in Nat /\ Len(r) = n + 1 /\ r[n + 1] = e
      /\ \A i \in 1..n : r[i] = q[i]
  OBVIOUS
<1> HIDE DEF r, n
<1>2. NoAbort(r) => NoAbort(q) /\ e # "CAN"
  BY <1>1 DEF NoAbort, Live, n
<1>3. NoAck(q) /\ e # "ACK" => NoAck(r)
  BY <1>1 DEF NoAck, n
<1> QED
  BY <1>2, <1>3 DEF r

LEMMA TailHeard ==
    ASSUME NEW q \in Seq(Replies), q # <<>>
    PROVE  /\ Head(q) # "CAN" /\ NoAbort(Tail(q)) => NoAbort(q)
           /\ NoAck(q) => NoAck(Tail(q)) /\ Head(q) # "ACK"
<1> DEFINE t == Tail(q)
           n == Len(t)
<1>1. /\ n \in Nat /\ Len(q) = n + 1 /\ q[1] = Head(q)
      /\ \A i \in 1..n : t[i] = q[i + 1]
  OBVIOUS
<1> HIDE DEF t, n
<1>2. ASSUME Head(q) # "CAN", NoAbort(t), NEW j \in 1..(n + 1)
      PROVE  q[j] # "CAN"
  <2>1. CASE j = 1
    BY <1>1, <1>2, <2>1
  <2>2. CASE j # 1
    <3>1. j - 1 \in 1..n /\ (j - 1) + 1 = j
      BY <1>1, <2>2
    <3>2. t[j - 1] = q[(j - 1) + 1] /\ t[j - 1] # "CAN"
      BY <1>1, <1>2, <3>1 DEF NoAbort, Live, n
    <3> QED
      BY <3>1, <3>2
  <2> QED
    BY <2>1, <2>2
<1>3. NoAck(q) => NoAck(t) /\ Head(q) # "ACK"
  <2>1. \A i \in 1..n : i + 1 \in 1..Len(q)
    BY <1>1
  <2>2. 1 \in 1..Len(q)
    BY <1>1
  <2> QED
    BY <1>1, <2>1, <2>2 DEF NoAck, n
<1> QED
  BY <1>1, <1>2, <1>3 DEF NoAbort, Live, t

(***************************************************************************)
(* What the steps keep.                                                    *)
(***************************************************************************)
LEMMA CutKeepsTurn ==
    ASSUME SentInTurn, Cut(toDevice, toDevice'), UNCHANGED <<phase, slot>>
    PROVE  SentInTurn'
  BY DEF SentInTurn, Cut, PacketKinds

LEMMA SendKeepsTurn ==
    ASSUME TypeOK, SentInTurn, NEW m \in Messages,
           toDevice' = Append(toDevice, m), UNCHANGED slot,
           m.kind = "header" => phase \in {"ready", "header", "follow"},
           phase' \in {"ready", "header", "follow"} =>
               /\ phase \in {"ready", "header", "follow"}
               /\ m.kind # "data",
           phase' \in EarlyPhases =>
               phase \in EarlyPhases /\ m.kind \notin {"EOT", "final"},
           phase' \in {"eot", "final", "done"} => Len(slot) = N
    PROVE  SentInTurn'
<1>1. m.kind = "header" =>
          /\ \A kind \in PacketKinds \ {"header"} : ~Holds(toDevice, kind)
          /\ slot = <<>>
  BY DEF SentInTurn, PacketKinds, EarlyPhases
<1>2. /\ HeadersFirst(toDevice')
      /\ \A kind : Holds(toDevice', kind) =>
             Holds(toDevice, kind) \/ m.kind = kind
  BY <1>1, AppendPacket DEF SentInTurn, TypeOK
<1> QED
  BY <1>1, <1>2 DEF SentInTurn

LEMMA RankTyped ==
    /\ TypeOK => Rank \in Nat /\ Len(slot) \in Nat
    /\ TypeOK' => Rank' \in Nat
<1>1. TypeOK => Rank \in Nat /\ Len(slot) \in Nat
  BY NAssumption DEF TypeOK, Rank
<1>2. TypeOK' => Rank' \in Nat
  BY NAssumption DEF TypeOK, Rank
<1> QED
  BY <1>1, <1>2

\* An answer that the sender reads moves it on by an ACK at most.
LEMMA HearKeepsTurn ==
    ASSUME TypeOK, TypeOK', Unanswered, AnsweredInTurn, toTool # <<>>,
           Head(toTool) # "CAN",
           toTool' = Tail(toTool), UNCHANGED <<slot, expected>>,
           phase' \in EarlyPhases =>
               /\ phase \in EarlyPhases
               /\ Rank' <= Rank \/ (Head(toTool) = "ACK" /\ Rank' = Rank + 1)
    PROVE  Unanswered' /\ AnsweredInTurn'
<1>1. Rank \in Nat /\ Rank' \in Nat /\ 1 + Len(slot) \in Nat
      /\ toTool \in Seq(Replies)
  BY RankTyped DEF TypeOK
<1>2. Unanswered'
  BY <1>1, TailHeard DEF Unanswered
<1>3. ASSUME phase' \in EarlyPhases
      PROVE  Rank' <= 1 + Len(slot) /\ Answers(Tail(toTool), Rank', 1 + Len(slot))
  <2>1. Rank <= 1 + Len(slot) /\ Answers(toTool, Rank, 1 + Len(slot))
    BY <1>3 DEF AnsweredInTurn
  <2>2. /\ Answers(Tail(toTool), Rank, 1 + Len(slot))
        /\ Head(toTool) = "ACK" =>
              /\ Rank + 1 <= 1 + Len(slot)
              /\ Answers(Tail(toTool), Rank + 1, 1 + Len(slot))
    BY <1>1, <2>1, TailAnswers
  <2>3. CASE Rank' <= Rank
    <3>0. Tail(toTool) \in Seq(Replies)
      BY <1>1, TailInSeq
    <3> DEFINE rest == Tail(toTool)
               low == Rank
               lower == Rank'
               high == 1 + Len(slot)
    <3>1. /\ rest \in Seq(Replies) /\ low \in Nat /\ lower \in Nat
          /\ high \in Nat /\ lower <= low /\ high <= high
          /\ Answers(rest, low, high)
      BY <1>1, <2>2, <2>3, <3>0
    <3> HIDE DEF rest, low, lower, high
    <3>2. Answers(rest, lower, high)
      BY <3>1, WidenAnswers
    <3>3. Answers(Tail(toTool), Rank', 1 + Len(slot))
      BY <3>2 DEF rest, lower, high
    <3> QED
      BY <1>1, <2>1, <2>3, <3>3
  <2>4. CASE Head(toTool) = "ACK" /\ Rank' = Rank + 1
    BY <2>2, <2>4
  <2> QED
    BY <1>3, <2>3, <2>4
<1> QED
  BY <1>2, <1>3 DEF AnsweredInTurn

\* The sender goes on without an answer, but not ahead.
LEMMA NoHearKeepsTurn ==
    ASSUME TypeOK, TypeOK', Unanswered, AnsweredInTurn,
           UNCHANGED <<toTool, slot, expected>>,
           phase' \in EarlyPhases => phase \in EarlyPhases /\ Rank' <= Rank
    PROVE  Unanswered' /\ AnsweredInTurn'
<1>1. Rank \in Nat /\ Rank' \in Nat /\ 1 + Len(slot) \in Nat
      /\ toTool \in Seq(Replies)
  BY RankTyped DEF TypeOK
<1>2. Unanswered'
  BY <1>1 DEF Unanswered
<1>3. phase' \in EarlyPhases =>
          Rank' <= 1 + Len(slot) /\ Answers(toTool, Rank', 1 + Len(slot))
  BY <1>1, WidenAnswers DEF AnsweredInTurn
<1> QED
  BY <1>2, <1>3 DEF AnsweredInTurn

\* The receiver answers with something other than an ACK.
LEMMA AnswerKeepsTurn ==
    ASSUME TypeOK, Unanswered, AnsweredInTurn, NEW e \in Replies \ {"ACK"},
           Reply(<<e>>), UNCHANGED <<phase, next, slot>>,
           expected' = expected \/ e = "CAN"
    PROVE  Unanswered' /\ AnsweredInTurn'
<1>1. /\ Rank \in Nat /\ 1 + Len(slot) \in Nat /\ toTool \in Seq(Replies)
      /\ Rank' = Rank
  BY RankTyped DEF TypeOK, Rank
<1>2. toTool' = toTool \o <<e>>
  BY DEF Reply
<1>3. Unanswered'
  BY <1>1, <1>2, ReplyAppended DEF Unanswered
<1>4. AnsweredInTurn'
  BY <1>1, <1>2, AppendAnswer DEF AnsweredInTurn
<1> QED
  BY <1>3, <1>4

(***************************************************************************)
(* The steps.                                                              *)
(***************************************************************************)
LEMMA RetryKeepsTurn ==
    ASSUME TypeOK, SentInTurn, Sending, Retry, UNCHANGED slot
    PROVE  SentInTurn' /\ (phase' \in EarlyPhases =>
                               phase \in EarlyPhases /\ Rank' = Rank)
<1>1. CASE Stop("failed")
  BY <1>1, CutAll, CutKeepsTurn DEF Stop, SentInTurn, EarlyPhases
<1>2. CASE toDevice' = Append(toDevice, Current) /\ UNCHANGED <<phase, next>>
  <2>1. /\ Current \in Messages
        /\ Current.kind = "header" => phase = "header"
        /\ Current.kind = "data" => phase = "data"
        /\ Current.kind \in {"EOT", "final"} => phase \in {"eot", "final"}
    BY CurrentTyped
       DEF Sending, Current, Header, Final, Data, EOT, TypeOK
  <2>2. SentInTurn'
    BY <1>2, <2>1, SendKeepsTurn DEF SentInTurn, EarlyPhases
  <2> QED
    BY <1>2, <2>2 DEF Rank
<1> QED
  BY <1>1, <1>2 DEF Retry

LEMMA StartDataKeepsTurn ==
    ASSUME TypeOK, SentInTurn, phase = "follow", StartData, UNCHANGED slot
    PROVE  SentInTurn' /\ Rank' = Rank
<1>1. Data(1) \in Messages /\ Data(1).kind = "data"
  BY MessagesTyped, NAssumption DEF Data
<1>2. SentInTurn'
  BY <1>1, SendKeepsTurn DEF StartData, Start, EarlyPhases
<1> QED
  BY <1>2 DEF StartData, Start, Rank

LEMMA SenderKeepsTurn ==
    ASSUME IInv, TypeOK', Kept, SenderStep \/ SenderTimeout
    PROVE  Kept'
<1> USE DEF Kept
<1>1. TypeOK /\ UNCHANGED receiver
  BY DEF IInv, SenderStep, SenderTimeout, HearReady, HearAck, HearNak,
     HearAbort, HearPoll, HearFollow, FollowTimeout, Hears
<1>2. UNCHANGED <<slot, expected>>
  BY <1>1 DEF receiver
<1>a. ASSUME NEW reply \in Replies, Hears(reply), SentInTurn',
             reply # "CAN" \/ phase' \notin EarlyPhases,
             phase' \in EarlyPhases =>
                 /\ phase \in EarlyPhases
                 /\ Rank' <= Rank \/ (reply = "ACK" /\ Rank' = Rank + 1)
      PROVE  Kept'
  <2>1. CASE phase' \notin EarlyPhases
    BY <1>a, <2>1 DEF Unanswered, AnsweredInTurn
  <2>2. CASE phase' \in EarlyPhases
    BY <1>1, <1>2, <1>a, <2>2, HearKeepsTurn DEF Hears
  <2> QED
    BY <2>1, <2>2
<1>b. Rank \in Nat
  BY <1>1, RankTyped
<1>c. {"ACK", "NAK", "C", "CAN"} = Replies
  BY DEF Replies
<1>d. ASSUME NEW p, Stop(p), p \notin {"eot", "final", "done"} \/ Len(slot) = N,
             p \in {"ready", "header", "follow"} =>
                 phase \in {"ready", "header", "follow"},
             p \in EarlyPhases => phase \in EarlyPhases
      PROVE  SentInTurn'
  BY <1>2, <1>d DEF Stop, SentInTurn
<1>3. CASE HearReady
  <2>1. phase = "ready" /\ Hears("C") /\ Start("header", 1, Header)
    BY <1>3 DEF HearReady
  <2>2. Header \in Messages /\ Header.kind = "header"
    BY MessagesTyped DEF Header
  <2>3. SentInTurn'
    BY <1>1, <1>2, <2>1, <2>2, SendKeepsTurn DEF Start, EarlyPhases
  <2>4. Rank' = 0
    BY <2>1 DEF Start, Rank
  <2> QED
    BY <1>a, <1>b, <1>c, <2>1, <2>3, <2>4 DEF Start, EarlyPhases
<1>4. CASE HearAck
  <2>1. Hears("ACK")
    BY <1>4 DEF HearAck
  <2>2. CASE phase = "header" /\ Stop("follow")
    <3>1. SentInTurn'
      BY <1>d, <2>2 DEF EarlyPhases
    <3>2. Rank' = 1 /\ Rank = 0
      BY <2>2 DEF Stop, Rank
    <3> QED
      BY <1>a, <1>c, <2>1, <2>2, <3>1, <3>2 DEF EarlyPhases
  <2>3. CASE /\ phase = "data" /\ next < N
             /\ Start("data", next + 1, Data(next + 1))
    <3>1. Data(next + 1) \in Messages /\ Data(next + 1).kind = "data"
      <4>1. next + 1 \in 1..N
        BY <1>1, <2>3, NAssumption DEF TypeOK
      <4> QED
        BY <4>1, MessagesTyped DEF Data
    <3>2. SentInTurn'
      BY <1>1, <1>2, <2>3, <3>1, SendKeepsTurn DEF Start, EarlyPhases
    <3>3. Rank' = next + 1 /\ Rank = next
      BY <2>3 DEF Start, Rank
    <3> QED
      BY <1>a, <1>c, <2>1, <2>3, <3>2, <3>3 DEF EarlyPhases
  <2>4. CASE phase = "data" /\ next = N /\ Start("eot", next, EOT)
    <3>1. Rank = N
      BY <2>4 DEF Rank
    <3>2. Rank + 1 <= 1 + Len(slot)
      <4>1. /\ toTool \in Seq(Replies) /\ toTool # <<>> /\ Head(toTool) = "ACK"
            /\ Rank \in Nat /\ 1 + Len(slot) \in Nat
        BY <1>1, <2>1, RankTyped DEF Hears, TypeOK
      <4>2. Answers(toTool, Rank, 1 + Len(slot))
        BY <2>4 DEF AnsweredInTurn, EarlyPhases
      <4> QED
        BY <4>1, <4>2, TailAnswers
    <3>3. Len(slot) = N
      BY <1>1, <3>1, <3>2, NAssumption DEF TypeOK
    <3>4. EOT \in Messages /\ EOT.kind = "EOT"
      BY MessagesTyped DEF EOT
    <3>5. SentInTurn'
      BY <1>1, <1>2, <2>4, <3>3, <3>4, SendKeepsTurn DEF Start, EarlyPhases
    <3> QED
      BY <1>a, <1>c, <2>1, <2>4, <3>5 DEF Start, EarlyPhases
  <2>5. CASE phase = "eot" /\ Start("final", next, Final)
    <3>1. Final \in Messages /\ Final.kind = "final"
      BY MessagesTyped DEF Final
    <3>2. SentInTurn'
      BY <1>1, <1>2, <2>5, <3>1, SendKeepsTurn
         DEF Start, EarlyPhases, SentInTurn
    <3> QED
      BY <1>a, <1>c, <2>1, <2>5, <3>2 DEF Start, EarlyPhases
  <2>6. CASE phase = "final" /\ Stop("done")
    <3>1. SentInTurn'
      BY <1>d, <2>6 DEF EarlyPhases, SentInTurn
    <3> QED
      BY <1>a, <1>c, <2>1, <2>6, <3>1 DEF Stop, EarlyPhases
  <2> QED
    BY <1>4, <2>2, <2>3, <2>4, <2>5, <2>6 DEF HearAck
<1>5. CASE HearNak
  <2>1. Hears("NAK") /\ Sending /\ Retry
    BY <1>5 DEF HearNak
  <2>2. SentInTurn' /\ (phase' \in EarlyPhases =>
                            phase \in EarlyPhases /\ Rank' = Rank)
    BY <1>1, <1>2, <2>1, RetryKeepsTurn
  <2> QED
    BY <1>a, <1>b, <1>c, <2>1, <2>2
<1>6. CASE HearAbort
  <2>1. Hears("CAN") /\ Stop("failed")
    BY <1>6 DEF HearAbort
  <2>2. SentInTurn'
    BY <1>d, <2>1 DEF EarlyPhases
  <2> QED
    BY <1>a, <1>c, <2>1, <2>2 DEF Stop, EarlyPhases
<1>7. CASE HearPoll
  <2>1. Hears("C") /\ Stop(phase)
    BY <1>7 DEF HearPoll
  <2>2. SentInTurn' /\ Rank' = Rank /\ phase' = phase
    BY <1>d, <2>1 DEF EarlyPhases, SentInTurn, Stop, Rank
  <2> QED
    BY <1>a, <1>b, <1>c, <2>1, <2>2
<1>8. CASE HearFollow
  <2>1. PICK reply \in {"C", "ACK", "NAK"} :
            Hears(reply) /\ IF reply = "NAK" THEN Stop("header") ELSE StartData
    BY <1>8 DEF HearFollow
  <2>2. phase = "follow"
    BY <1>8 DEF HearFollow
  <2>3. CASE StartData
    <3>1. SentInTurn' /\ Rank' = Rank
      BY <1>1, <1>2, <2>2, <2>3, StartDataKeepsTurn
    <3> QED
      BY <1>a, <1>b, <1>c, <2>1, <2>2, <3>1 DEF EarlyPhases
  <2>4. CASE Stop("header")
    <3>1. SentInTurn'
      BY <1>d, <2>2, <2>4 DEF EarlyPhases
    <3>2. Rank' = 0
      BY <2>4 DEF Stop, Rank
    <3> QED
      BY <1>a, <1>b, <1>c, <2>1, <2>2, <3>1, <3>2 DEF EarlyPhases
  <2> QED
    BY <2>1, <2>3, <2>4
<1>9. CASE FollowTimeout
  <2>1. phase = "follow" /\ StartData /\ UNCHANGED toTool
    BY <1>9 DEF FollowTimeout
  <2>2. SentInTurn' /\ Rank' = Rank
    BY <1>1, <1>2, <2>1, StartDataKeepsTurn
  <2> QED
    BY <1>1, <1>2, <1>b, <2>1, <2>2, NoHearKeepsTurn DEF EarlyPhases
<1>10. CASE SenderTimeout
  <2>1. Sending /\ Retry /\ UNCHANGED toTool
    BY <1>10 DEF SenderTimeout
  <2>2. SentInTurn' /\ (phase' \in EarlyPhases =>
                            phase \in EarlyPhases /\ Rank' = Rank)
    BY <1>1, <1>2, <2>1, RetryKeepsTurn
  <2> QED
    BY <1>1, <1>2, <1>b, <2>1, <2>2, NoHearKeepsTurn
<1> QED
  BY <1>3, <1>4, <1>5, <1>6, <1>7, <1>8, <1>9, <1>10 DEF SenderStep

LEMMA TakesCut ==
    ASSUME TypeOK, NEW kind, Takes(kind)
    PROVE  /\ Cut(toDevice, toDevice') /\ UNCHANGED <<phase, next>>
           /\ Holds(toDevice, kind) /\ Head(toDevice) \in Messages
           /\ Head(toDevice).kind = kind /\ mode = "poll"
           /\ HeadersFirst(toDevice) /\ kind \in PacketKinds \ {"header"} =>
                  ~Holds(toDevice', "header")
  BY CutTail, TailInSeq DEF TypeOK, Takes, sender

LEMMA MissesKeepsTurn ==
    ASSUME TypeOK, Unanswered, AnsweredInTurn, Misses, UNCHANGED <<phase, next>>
    PROVE  Unanswered' /\ AnsweredInTurn' /\ UNCHANGED slot
<1>1. "C" \in Replies \ {"ACK"} /\ "CAN" \in Replies \ {"ACK"}
  BY DEF Replies
<1>2. UNCHANGED slot /\ \/ Reply(<<"CAN">>)
                        \/ Reply(<<"C">>) /\ UNCHANGED expected
  BY DEF Misses, AbortSession
<1> QED
  BY <1>1, <1>2, AnswerKeepsTurn

\* The header is acknowledged once per session.
LEMMA ErasedKeepsTurn ==
    ASSUME IInv, Kept, Erased
    PROVE  Kept'
<1>1. /\ TypeOK /\ slot = <<>> /\ Len(slot) = 0 /\ expected = 0
      /\ UNCHANGED <<phase, next, slot>> /\ expected' = 1
      /\ Rank' = Rank /\ Rank \in Nat /\ toTool \in Seq(Replies)
  <2>1. UNCHANGED <<phase, next, slot>>
    BY DEF Erased, sender
  <2> QED
    BY <2>1, RankTyped DEF Erased, IInv, Erasing, TypeOK, Rank
<1>2. SentInTurn'
  BY <1>1, CutAll, CutKeepsTurn DEF Kept, Erased
<1>3. Unanswered'
  BY <1>1 DEF Unanswered
<1>4. ASSUME phase \in EarlyPhases
      PROVE  Rank <= 1 /\ Answers(toTool', Rank, 1)
  <2>1. Rank <= 1 /\ Answers(toTool, Rank, 1)
    BY <1>1, <1>4 DEF Kept, AnsweredInTurn
  <2> DEFINE q == toTool \o <<"ACK">>
  <2>2. toTool' = q \o <<"C">> /\ q \in Seq(Replies)
    BY <1>1, RepliesTyped DEF Erased, Reply
  <2>3. "ACK" \in Replies /\ "C" \in Replies
    BY DEF Replies
  <2>4. Answers(q, Rank, 1)
    <3>1. CASE NoAbort(toTool)
      <4>1. Rank = 0 /\ NoAck(toTool)
        BY <1>1, <1>4, <3>1 DEF Kept, Unanswered
      <4>2. Answers(toTool, 0, 0)
        BY <1>1, <4>1, NoAckAnswers
      <4>3. Answers(q, 0, 0 + 1)
        BY <1>1, <2>3, <4>2, AppendAnswer
      <4> QED
        BY <4>1, <4>3
    <3>2. CASE ~NoAbort(toTool)
      BY <1>1, <2>1, <2>3, <3>2, AnswersAfterAbort DEF NoAbort
    <3> QED
      BY <3>1, <3>2
  <2> HIDE DEF q
  <2>5. Answers(q \o <<"C">>, Rank, 1)
    BY <1>1, <2>1, <2>2, <2>3, <2>4, AppendAnswer
  <2> QED
    BY <2>1, <2>2, <2>5
<1>5. AnsweredInTurn'
  BY <1>1, <1>4 DEF AnsweredInTurn
<1> QED
  BY <1>2, <1>3, <1>5 DEF Kept

\* A data packet is acknowledged once, when it is the next one.
LEMMA TakeDataKeepsTurn ==
    ASSUME IInv, IInv', Kept, TakeData
    PROVE  Kept'
<1> DEFINE k == Head(toDevice).no
<1>1. /\ TypeOK /\ Takes("data") /\ k = expected /\ k \in 1..N
      /\ toTool \in Seq(Replies) /\ Len(slot) \in Nat
  BY TakesTyped, MessagesTyped, RankTyped DEF TakeData, IInv, TypeOK
<1>2. k = Len(slot) + 1
  BY <1>1 DEF IInv, Numbered
<1>3. /\ UNCHANGED <<phase, next>> /\ Cut(toDevice, toDevice')
      /\ phase \notin {"ready", "header", "follow"}
      /\ ~Holds(toDevice', "header")
      /\ Rank' = Rank /\ Rank \in Nat
  BY <1>1, TakesCut, RankTyped DEF Kept, SentInTurn, PacketKinds, Rank
<1>4. phase \notin {"eot", "final", "done"}
  BY <1>1, <1>2, NAssumption DEF Kept, SentInTurn
<1>5. CASE AbortSession /\ UNCHANGED slot
  <2>1. "CAN" \in Replies \ {"ACK"}
    BY DEF Replies
  <2>2. Unanswered' /\ AnsweredInTurn'
    BY <1>1, <1>3, <1>5, <2>1, AnswerKeepsTurn DEF Kept, AbortSession
  <2>3. SentInTurn'
    BY <1>3, <1>5, CutKeepsTurn DEF Kept
  <2> QED
    BY <2>2, <2>3 DEF Kept
<1>6. CASE /\ slot' = Append(slot, k) /\ expected' = expected + 1
           /\ Reply(<<"ACK">>)
  <2>1. Len(slot') = Len(slot) + 1 /\ slot \in Seq(1..N)
    BY <1>1, <1>6 DEF TypeOK
  <2>2. SentInTurn'
    BY <1>3, <1>4 DEF Kept, SentInTurn, Cut, PacketKinds
  <2>3. Unanswered'
    BY <1>1, <1>6 DEF Unanswered
  <2>4. AnsweredInTurn'
    <3> SUFFICES ASSUME phase \in EarlyPhases
                 PROVE  Rank <= 1 + Len(slot')
                        /\ Answers(toTool', Rank, 1 + Len(slot'))
      BY <1>3 DEF AnsweredInTurn
    <3>1. /\ Rank <= 1 + Len(slot) /\ 1 + Len(slot) \in Nat
          /\ Answers(toTool, Rank, 1 + Len(slot))
      BY <1>1 DEF Kept, AnsweredInTurn
    <3>2. "ACK" \in Replies
      BY DEF Replies
    <3>3. Answers(toTool \o <<"ACK">>, Rank, (1 + Len(slot)) + 1)
      BY <1>1, <1>3, <3>1, <3>2, AppendAnswer
    <3>4. (1 + Len(slot)) + 1 = 1 + Len(slot') /\ Rank <= 1 + Len(slot')
      BY <1>1, <1>3, <2>1, <3>1
    <3> QED
      BY <1>6, <3>3, <3>4 DEF Reply
  <2> QED
    BY <2>2, <2>3, <2>4 DEF Kept
<1> QED
  BY <1>5, <1>6 DEF TakeData

LEMMA ReceiverKeepsTurn ==
    ASSUME IInv, IInv', Kept, ReceiverStep \/ EraseFails, ~astray'
    PROVE  Kept'
<1>a. TypeOK /\ TypeOK' /\ SentInTurn /\ Unanswered /\ AnsweredInTurn
  BY DEF IInv, Kept
<1>b. {"NAK", "C", "CAN"} \subseteq Replies \ {"ACK"}
  BY DEF Replies
<1>c. ASSUME UNCHANGED <<phase, next, slot>>, Cut(toDevice, toDevice'),
             NEW e \in {"NAK", "C", "CAN"}, Reply(<<e>>),
             expected' = expected \/ e = "CAN"
      PROVE  Kept'
  BY <1>a, <1>b, <1>c, AnswerKeepsTurn, CutKeepsTurn DEF Kept
<1>d. ASSUME UNCHANGED <<phase, next>>, Cut(toDevice, toDevice'), Misses
      PROVE  Kept'
  BY <1>a, <1>d, MissesKeepsTurn, CutKeepsTurn DEF Kept
<1>e. ASSUME UNCHANGED <<phase, next, slot, expected, toTool>>,
             Cut(toDevice, toDevice')
      PROVE  Kept'
  <2>1. Rank' = Rank
    BY <1>e DEF Rank
  <2>2. Unanswered' /\ AnsweredInTurn'
    BY <1>a, <1>e, <2>1, NoHearKeepsTurn, RankTyped
  <2> QED
    BY <1>a, <1>e, <2>2, CutKeepsTurn DEF Kept
<1>1. CASE TakeOutOfTurn
  <2>1. PICK kind : Takes(kind)
    BY <1>1 DEF TakeOutOfTurn
  <2>2. UNCHANGED <<phase, next>> /\ Cut(toDevice, toDevice')
    BY <1>a, <2>1, TakesCut
  <2>3. Reply(<<"NAK">>) /\ UNCHANGED <<slot, expected>>
    BY <1>1 DEF TakeOutOfTurn
  <2> QED
    BY <1>c, <2>2, <2>3
<1>2. CASE TakeHeader
  <2>1. UNCHANGED <<phase, next>> /\ Cut(toDevice, toDevice')
        /\ Holds(toDevice, "header")
    BY <1>2, <1>a, TakesCut DEF TakeHeader
  <2>2. slot' = slot
    BY <1>2, <1>a, <2>1 DEF TakeHeader, SentInTurn
  <2>3. UNCHANGED <<expected, toTool>>
    BY <1>2 DEF TakeHeader
  <2> QED
    BY <1>e, <2>1, <2>2, <2>3
<1>3. CASE Erased
  BY <1>3, ErasedKeepsTurn
<1>4. CASE EraseFails
  <2>1. UNCHANGED <<phase, next, slot>> /\ Reply(<<"CAN">>)
    BY <1>4 DEF EraseFails, AbortSession, sender
  <2>2. Cut(toDevice, toDevice')
    BY <1>4, CutAll DEF EraseFails
  <2> QED
    BY <1>c, <2>1, <2>2
<1>5. CASE TakeData
  BY <1>5, TakeDataKeepsTurn
<1>6. ASSUME NEW kind \in {"EOT", "final"}, Takes(kind), UNCHANGED slot
      PROVE  Kept'
  <2>1. UNCHANGED <<phase, next>> /\ Cut(toDevice, toDevice')
        /\ Holds(toDevice, kind)
    BY <1>6, <1>a, TakesCut
  <2>2. phase \notin EarlyPhases
    BY <1>a, <1>6, <2>1 DEF SentInTurn
  <2>3. Unanswered' /\ AnsweredInTurn'
    BY <2>1, <2>2 DEF Unanswered, AnsweredInTurn
  <2> QED
    BY <1>a, <1>6, <2>1, <2>3, CutKeepsTurn DEF Kept
<1>7. CASE TakeEot \/ TakeFinal
  BY <1>6, <1>7 DEF TakeEot, TakeFinal
<1>8. CASE TakeBad
  BY <1>8, <1>a, <1>d, TakesCut DEF TakeBad
<1>9. CASE TakeStale
  <2>1. /\ toDevice \in Seq(Messages) /\ toDevice # <<>>
        /\ UNCHANGED <<phase, next>> /\ Misses
    BY <1>9, <1>a DEF TakeStale, sender, TypeOK
  <2>2. Cut(toDevice, Tail(toDevice)) /\ Tail(toDevice) \in Seq(Messages)
    BY <2>1, CutTail, TailInSeq
  <2>3. Len(toDevice) > 1 => Cut(toDevice, Tail(Tail(toDevice)))
    <3>1. Len(toDevice) > 1 => Tail(toDevice) # <<>>
      BY <2>1, TailNotEmpty
    <3> QED
      BY <2>2, <3>1, CutTail, CutTwice
  <2>4. \/ toDevice' = Tail(toDevice)
        \/ Len(toDevice) > 1 /\ toDevice' = Tail(Tail(toDevice))
    BY <1>9, Zenon DEF TakeStale
  <2> QED
    BY <1>d, <2>1, <2>2, <2>3, <2>4
<1>10. CASE Poll
  BY <1>10, <1>d, CutAll DEF Poll, sender
<1>11. CASE TakeAbort
  <2>1. UNCHANGED <<phase, next, slot>> /\ Cut(toDevice, toDevice')
        /\ Reply(<<"CAN">>)
    BY <1>11, <1>a, TakesCut DEF TakeAbort, AbortSession
  <2> QED
    BY <1>c, <2>1
<1>12. CASE Ignored
  <2>1. /\ UNCHANGED <<phase, next, slot, expected, toTool>>
        /\ Cut(toDevice, toDevice')
    BY <1>12, <1>a, CutTail DEF Ignored, sender, receiver, TypeOK
  <2> QED
    BY <1>e, <2>1
<1> QED
  BY <1>1, <1>2, <1>3, <1>4, <1>5, <1>7, <1>8, <1>9, <1>10, <1>11, <1>12
     DEF ReceiverStep

LEMMA LineKeepsTurn ==
    ASSUME IInv, TypeOK', Kept, Line, ~astray'
    PROVE  Kept'
<1>a. /\ TypeOK /\ SentInTurn /\ Unanswered /\ AnsweredInTurn
      /\ UNCHANGED <<phase, next, slot, expected>> /\ Rank' = Rank
      /\ Rank \in Nat
  <2>1. UNCHANGED <<phase, next, slot, expected>>
    BY DEF Line, Lose, Corrupt, Garble, LoseReply, Damage, sender, receiver
  <2> QED
    BY <2>1, RankTyped DEF IInv, Kept, Rank
<1>1. CASE toTool' = toTool /\ Cut(toDevice, toDevice')
  BY <1>1, <1>a, NoHearKeepsTurn, CutKeepsTurn DEF Kept
<1>2. CASE Lose
  BY <1>1, <1>2, <1>a, CutTail DEF Lose, TypeOK
<1>3. CASE Corrupt
  BY <1>1, <1>3, <1>a, CutBad DEF Corrupt, TypeOK
<1>4. CASE Garble
  BY <1>4, Zenon DEF Garble
<1>5. CASE LoseReply
  <2>1. Head(toTool) # "CAN"
    BY <1>5, Zenon DEF LoseReply
  <2>2. SentInTurn'
    BY <1>5, <1>a, CutAll, CutKeepsTurn DEF LoseReply
  <2>3. Unanswered' /\ AnsweredInTurn'
    BY <1>5, <1>a, <2>1, HearKeepsTurn DEF LoseReply
  <2> QED
    BY <2>2, <2>3 DEF Kept
<1> QED
  BY <1>2, <1>3, <1>4, <1>5 DEF Line

\* The two sides stay astray once they are.
LEMMA AstrayStays ==
    ASSUME astray, Next
    PROVE  astray'
  BY Zenon DEF Next, SenderStep, SenderTimeout, ReceiverStep, EraseFails, Line,
     HearReady, HearAck, HearNak, HearAbort, HearPoll, HearFollow, Hears,
     FollowTimeout, line, Takes, TakeOutOfTurn, TakeHeader, Erased, TakeData,
     TakeEot, TakeFinal, TakeBad, TakeStale, Poll, TakeAbort, Ignored, Lose,
     Corrupt, Garble, LoseReply

LEMMA NextInTurn ==
    ASSUME IInv, IInv', InTurn, [Next]_vars
    PROVE  InTurn'
<1> SUFFICES ASSUME ~astray' PROVE Kept'
  BY DEF InTurn, Kept
<1>1. CASE UNCHANGED vars
  <2>1. ~astray /\ UNCHANGED <<phase, next, toDevice, toTool, slot, expected>>
    BY <1>1 DEF vars, sender, line, receiver
  <2>2. Rank' = Rank
    BY <2>1 DEF Rank
  <2> QED
    BY <2>1, <2>2, CutAll, CutKeepsTurn, NoHearKeepsTurn, RankTyped
       DEF InTurn, Kept, IInv
<1>2. CASE Next
  <2>1. Kept
    BY <1>2, AstrayStays DEF InTurn, Kept
  <2> QED
    BY <1>2, <2>1, SenderKeepsTurn, ReceiverKeepsTurn, LineKeepsTurn
       DEF Next, IInv
<1> QED
  BY <1>1, <1>2

LEMMA InitInTurn == Init => InTurn
<1> SUFFICES ASSUME Init PROVE Kept
  BY DEF InTurn, Kept
<1>1. /\ toDevice = <<>> /\ toTool = <<>> /\ phase = "ready" /\ slot = <<>>
      /\ Len(toDevice) = 0 /\ Len(toTool) = 0 /\ Len(slot) = 0
      /\ toTool \in Seq(Replies) /\ Rank = 0
  BY DEF Init, Rank
<1>2. SentInTurn
  BY <1>1 DEF SentInTurn, HeadersFirst, Holds, EarlyPhases
<1>3. NoAck(toTool)
  BY <1>1 DEF NoAck
<1>4. Unanswered
  BY <1>1, <1>3 DEF Unanswered
<1>5. Answers(toTool, 0, 1)
  BY <1>1, <1>3, NoAckAnswers
<1>6. AnsweredInTurn
  BY <1>1, <1>5 DEF AnsweredInTurn
<1> QED
  BY <1>2, <1>4, <1>6 DEF Kept

\* However many packets, faults and retries there are and however late the
\* answers come, no ACK is taken for that of a packet that has not arrived,
\* as long as the device's aborts are heard and no data is read as commands.
THEOREM SenderKeepsBehind == Spec => []SenderNotAhead
<1>1. IInv /\ IInv' /\ InTurn /\ [Next]_vars => InTurn'
  BY NextInTurn
<1>2. IInv /\ InTurn => SenderNotAhead
  <2> SUFFICES ASSUME IInv, Kept PROVE SenderNotAhead
    BY DEF InTurn, Kept, SenderNotAhead
  <2>1. phase = "data" => next <= 1 + Len(slot)
    BY DEF Kept, AnsweredInTurn, EarlyPhases, Rank
  <2>2. next \in Nat /\ Len(slot) \in Nat
    BY NAssumption DEF IInv, TypeOK
  <2> QED
    BY <2>1, <2>2 DEF Kept, SentInTurn, SenderNotAhead
<1> QED
  BY <1>1, <1>2, InitInTurn, Invariance, PTL DEF Spec
=============================================================================
