-------------------------- MODULE CommandLink_proofs --------------------------
(***************************************************************************)
(* Proofs about CommandLink for every set of relay maps and any number of  *)
(* requests, faults and events: the variables are typed, and the           *)
(* controller carries out no command twice and none after a newer one.     *)
(***************************************************************************)
EXTENDS CommandLink, TLAPS

Link == Seq(Acks \cup Telemetry)

(***************************************************************************)
(* Typing.                                                                 *)
(***************************************************************************)
LEMMA InitTyped == Init => TypeOK
  BY MasksAssumption, BoundsAssumption DEF Init, TypeOK, Results

LEMMA FaultTyped == faults \in 0..MaxFaults /\ Fault => faults' \in 0..MaxFaults
  BY BoundsAssumption DEF Fault

LEMMA HappensTyped == events \in 0..MaxEvents /\ Happens => events' \in 0..MaxEvents
  BY BoundsAssumption DEF Happens

LEMMA EndedTyped ==
    ASSUME TypeOK, NEW is \in SUBSET Requests, NEW r \in Results, Ended(is, r)
    PROVE  /\ stage' \in [Requests -> {"none", "posting", "waiting", "ended",
                                      "done"}]
           /\ result' \in [Requests -> Results]
           /\ issued' = issued /\ want' = want
  BY DEF TypeOK, Ended

LEMMA OnMeasurementTyped ==
    ASSUME TypeOK, NEW m \in Masks, OnMeasurement(m)
    PROVE  /\ measured' \in Masks \cup {None}
           /\ requested' \in Masks \cup {None}
           /\ lastMeasurement' \in Masks
           /\ loggedIn' = loggedIn /\ pending' = pending
  BY DEF TypeOK, OnMeasurement

\* What the two kinds of events leave typed.
EventTyped ==
    /\ stage \in [Requests -> {"none", "posting", "waiting", "ended", "done"}]
    /\ result \in [Requests -> Results]
    /\ issued \in 0..MaxRequests
    /\ want \in [Requests -> Masks \cup {Period, None}]
    /\ measured \in Masks \cup {None} /\ requested \in Masks \cup {None}
    /\ lastMeasurement \in Masks \cup {None}
    /\ loggedIn \in BOOLEAN /\ pending \in 0..issued

LEMMA TelemetryEventTyped ==
    ASSUME TypeOK, NEW m \in Masks, TelemetryEvent(m)
    PROVE  EventTyped'
<1>1. {i \in WaitingRelays : want[i] = m} \in SUBSET Requests /\ "ok" \in Results
  BY DEF WaitingRelays, Waiting, Results
<1> QED
  BY <1>1, EndedTyped, OnMeasurementTyped DEF TelemetryEvent, TypeOK, EventTyped

LEMMA AckEventTyped ==
    ASSUME TypeOK, NEW i \in Requests, NEW r \in Results, AckEvent(i, r)
    PROVE  EventTyped'
<1>1. {i} \cap Waiting \in SUBSET Requests
  OBVIOUS
<1> QED
  BY <1>1, EndedTyped DEF AckEvent, view, TypeOK, EventTyped

LEMMA IssueTyped ==
    ASSUME TypeOK, NEW w \in Masks \cup {Period}, Issue(w),
           \/ UNCHANGED <<requested, pending>>
           \/ requested' \in Masks /\ pending' = pending + 1
    PROVE  TypeOK'
<1> USE DEF posts, links, device
<1>1. issued + 1 \in Requests /\ issued' \in 0..MaxRequests
  BY BoundsAssumption DEF Issue, TypeOK, Requests
<1>2. pending' \in 0..issued'
  BY <1>1, BoundsAssumption DEF Issue, TypeOK
<1>3. /\ want' \in [Requests -> Masks \cup {Period, None}]
      /\ stage' \in [Requests -> {"none", "posting", "waiting", "ended", "done"}]
  BY <1>1 DEF Issue, TypeOK
<1> QED
  BY <1>1, <1>2, <1>3 DEF Issue, TypeOK

LEMMA RequestTyped ==
    ASSUME TypeOK, NEW i \in Requests,
           Answered(i) \/ PostFails(i) \/ Timeout(i) \/ Finish(i) \/ Receive(i)
    PROVE  TypeOK'
<1> USE DEF app, view, posts, links, device
<1>1. CASE Answered(i)
  <2>1. /\ stage' \in [Requests -> {"none", "posting", "waiting", "ended", "done"}]
        /\ result' \in [Requests -> Results]
    BY <1>1 DEF Answered, TypeOK, Results
  <2> QED
    BY <1>1, <2>1 DEF Answered, TypeOK
<1>2. CASE PostFails(i)
  <2>1. {i} \in SUBSET Requests /\ "error" \in Results
    BY DEF Results
  <2>2. faults' \in 0..MaxFaults
    BY <1>2, FaultTyped DEF PostFails, TypeOK
  <2> QED
    BY <1>2, <2>1, <2>2, EndedTyped DEF PostFails, TypeOK
<1>3. CASE Timeout(i)
  <2>1. {i} \in SUBSET Requests /\ "timeout" \in Results
    BY DEF Results
  <2> QED
    BY <1>3, <2>1, EndedTyped DEF Timeout, TypeOK
<1>4. CASE Finish(i)
  <2>1. stage' \in [Requests -> {"none", "posting", "waiting", "ended", "done"}]
    BY <1>4 DEF Finish, TypeOK
  <2>2. pending' \in 0..issued
    BY <1>4 DEF Finish, TypeOK
  <2>3. requested' \in Masks \cup {None}
    BY <1>4 DEF Finish, TypeOK
  <2> QED
    BY <1>4, <2>1, <2>2, <2>3 DEF Finish, TypeOK
<1>5. CASE Receive(i)
  <2>1. /\ numbered' \in Nat /\ seq' \in [Requests -> Nat]
        /\ downlink' \in Seq(Requests)
    BY <1>5 DEF Receive, TypeOK
  <2> QED
    BY <1>5, <2>1 DEF Receive, TypeOK
<1> QED
  BY <1>1, <1>2, <1>3, <1>4, <1>5

LEMMA DeliverTyped == TypeOK /\ Deliver => TypeOK'
<1> SUFFICES ASSUME TypeOK, Deliver  PROVE TypeOK'
  OBVIOUS
<1> DEFINE f == Head(uplink)
<1>1. f \in Acks \cup Telemetry /\ uplink' \in Link
  BY DEF Deliver, TypeOK, Link
<1>2. latest' \in Masks \cup {None}
  BY <1>1 DEF Deliver, TypeOK, Acks, Telemetry
<1>3. EventTyped'
  <2>1. CASE UNCHANGED <<app, view>>
    BY <2>1 DEF app, view, TypeOK, EventTyped
  <2>2. CASE f.kind = "tele" /\ TelemetryEvent(f.says)
    BY <1>1, <2>2, TelemetryEventTyped DEF Acks, Telemetry
  <2>3. CASE f.kind = "ack" /\ AckEvent(f.of, f.says)
    BY <1>1, <2>3, AckEventTyped DEF Acks, Telemetry
  <2> QED
    BY <2>1, <2>2, <2>3 DEF Deliver
<1> QED
  BY <1>1, <1>2, <1>3 DEF Deliver, TypeOK, EventTyped, Link, posts, device

LEMMA AppTyped ==
    ASSUME TypeOK, Hello \/ RefreshServerSnapshot \/ FetchLatest \/ Logout
           \/ Login
    PROVE  TypeOK'
<1> USE DEF app, view, posts, links, device
<1>1. CASE Hello
  <2>1. EventTyped'
    BY <1>1, TelemetryEventTyped DEF Hello, TypeOK
  <2>2. faults' \in 0..MaxFaults
    BY <1>1, FaultTyped DEF Hello, TypeOK
  <2> QED
    BY <1>1, <2>1, <2>2 DEF Hello, TypeOK, EventTyped
<1>2. CASE RefreshServerSnapshot
  <2>1. latest \in Masks
    BY <1>2 DEF RefreshServerSnapshot, TypeOK
  <2> QED
    BY <1>2, <2>1, OnMeasurementTyped DEF RefreshServerSnapshot, TypeOK
<1>3. CASE Logout
  <2>1. events' \in 0..MaxEvents /\ pending' \in 0..issued
    BY <1>3, HappensTyped DEF Logout, TypeOK
  <2> QED
    BY <1>3, <2>1 DEF Logout, TypeOK
<1>4. CASE Login
  BY <1>4 DEF Login, TypeOK
<1>5. CASE FetchLatest
  BY <1>5 DEF FetchLatest, TypeOK
<1> QED
  BY <1>1, <1>2, <1>3, <1>4, <1>5

LEMMA SendTyped ==
    ASSUME TypeOK, NEW f \in Acks \cup Telemetry, Send(f)
    PROVE  uplink' \in Link
  BY DEF TypeOK, Send, Link

LEMMA LinkTyped ==
    ASSUME TypeOK,
           Lose \/ HandleJsonFrame \/ ReportCommandAck \/ Sample \/ SendTelemetry
    PROVE  TypeOK'
<1> USE DEF app, view, posts, device
<1>1. CASE Lose
  <2>1. faults' \in 0..MaxFaults
    BY <1>1, FaultTyped DEF Lose, TypeOK
  <2>2. downlink' \in Seq(Requests) /\ uplink' \in Link
    <3>1. downlink # <<>> => Tail(downlink) \in Seq(Requests)
      BY DEF TypeOK
    <3>2. uplink # <<>> => Tail(uplink) \in Link
      BY DEF TypeOK, Link
    <3> QED
      BY <1>1, <3>1, <3>2 DEF Lose, TypeOK, Link
  <2>3. latest' \in Masks \cup {None}
    <3>1. CASE UNCHANGED latest
      BY <3>1 DEF TypeOK
    <3>2. CASE uplink # <<>> /\ Head(uplink).kind = "tele"
               /\ latest' = Head(uplink).says
      <4>1. Head(uplink) \in Acks \cup Telemetry
        BY <3>2 DEF TypeOK
      <4> QED
        BY <3>2, <4>1 DEF Acks, Telemetry
    <3> QED
      BY <1>1, <3>1, <3>2 DEF Lose
  <2> QED
    BY <1>1, <2>1, <2>2, <2>3 DEF Lose, TypeOK, Link
<1>2. CASE HandleJsonFrame
  <2>1. downlink' \in Seq(Requests) /\ slot' \in Requests
    BY <1>2 DEF HandleJsonFrame, TypeOK
  <2> QED
    BY <1>2, <2>1 DEF HandleJsonFrame, TypeOK
<1>3. CASE ReportCommandAck
  <2>1. [kind |-> "ack", of |-> doing, says |-> answer] \in Acks
    BY <1>3 DEF ReportCommandAck, TypeOK, Acks
  <2>2. uplink' \in Link
    BY <1>3, <2>1, SendTyped DEF ReportCommandAck
  <2> QED
    BY <1>3, <2>2 DEF ReportCommandAck, TypeOK, Link, Results
<1>4. CASE Sample
  BY <1>4 DEF Sample, TypeOK, links
<1>5. CASE SendTelemetry
  <2>1. [kind |-> "tele", of |-> 0, says |-> sampled] \in Telemetry
    BY DEF TypeOK, Telemetry
  <2>2. uplink' \in Link
    BY <1>5, <2>1, SendTyped DEF SendTelemetry
  <2> QED
    BY <1>5, <2>2 DEF SendTelemetry, TypeOK, Link
<1> QED
  BY <1>1, <1>2, <1>3, <1>4, <1>5

LEMMA TakeTyped == TypeOK /\ TakeCommand => TypeOK'
<1> SUFFICES ASSUME TypeOK, TakeCommand  PROVE TypeOK'
  OBVIOUS
<1>1. slot \in Requests /\ doing' = slot /\ slot' = 0 /\ taken' \in Nat
  BY DEF TakeCommand, TypeOK
<1>2. answer' \in Results
  BY DEF TakeCommand, Results
<1>3. outputs' \in Masks /\ faults' \in 0..MaxFaults
  <2>1. CASE IsRelay(slot) /\ SetOutputMask(want[slot])
    BY <2>1, FaultTyped DEF IsRelay, SetOutputMask, TypeOK
  <2>2. CASE UNCHANGED <<outputs, faults>>
    BY <2>2 DEF TypeOK
  <2> QED
    BY <2>1, <2>2 DEF TakeCommand
<1> QED
  BY <1>1, <1>2, <1>3 DEF TakeCommand, TypeOK, app, view, posts, links

LEMMA OthersTyped == TypeOK /\ OthersSwitch => TypeOK'
<1> SUFFICES ASSUME TypeOK, OthersSwitch  PROVE TypeOK'
  OBVIOUS
<1>1. events' \in 0..MaxEvents
  BY HappensTyped DEF OthersSwitch, TypeOK
<1> QED
  BY <1>1 DEF OthersSwitch, TypeOK, app, view, posts, links

LEMMA NextTyped == TypeOK /\ [Next]_vars => TypeOK'
<1> SUFFICES ASSUME TypeOK, [Next]_vars  PROVE TypeOK'
  OBVIOUS
<1>1. CASE SetRelay
  BY <1>1, IssueTyped DEF SetRelay
<1>2. CASE SetUploadPeriod
  BY <1>2, IssueTyped DEF SetUploadPeriod
<1>3. CASE UNCHANGED vars
  BY <1>3 DEF vars, TypeOK, app, view, posts, links, device
<1> QED
  BY <1>1, <1>2, <1>3, RequestTyped, DeliverTyped, AppTyped, LinkTyped,
     TakeTyped, OthersTyped DEF Next

\* Every variable keeps its type; the count of pending commands stays between
\* none and all that were issued.
THEOREM CommandsTyped == Spec => []TypeOK
<1> QED
  BY InitTyped, NextTyped, PTL DEF Spec

(***************************************************************************)
(* The order of commands.                                                  *)
(***************************************************************************)
\* What is on its way to the controller is in the order of its numbers, and
\* newer than what the controller has taken.
Ordered ==
    /\ taken <= numbered
    /\ \A k \in DOMAIN downlink :
         taken < seq[downlink[k]] /\ seq[downlink[k]] <= numbered
    /\ \A j, k \in DOMAIN downlink :
         j < k => seq[downlink[j]] < seq[downlink[k]]
    /\ slot # 0 =>
         /\ taken < seq[slot] /\ seq[slot] <= numbered
         /\ \A k \in DOMAIN downlink : seq[slot] < seq[downlink[k]]

LEMMA InitOrdered == Init => Ordered
  BY DEF Init, Ordered

LEMMA OrderedKept ==
    ASSUME Ordered, UNCHANGED <<seq, numbered, downlink, slot, taken>>
    PROVE  Ordered'
  BY DEF Ordered

\* The first frame of a link, and the rest.
LEMMA TailOf ==
    ASSUME NEW S, NEW s \in Seq(S), s # <<>>
    PROVE  /\ 1 \in DOMAIN s /\ Head(s) = s[1]
           /\ \A k \in DOMAIN Tail(s) :
                /\ k \in Nat /\ k + 1 \in DOMAIN s /\ 1 < k + 1
                /\ Tail(s)[k] = s[k + 1]
  OBVIOUS

LEMMA OrderedReceive ==
    ASSUME TypeOK, Ordered, NEW i \in Requests, Receive(i)
    PROVE  Ordered'
<1>1. /\ downlink' = Append(downlink, i) /\ seq[i] = 0 /\ numbered \in Nat
      /\ numbered' = numbered + 1 /\ seq' = [seq EXCEPT ![i] = numbered + 1]
      /\ slot' = slot /\ taken' = taken /\ taken \in Nat
  BY DEF Receive, device, TypeOK
<1>2. /\ \A k \in DOMAIN downlink : downlink[k] \in Requests
      /\ DOMAIN downlink' = DOMAIN downlink \cup {Len(downlink) + 1}
      /\ \A k \in DOMAIN downlink :
           k \in Nat /\ k < Len(downlink) + 1 /\ downlink'[k] = downlink[k]
      /\ downlink'[Len(downlink) + 1] = i
      /\ Len(downlink) \in Nat
  BY <1>1 DEF TypeOK
<1>3. \A j \in Requests : /\ seq[j] \in Nat
                          /\ seq[j] > taken => seq'[j] = seq[j]
  BY <1>1 DEF TypeOK
<1>4. \A k \in DOMAIN downlink : seq'[downlink'[k]] = seq[downlink[k]]
  BY <1>2, <1>3 DEF Ordered
<1>5. seq'[i] = numbered + 1
  BY <1>1 DEF TypeOK
<1>6. \A k \in DOMAIN downlink :
        seq[downlink[k]] \in Nat /\ seq[downlink[k]] <= numbered
        /\ taken < seq[downlink[k]]
  BY <1>2, <1>3 DEF Ordered
<1>7. /\ taken' <= numbered'
      /\ \A k \in DOMAIN downlink' :
           taken' < seq'[downlink'[k]] /\ seq'[downlink'[k]] <= numbered'
  BY <1>1, <1>2, <1>4, <1>5, <1>6 DEF Ordered
<1>8. ASSUME NEW j \in DOMAIN downlink', NEW k \in DOMAIN downlink', j < k
      PROVE  seq'[downlink'[j]] < seq'[downlink'[k]]
  <2>1. j \in DOMAIN downlink
    BY <1>2, <1>8
  <2>2. CASE k \in DOMAIN downlink
    BY <1>4, <1>8, <2>1, <2>2 DEF Ordered
  <2>3. CASE k = Len(downlink) + 1
    BY <1>1, <1>2, <1>4, <1>5, <1>6, <2>1, <2>3
  <2> QED
    BY <1>2, <2>2, <2>3
<1>9. slot' # 0 => /\ taken' < seq'[slot'] /\ seq'[slot'] <= numbered'
                   /\ \A k \in DOMAIN downlink' : seq'[slot'] < seq'[downlink'[k]]
  <2> SUFFICES ASSUME slot # 0
               PROVE  /\ taken < seq'[slot] /\ seq'[slot] <= numbered'
                      /\ \A k \in DOMAIN downlink' :
                           seq'[slot] < seq'[downlink'[k]]
    BY <1>1
  <2>1. seq'[slot] = seq[slot] /\ seq[slot] \in Nat /\ seq[slot] <= numbered
    BY <1>3 DEF Ordered, TypeOK
  <2> QED
    BY <1>1, <1>2, <1>4, <1>5, <2>1 DEF Ordered
<1> QED
  BY <1>7, <1>8, <1>9 DEF Ordered

LEMMA OrderedTail ==
    ASSUME TypeOK, Ordered, downlink # <<>>, downlink' = Tail(downlink),
           UNCHANGED <<seq, numbered, taken>>,
           slot' = slot \/ slot' = Head(downlink)
    PROVE  Ordered'
<1>1. /\ 1 \in DOMAIN downlink /\ Head(downlink) = downlink[1]
      /\ \A k \in DOMAIN downlink' :
           /\ k \in Nat /\ k + 1 \in DOMAIN downlink /\ 1 < k + 1
           /\ downlink'[k] = downlink[k + 1]
  BY TailOf DEF TypeOK
<1>2. \A k \in DOMAIN downlink' :
        taken < seq[downlink'[k]] /\ seq[downlink'[k]] <= numbered
  BY <1>1 DEF Ordered
<1>3. \A j, k \in DOMAIN downlink' :
        j < k => seq[downlink'[j]] < seq[downlink'[k]]
  BY <1>1 DEF Ordered
<1>4. \A k \in DOMAIN downlink' : seq[downlink[1]] < seq[downlink'[k]]
  BY <1>1 DEF Ordered
<1>5. slot' # 0 => /\ taken < seq[slot'] /\ seq[slot'] <= numbered
                   /\ \A k \in DOMAIN downlink' : seq[slot'] < seq[downlink'[k]]
  <2>1. CASE slot' = slot
    BY <1>1, <2>1 DEF Ordered
  <2>2. CASE slot' = Head(downlink)
    BY <1>1, <1>4, <2>2 DEF Ordered
  <2> QED
    BY <2>1, <2>2
<1> QED
  BY <1>2, <1>3, <1>5 DEF Ordered

LEMMA OrderedTake ==
    ASSUME TypeOK, Ordered, TakeCommand
    PROVE  Ordered'
  BY DEF TakeCommand, Ordered, posts, links

LEMMA NextOrdered == TypeOK /\ Ordered /\ [Next]_vars => Ordered'
<1> SUFFICES ASSUME TypeOK, Ordered, [Next]_vars  PROVE Ordered'
  OBVIOUS
<1> USE DEF posts, links, device
<1>1. CASE SetRelay \/ SetUploadPeriod
  BY <1>1, OrderedKept DEF SetRelay, SetUploadPeriod, Issue
<1>2. ASSUME NEW i \in Requests,
             Answered(i) \/ PostFails(i) \/ Timeout(i) \/ Finish(i)
      PROVE  Ordered'
  BY <1>2, OrderedKept DEF Answered, PostFails, Timeout, Finish
<1>3. ASSUME NEW i \in Requests, Receive(i)  PROVE Ordered'
  BY <1>3, OrderedReceive
<1>4. CASE Deliver \/ Hello \/ RefreshServerSnapshot \/ FetchLatest \/ Logout
           \/ Login
  BY <1>4, OrderedKept DEF Deliver, Hello, RefreshServerSnapshot, FetchLatest,
     Logout, Login
<1>5. CASE Lose
  BY <1>5, OrderedKept, OrderedTail DEF Lose
<1>6. CASE HandleJsonFrame
  BY <1>6, OrderedTail DEF HandleJsonFrame
<1>7. CASE TakeCommand
  BY <1>7, OrderedTake
<1>8. CASE ReportCommandAck \/ Sample \/ SendTelemetry \/ OthersSwitch
  BY <1>8, OrderedKept DEF ReportCommandAck, Sample, SendTelemetry, OthersSwitch
<1>9. CASE UNCHANGED vars
  BY <1>9, OrderedKept DEF vars
<1> QED
  BY <1>1, <1>2, <1>3, <1>4, <1>5, <1>6, <1>7, <1>8, <1>9 DEF Next

\* Only taking a command sets it going, and it is newer than the last.
LEMMA TakesNewer ==
    TypeOK /\ Ordered /\ [Next]_vars /\ doing = 0 /\ doing' # 0 => taken' > taken
<1> SUFFICES ASSUME TypeOK, Ordered, Next, doing = 0, doing' # 0
             PROVE  taken' > taken
  BY DEF vars, device
<1>1. TakeCommand
  BY DEF Next, SetRelay, SetUploadPeriod, Issue, Answered, PostFails, Timeout,
     Finish, Receive, Deliver, Hello, RefreshServerSnapshot, FetchLatest, Logout,
     Login, Lose, HandleJsonFrame, ReportCommandAck, Sample, SendTelemetry,
     OthersSwitch, device
<1> QED
  BY <1>1 DEF TakeCommand, Ordered, TypeOK

\* The controller carries out no command twice and none after a newer one.
THEOREM CommandsInOrder == Spec => TakenInOrder
<1>1. Spec => [](TypeOK /\ Ordered)
  BY InitTyped, InitOrdered, NextTyped, NextOrdered, PTL DEF Spec
<1>2. TypeOK /\ Ordered /\ [Next]_vars =>
        [doing = 0 /\ doing' # 0 => taken' > taken]_vars
  BY TakesNewer
<1> QED
  BY <1>1, <1>2, PTL DEF Spec, TakenInOrder
=============================================================================
