--------------------------- MODULE AppThreads_proofs ---------------------------
(***************************************************************************)
(* Proofs about AppThreads for every number of channels, size of mailbox   *)
(* and number of samples: a toggle inverts its channel, an input does not  *)
(* toggle more often than it rises, and a confirmation follows enough      *)
(* healthy samples.                                                        *)
(***************************************************************************)
EXTENDS AppThreads, TLAPS

\* A thread between the two transactions of a toggle holds the mutex, and
\* what it has read still holds.
Locked == \A t \in Threads :
            ch[t] # 0 => holder = t /\ (was[t] <=> ch[t] \in outputs)

\* An input that is on and not yet taken as on has risen once more than it
\* has toggled its output.
Credited == \A c \in Channels :
    /\ toggles[c] <= edges[c]
    /\ diInit /\ c \in inputs /\ c \notin stable => toggles[c] + 1 <= edges[c]

\* What is counted, and what is in the mailbox, has been posted.
Counted == /\ Capped(healthy + good) <= posted
           /\ confirmed => posted >= MinHealthy

(***************************************************************************)
(* Typing.                                                                 *)
(***************************************************************************)
\* What is typed of the bus.
BusTyped == /\ outputs \in SUBSET Channels /\ faults \in 0..MaxFaults
            /\ todo \in [Threads -> SUBSET Channels]
            /\ ch \in [Threads -> 0..C] /\ was \in [Threads -> BOOLEAN]
            /\ holder \in Threads \cup {"none"}

LEMMA InitTyped == Init => TypeOK
<1> SUFFICES ASSUME Init  PROVE TypeOK
  OBVIOUS
<1>1. /\ ctrl \in 0..NoCtrl /\ lastCtrl \in 0..NoCtrl
      /\ events \in 0..MaxEvents /\ faults \in 0..MaxFaults
      /\ healthy \in 0..MinHealthy /\ posted \in 0..MinHealthy
      /\ good \in Nat /\ bad \in Nat /\ good + bad <= MailSize
  BY ChannelsAssumption, BoundsAssumption DEF Init, NoCtrl
<1>2. /\ todo \in [Threads -> SUBSET Channels] /\ was \in [Threads -> BOOLEAN]
      /\ edges \in [Channels -> Nat] /\ toggles \in [Channels -> Nat]
  BY DEF Init
<1>3. ch \in [Threads -> 0..C]
  BY ChannelsAssumption DEF Init
<1>4. pc \in [Threads -> {"keys", "ctrl", "bits", "process", "confirm",
                         "start", "first", "sample", "coils", "inputs", "post"}]
  BY DEF Init
<1> QED
  BY <1>1, <1>2, <1>3, <1>4 DEF Init, TypeOK

LEMMA FailsTyped == faults \in 0..MaxFaults /\ Fails => faults' \in 0..MaxFaults
  BY BoundsAssumption DEF Fails

LEMMA CappedTyped == \A n \in Nat : Capped(n) \in 0..MinHealthy /\ Capped(n) <= n
  BY BoundsAssumption DEF Capped

LEMMA WriteMaskTyped ==
    ASSUME BusTyped, NEW mask \in SUBSET Channels, WriteMask(mask)
    PROVE  BusTyped'
  BY FailsTyped DEF BusTyped, WriteMask

LEMMA TogglesTyped ==
    ASSUME BusTyped, NEW t \in Threads, NEW cs \in SUBSET Channels,
           Toggles(t, cs)
    PROVE  BusTyped'
  BY DEF BusTyped, Toggles

LEMMA ToggleTyped ==
    ASSUME BusTyped, NEW t \in Threads, Toggle(t)
    PROVE  BusTyped'
<1>1. ASSUME NEW c \in Channels, ToggleRead(t, c)  PROVE BusTyped'
  BY <1>1, ChannelsAssumption DEF BusTyped, ToggleRead, Channels
<1>2. ASSUME NEW c \in Channels, ToggleFails(t, c)  PROVE BusTyped'
  BY <1>2, FailsTyped DEF BusTyped, ToggleFails
<1>3. ASSUME ToggleWrite(t)  PROVE BusTyped'
  <2>1. faults' \in 0..MaxFaults
    BY <1>3, FailsTyped DEF BusTyped, ToggleWrite
  <2>2. outputs' \in SUBSET Channels
    <3>1. ch[t] \in Channels
      BY <1>3, ChannelsAssumption DEF BusTyped, ToggleWrite, Channels
    <3>2. \/ outputs' = outputs \/ outputs' = outputs \ {ch[t]}
          \/ outputs' = outputs \cup {ch[t]}
      BY <1>3 DEF ToggleWrite
    <3> QED
      BY <3>1, <3>2 DEF BusTyped
  <2> QED
    BY <1>3, <2>1, <2>2, ChannelsAssumption DEF BusTyped, ToggleWrite
<1> QED
  BY <1>1, <1>2, <1>3 DEF Toggle

LEMMA GoesTyped ==
    ASSUME TypeOK, NEW t \in Threads,
           NEW p \in {"keys", "ctrl", "bits", "process", "confirm",
                      "start", "first", "sample", "coils", "inputs", "post"},
           Goes(t, p)
    PROVE  pc' \in [Threads -> {"keys", "ctrl", "bits", "process", "confirm",
                         "start", "first", "sample", "coils", "inputs", "post"}]
  BY DEF TypeOK, Goes

LEMMA MaintTyped == TypeOK /\ MaintThread => TypeOK'
<1> SUFFICES ASSUME TypeOK, MaintThread  PROVE TypeOK'
  OBVIOUS
<1> USE DEF world, regs, bus, mail, maint, sensor
<1>0. BusTyped /\ "maint" \in Threads
  BY DEF TypeOK, BusTyped, Threads
<1>1. CASE HandleKeys
  <2>1. BusTyped'
    <3>1. (IF keyInit /\ shared THEN down \ keyLast ELSE {}) \in SUBSET Channels
      BY ChannelsAssumption DEF TypeOK
    <3> QED
      BY <1>0, <1>1, <3>1, TogglesTyped DEF HandleKeys
  <2> QED
    BY <1>0, <1>1, <2>1, GoesTyped DEF HandleKeys, TypeOK, BusTyped
<1>2. CASE HandleRelayCtrl
  <2>1. BusTyped'
    <3>1. CASE WriteMask({})
      BY <1>0, <3>1, WriteMaskTyped
    <3>2. CASE ctrl \in Channels /\ Toggles("maint", {ctrl})
      <4>1. {ctrl} \in SUBSET Channels
        BY <3>2
      <4> QED
        BY <1>0, <3>2, <4>1, TogglesTyped
    <3>3. CASE UNCHANGED bus
      BY <1>0, <3>3 DEF BusTyped
    <3> QED
      BY <1>2, <3>1, <3>2, <3>3 DEF HandleRelayCtrl
  <2> QED
    BY <1>0, <1>2, <2>1, GoesTyped DEF HandleRelayCtrl, TypeOK, BusTyped
<1>3. CASE HandleRelayBits
  <2>1. BusTyped'
    <3>1. CASE WriteMask(bits)
      BY <1>0, <3>1, WriteMaskTyped DEF TypeOK
    <3>2. CASE UNCHANGED bus
      BY <1>0, <3>2 DEF BusTyped
    <3> QED
      BY <1>3, <3>1, <3>2 DEF HandleRelayBits
  <2> QED
    BY <1>0, <1>3, <2>1, GoesTyped DEF HandleRelayBits, TypeOK, BusTyped
<1>4. CASE Process
  <2>1. events' \in 0..MaxEvents
    BY <1>4, BoundsAssumption DEF Process, TypeOK
  <2>2. /\ ctrl' \in 0..NoCtrl /\ bits' \in SUBSET Channels
        /\ active' \in BOOLEAN
    BY <1>4 DEF Process, TypeOK
  <2>3. pc' \in [Threads -> {"keys", "ctrl", "bits", "process", "confirm",
                         "start", "first", "sample", "coils", "inputs", "post"}]
    BY <1>0, <1>4, GoesTyped DEF Process
  <2> QED
    BY <1>4, <2>1, <2>2, <2>3 DEF Process, TypeOK
<1>5. CASE TryConfirmRunningSlot
  <2>1. faults' \in 0..MaxFaults /\ confirmed' \in BOOLEAN /\ waiting' \in BOOLEAN
    BY <1>5, FailsTyped DEF TryConfirmRunningSlot, TypeOK
  <2>2. healthy' \in 0..MinHealthy
    BY <1>5, CappedTyped DEF TryConfirmRunningSlot, Drained, TypeOK
  <2>3. good' + bad' <= MailSize
    BY <1>5, BoundsAssumption DEF TryConfirmRunningSlot
  <2> QED
    BY <1>0, <1>5, <2>1, <2>2, <2>3, GoesTyped DEF TryConfirmRunningSlot, TypeOK
<1>6. CASE Toggle("maint")
  <2>1. BusTyped'
    BY <1>0, <1>6, ToggleTyped
  <2>2. Elsewhere
    BY <1>6 DEF Toggle, ToggleRead, ToggleFails, ToggleWrite
  <2> QED
    BY <2>1, <2>2 DEF TypeOK, BusTyped, Elsewhere
<1> QED
  BY <1>1, <1>2, <1>3, <1>4, <1>5, <1>6 DEF MaintThread

LEMMA SensorTyped == TypeOK /\ SensorThread => TypeOK'
<1> SUFFICES ASSUME TypeOK, SensorThread  PROVE TypeOK'
  OBVIOUS
<1> USE DEF world, regs, bus, mail, maint, sensor
<1>0. BusTyped /\ "sensor" \in Threads
  BY DEF TypeOK, BusTyped, Threads
<1>1. CASE AllOff
  <2>1. BusTyped'
    BY <1>0, <1>1, WriteMaskTyped DEF AllOff
  <2> QED
    BY <1>0, <1>1, <2>1, GoesTyped DEF AllOff, TypeOK, BusTyped
<1>2. ASSUME NEW p \in {"sample", "inputs"}, ReadAllCoils(p)  PROVE TypeOK'
  <2>1. /\ faults' \in 0..MaxFaults /\ do' \in SUBSET Channels
        /\ answered' \in BOOLEAN
    BY <1>2, FailsTyped DEF ReadAllCoils, TypeOK
  <2>2. Goes("sensor", p)
    BY <1>2 DEF ReadAllCoils
  <2> QED
    BY <1>0, <1>2, <2>1, <2>2, GoesTyped DEF ReadAllCoils, TypeOK
<1>3. CASE Sample
  <2>1. faults' \in 0..MaxFaults /\ answered' \in BOOLEAN
    BY <1>3, FailsTyped DEF Sample, TypeOK
  <2> QED
    BY <1>0, <1>3, <2>1, GoesTyped DEF Sample, TypeOK
<1>4. CASE InputsFail
  <2>1. faults' \in 0..MaxFaults
    BY <1>4, FailsTyped DEF InputsFail, TypeOK
  <2> QED
    BY <1>0, <1>4, <2>1, GoesTyped DEF InputsFail, TypeOK
<1>5. CASE FirstInputs
  BY <1>0, <1>5, GoesTyped DEF FirstInputs, TypeOK
<1>6. CASE HandleRelayInputs
  <2>1. PICK settled \in SUBSET Channels :
          LET risen == (settled \cap inputs) \ stable IN
          /\ stable' = (stable \ settled) \cup (settled \cap inputs)
          /\ Toggles("sensor", IF shared THEN risen ELSE {})
          /\ toggles' = [c \in Channels |->
                           IF shared /\ c \in risen THEN toggles[c] + 1
                                                    ELSE toggles[c]]
    BY <1>6 DEF HandleRelayInputs
  <2>2. BusTyped'
    <3>1. (IF shared THEN (settled \cap inputs) \ stable ELSE {})
            \in SUBSET Channels
      OBVIOUS
    <3> QED
      BY <1>0, <2>1, <3>1, TogglesTyped
  <2>3. toggles' \in [Channels -> Nat]
    BY <2>1 DEF TypeOK
  <2>4. stable' \in SUBSET Channels /\ lastRaw' \in SUBSET Channels
    BY <1>6, <2>1 DEF TypeOK, HandleRelayInputs
  <2> QED
    BY <1>0, <1>6, <2>2, <2>3, <2>4, GoesTyped
    DEF HandleRelayInputs, TypeOK, BusTyped
<1>7. CASE Post
  <2>1. good' \in Nat /\ bad' \in Nat /\ good' + bad' <= MailSize
    BY <1>7, BoundsAssumption DEF Post, TypeOK
  <2>2. posted' \in 0..MinHealthy
    BY <1>7, CappedTyped DEF Post, TypeOK
  <2> QED
    BY <1>0, <1>7, <2>1, <2>2, GoesTyped DEF Post, TypeOK
<1>8. CASE Toggle("sensor")
  <2>1. BusTyped'
    BY <1>0, <1>8, ToggleTyped
  <2>2. Elsewhere
    BY <1>8 DEF Toggle, ToggleRead, ToggleFails, ToggleWrite
  <2> QED
    BY <2>1, <2>2 DEF TypeOK, BusTyped, Elsewhere
<1> QED
  BY <1>1, <1>2, <1>3, <1>4, <1>5, <1>6, <1>7, <1>8
  DEF SensorThread, FirstRead, ReadCoils

LEMMA EventTyped == TypeOK /\ Event => TypeOK'
<1> SUFFICES ASSUME TypeOK, Event  PROVE TypeOK'
  OBVIOUS
<1>1. events' \in 0..MaxEvents
  BY BoundsAssumption DEF Event, TypeOK
<1>2. /\ down' \in SUBSET Keys /\ inputs' \in SUBSET Channels
      /\ edges' \in [Channels -> Nat]
  BY DEF Event, TypeOK
<1> QED
  BY <1>1, <1>2 DEF Event, TypeOK, regs, bus, mail, maint, sensor

LEMMA NextTyped == TypeOK /\ [Next]_vars => TypeOK'
<1> SUFFICES ASSUME TypeOK, [Next]_vars  PROVE TypeOK'
  OBVIOUS
<1>1. CASE TimePasses
  BY <1>1 DEF TimePasses, TypeOK, world, regs, bus, mail, sensor
<1>2. CASE UNCHANGED vars
  BY <1>2 DEF vars, TypeOK, world, regs, bus, mail, maint, sensor
<1> QED
  BY <1>1, <1>2, MaintTyped, SensorTyped, EventTyped DEF Next

\* Every variable keeps its type and the mailbox its size.
THEOREM ThreadsTyped == Spec => []TypeOK
<1> QED
  BY InitTyped, NextTyped, PTL DEF Spec

(***************************************************************************)
(* A toggle.                                                               *)
(***************************************************************************)
LEMMA InitLocked == Init => Locked
  BY DEF Init, Locked

\* What neither switches outputs nor touches the lock keeps Locked.
LEMMA LockedKept ==
    ASSUME Locked, UNCHANGED <<outputs, ch, was, holder>>
    PROVE  Locked'
  BY DEF Locked

\* Others write only while nobody is toggling.
LEMMA LockedFree ==
    ASSUME TypeOK, Locked, holder = "none", UNCHANGED <<ch, was, holder>>
    PROVE  Locked'
  BY DEF Locked, Threads

LEMMA LockedToggle ==
    ASSUME TypeOK, Locked, NEW t \in Threads, Toggle(t)
    PROVE  Locked'
<1>1. ASSUME NEW c \in Channels, ToggleRead(t, c)  PROVE Locked'
  <2>1. holder = "none" /\ holder' = t /\ outputs' = outputs
    BY <1>1 DEF ToggleRead, Turn
  <2>2. \A s \in Threads : s # t => ch'[s] = 0
    BY <1>1, <2>1 DEF ToggleRead, Locked, Threads, TypeOK
  <2>3. ch'[t] = c /\ (was'[t] <=> c \in outputs)
    BY <1>1 DEF ToggleRead, TypeOK
  <2> QED
    BY <2>1, <2>2, <2>3 DEF Locked
<1>2. ASSUME NEW c \in Channels, ToggleFails(t, c)  PROVE Locked'
  BY <1>2, LockedKept DEF ToggleFails
<1>3. ASSUME ToggleWrite(t)  PROVE Locked'
  <2>1. holder = t
    BY <1>3 DEF ToggleWrite, Locked
  <2>2. \A s \in Threads : ch'[s] = 0
    BY <1>3, <2>1 DEF ToggleWrite, Locked, TypeOK
  <2> QED
    BY <2>2 DEF Locked
<1> QED
  BY <1>1, <1>2, <1>3 DEF Toggle

LEMMA NextLocked == TypeOK /\ Locked /\ [Next]_vars => Locked'
<1> SUFFICES ASSUME TypeOK, Locked, [Next]_vars  PROVE Locked'
  OBVIOUS
<1> USE DEF bus
<1>1. CASE MaintThread
  <2>1. CASE HandleKeys
    BY <2>1, LockedKept DEF HandleKeys, Toggles
  <2>2. CASE HandleRelayCtrl
    <3>1. CASE WriteMask({})
      BY <3>1, LockedFree DEF WriteMask
    <3>2. CASE Toggles("maint", {ctrl}) \/ UNCHANGED bus
      BY <3>2, LockedKept DEF Toggles
    <3> QED
      BY <2>2, <3>1, <3>2 DEF HandleRelayCtrl
  <2>3. CASE HandleRelayBits
    <3>1. CASE WriteMask(bits)
      BY <3>1, LockedFree DEF WriteMask
    <3>2. CASE UNCHANGED bus
      BY <3>2, LockedKept
    <3> QED
      BY <2>3, <3>1, <3>2 DEF HandleRelayBits
  <2>4. CASE Process
    BY <2>4, LockedKept DEF Process
  <2>5. CASE TryConfirmRunningSlot
    BY <2>5, LockedKept DEF TryConfirmRunningSlot
  <2>6. CASE Toggle("maint")
    BY <2>6, LockedToggle DEF Threads
  <2> QED
    BY <1>1, <2>1, <2>2, <2>3, <2>4, <2>5, <2>6 DEF MaintThread
<1>2. CASE SensorThread
  <2>1. CASE AllOff
    BY <2>1, LockedFree DEF AllOff, WriteMask
  <2>2. CASE FirstRead \/ ReadCoils
    BY <2>2, LockedKept DEF FirstRead, ReadCoils, ReadAllCoils
  <2>3. CASE Sample \/ InputsFail
    BY <2>3, LockedKept DEF Sample, InputsFail
  <2>4. CASE FirstInputs \/ Post
    BY <2>4, LockedKept DEF FirstInputs, Post
  <2>5. CASE HandleRelayInputs
    BY <2>5, LockedKept DEF HandleRelayInputs, Toggles
  <2>6. CASE Toggle("sensor")
    BY <2>6, LockedToggle DEF Threads
  <2> QED
    BY <1>2, <2>1, <2>2, <2>3, <2>4, <2>5, <2>6 DEF SensorThread
<1>3. CASE TimePasses \/ Event
  BY <1>3, LockedKept DEF TimePasses, Event
<1>4. CASE UNCHANGED vars
  BY <1>4, LockedKept DEF vars
<1> QED
  BY <1>1, <1>2, <1>3, <1>4 DEF Next

LEMMA WriteInverts ==
    TypeOK /\ Locked =>
      \A t \in Threads : ToggleWrite(t) /\ faults' = faults =>
                          outputs' = Flip(ch[t])
<1> SUFFICES ASSUME TypeOK, Locked, NEW t \in Threads, ToggleWrite(t),
                    faults' = faults
             PROVE  outputs' = Flip(ch[t])
  OBVIOUS
<1>1. outputs' = IF was[t] THEN outputs \ {ch[t]} ELSE outputs \cup {ch[t]}
  BY DEF ToggleWrite, Fails, TypeOK
<1>2. was[t] <=> ch[t] \in outputs
  BY DEF ToggleWrite, Locked
<1> QED
  BY <1>1, <1>2 DEF Flip

\* A toggle that the board carries out inverts the channel as it is at that
\* moment, whatever the other thread does meanwhile.
THEOREM TogglesAreAtomic == Spec => ToggleInverts
<1>1. Spec => [](TypeOK /\ Locked)
  BY InitTyped, InitLocked, NextTyped, NextLocked, PTL DEF Spec
<1>2. TypeOK /\ Locked /\ [Next]_vars =>
        [\A t \in Threads : ToggleWrite(t) /\ faults' = faults =>
             outputs' = Flip(ch[t])]_vars
  BY WriteInverts
<1> QED
  BY <1>1, <1>2, PTL DEF Spec, ToggleInverts

(***************************************************************************)
(* Inputs.                                                                 *)
(***************************************************************************)
LEMMA InitCredited == Init => Credited
  BY DEF Init, Credited

LEMMA CreditedKept ==
    ASSUME Credited, UNCHANGED <<inputs, edges, toggles, diInit, stable>>
    PROVE  Credited'
  BY DEF Credited

LEMMA CreditedInputs ==
    ASSUME TypeOK, Credited, HandleRelayInputs
    PROVE  Credited'
<1>1. PICK settled \in SUBSET {c \in Channels : c \in inputs <=> c \in lastRaw} :
        LET risen == (settled \cap inputs) \ stable IN
        /\ stable' = (stable \ settled) \cup (settled \cap inputs)
        /\ toggles' = [c \in Channels |->
                         IF shared /\ c \in risen THEN toggles[c] + 1
                                                  ELSE toggles[c]]
  BY DEF HandleRelayInputs
<1>2. UNCHANGED <<inputs, edges>> /\ diInit
  BY DEF HandleRelayInputs, world
<1> SUFFICES ASSUME NEW c \in Channels
             PROVE  /\ toggles'[c] <= edges[c]
                    /\ c \in inputs /\ c \notin stable' =>
                         toggles'[c] + 1 <= edges[c]
  BY <1>2 DEF Credited
<1>3. toggles[c] \in Nat /\ edges[c] \in Nat
  BY DEF TypeOK
<1>4. CASE c \in (settled \cap inputs) \ stable
  BY <1>1, <1>2, <1>3, <1>4 DEF Credited
<1>5. CASE c \notin (settled \cap inputs) \ stable
  <2>1. toggles'[c] = toggles[c]
    BY <1>1, <1>5
  <2>2. c \in inputs /\ c \notin stable' => c \notin stable
    BY <1>1, <1>5
  <2> QED
    BY <1>2, <2>1, <2>2 DEF Credited
<1> QED
  BY <1>4, <1>5

LEMMA CreditedEvent ==
    ASSUME TypeOK, Credited, Event
    PROVE  Credited'
<1>0. UNCHANGED <<toggles, diInit, stable>>
  BY DEF Event, sensor
<1> SUFFICES ASSUME NEW c \in Channels
             PROVE  /\ toggles[c] <= edges'[c]
                    /\ diInit /\ c \in inputs' /\ c \notin stable =>
                         toggles[c] + 1 <= edges'[c]
  BY <1>0 DEF Credited
<1>1. toggles[c] \in Nat /\ edges[c] \in Nat
  BY DEF TypeOK
<1>2. CASE UNCHANGED <<inputs, edges>>
  BY <1>2 DEF Credited
<1>3. ASSUME NEW d \in Channels,
             inputs' = (inputs \ {d}) \cup ({d} \ inputs),
             edges' = IF d \in inputs THEN edges
                      ELSE [edges EXCEPT ![d] = @ + 1]
      PROVE  /\ toggles[c] <= edges'[c]
             /\ diInit /\ c \in inputs' /\ c \notin stable =>
                  toggles[c] + 1 <= edges'[c]
  <2>1. CASE c = d
    BY <1>1, <1>3, <2>1 DEF Credited, TypeOK
  <2>2. CASE c # d
    <3>1. edges'[c] = edges[c] /\ (c \in inputs' <=> c \in inputs)
      BY <1>3, <2>2 DEF TypeOK
    <3> QED
      BY <3>1 DEF Credited
  <2> QED
    BY <2>1, <2>2
<1> QED
  BY <1>2, <1>3 DEF Event

LEMMA NextCredited == TypeOK /\ Credited /\ [Next]_vars => Credited'
<1> SUFFICES ASSUME TypeOK, Credited, [Next]_vars  PROVE Credited'
  OBVIOUS
<1> USE DEF world, sensor
<1>1. CASE MaintThread
  <2>1. UNCHANGED <<inputs, edges, toggles, diInit, stable>>
    BY <1>1 DEF MaintThread, HandleKeys, HandleRelayCtrl, HandleRelayBits,
       Process, TryConfirmRunningSlot, Toggle, ToggleRead, ToggleFails,
       ToggleWrite, Elsewhere
  <2> QED
    BY <2>1, CreditedKept
<1>2. CASE HandleRelayInputs
  BY <1>2, CreditedInputs
<1>3. CASE FirstInputs
  BY <1>3 DEF FirstInputs, Credited
<1>4. CASE AllOff \/ FirstRead \/ Sample \/ ReadCoils \/ InputsFail \/ Post
           \/ Toggle("sensor")
  <2>1. UNCHANGED <<inputs, edges, toggles, diInit, stable>>
    BY <1>4 DEF AllOff, FirstRead, ReadCoils, ReadAllCoils, Sample, InputsFail,
       Post, Toggle, ToggleRead, ToggleFails, ToggleWrite, Elsewhere
  <2> QED
    BY <2>1, CreditedKept
<1>5. CASE TimePasses
  BY <1>5, CreditedKept DEF TimePasses
<1>6. CASE Event
  BY <1>6, CreditedEvent
<1>7. CASE UNCHANGED vars
  BY <1>7, CreditedKept DEF vars
<1> QED
  BY <1>1, <1>2, <1>3, <1>4, <1>5, <1>6, <1>7 DEF Next, SensorThread

\* An input toggles its output at most once for every time it rose.
THEOREM InputsToggleOnce == Spec => []InputTogglesOnce
<1>1. Spec => [](TypeOK /\ Credited)
  BY InitTyped, InitCredited, NextTyped, NextCredited, PTL DEF Spec
<1>2. Credited => InputTogglesOnce
  BY DEF Credited, InputTogglesOnce
<1> QED
  BY <1>1, <1>2, PTL

(***************************************************************************)
(* Confirmation.                                                           *)
(***************************************************************************)
LEMMA InitCounted == Init => Counted
  BY BoundsAssumption DEF Init, Counted, Capped

LEMMA CountedKept ==
    ASSUME Counted, UNCHANGED <<healthy, good, posted, confirmed>>
    PROVE  Counted'
  BY DEF Counted, Capped

LEMMA CountedConfirm ==
    ASSUME TypeOK, Counted, TryConfirmRunningSlot
    PROVE  Counted'
<1> DEFINE n == healthy + good
<1>1. /\ healthy' = Capped(n) /\ good' = 0 /\ posted' = posted
      /\ n \in Nat /\ posted \in Nat
  BY BoundsAssumption
  DEF TryConfirmRunningSlot, Drained, sensor, TypeOK
<1>2. Capped(Capped(n)) = Capped(n)
  BY <1>1, BoundsAssumption DEF Capped
<1>3. confirmed' => confirmed \/ Capped(n) >= MinHealthy
  BY DEF TryConfirmRunningSlot, Drained
<1>4. Capped(n) \in Nat
  BY <1>1, BoundsAssumption DEF Capped
<1>5. Capped(healthy' + good') <= posted'
  <2>1. healthy' + good' = Capped(n)
    BY <1>1, <1>4
  <2> QED
    BY <1>1, <1>2, <2>1 DEF Counted
<1>6. confirmed' => posted' >= MinHealthy
  BY <1>1, <1>3, <1>4, BoundsAssumption DEF Counted
<1> QED
  BY <1>5, <1>6 DEF Counted, Capped

LEMMA CountedPost ==
    ASSUME TypeOK, Counted, Post
    PROVE  Counted'
<1>1. UNCHANGED <<healthy, confirmed>>
  BY DEF Post, maint
<1>2. healthy \in Nat /\ good \in Nat /\ posted \in 0..MinHealthy
  BY BoundsAssumption DEF TypeOK
<1>3. CASE answered
  <2>1. posted' = Capped(posted + 1) /\ (good' = good \/ good' = good + 1)
    BY <1>3 DEF Post, mail
  <2> QED
    BY <1>1, <1>2, <2>1, BoundsAssumption DEF Counted, Capped
<1>4. CASE ~answered
  BY <1>1, <1>4, CountedKept DEF Post, mail
<1> QED
  BY <1>3, <1>4

LEMMA NextCounted == TypeOK /\ Counted /\ [Next]_vars => Counted'
<1> SUFFICES ASSUME TypeOK, Counted, [Next]_vars  PROVE Counted'
  OBVIOUS
<1> USE DEF mail, maint, sensor
<1>1. CASE TryConfirmRunningSlot
  BY <1>1, CountedConfirm
<1>2. CASE Post
  BY <1>2, CountedPost
<1>3. CASE HandleKeys \/ HandleRelayCtrl \/ HandleRelayBits \/ Process
           \/ Toggle("maint") \/ TimePasses \/ Event
  <2>1. UNCHANGED <<healthy, good, posted, confirmed>>
    BY <1>3 DEF HandleKeys, HandleRelayCtrl, HandleRelayBits, Process, Toggle,
       ToggleRead, ToggleFails, ToggleWrite, Elsewhere, TimePasses, Event
  <2> QED
    BY <2>1, CountedKept
<1>4. CASE AllOff \/ FirstRead \/ Sample \/ ReadCoils \/ InputsFail
           \/ FirstInputs \/ HandleRelayInputs \/ Toggle("sensor")
  <2>1. UNCHANGED <<healthy, good, posted, confirmed>>
    BY <1>4 DEF AllOff, FirstRead, ReadCoils, ReadAllCoils, Sample, InputsFail,
       FirstInputs, HandleRelayInputs, Toggle, ToggleRead, ToggleFails,
       ToggleWrite, Elsewhere
  <2> QED
    BY <2>1, CountedKept
<1>5. CASE UNCHANGED vars
  BY <1>5, CountedKept DEF vars
<1> QED
  BY <1>1, <1>2, <1>3, <1>4, <1>5 DEF Next, MaintThread, SensorThread

\* A slot is confirmed only after enough samples in which a device answered.
THEOREM ConfirmationIsEarned == Spec => []ConfirmedAfterHealth
<1>1. Spec => [](TypeOK /\ Counted)
  BY InitTyped, InitCounted, NextTyped, NextCounted, PTL DEF Spec
<1>2. Counted => ConfirmedAfterHealth
  BY DEF Counted, ConfirmedAfterHealth
<1> QED
  BY <1>1, <1>2, PTL
=============================================================================
