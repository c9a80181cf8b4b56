------------------------------ MODULE AppThreads ------------------------------
(***************************************************************************)
(* The two threads of the application that share the relay board           *)
(* (app_threads.c, Relay.c, BusService.c).  The maintenance thread obeys   *)
(* the keys and the relay registers of the cloud and decides when the      *)
(* running slot is confirmed; the sensor thread samples the devices,       *)
(* toggles an output on every rise of its input, and posts what answered.  *)
(*                                                                         *)
(* A transaction on the bus is one step while the mutex is free; a toggle  *)
(* is two transactions under one lock.  A device that does not answer, and *)
(* a lock that is not had within its second, make a transaction fail.      *)
(* Commands in JSON are modelled in CommandLink, the registers of the      *)
(* configuration in RemoteConfig; the mode is all of it that matters here. *)
(***************************************************************************)
EXTENDS Naturals

CONSTANTS
    C,           \* relay channels are 1..C (16)
    Keys,        \* channels with a key (1 and 2)
    MailSize,    \* APP_HEALTH_MAILBOX_SIZE
    MinHealthy,  \* APP_UPGRADE_CONFIRM_MIN_HEALTHY_SAMPLES
    MaxEvents,   \* bound on what happens outside the threads
    MaxFaults    \* bound on failing transactions and saves

Channels == 1..C
NoCtrl == C + 1          \* last_relay_ctrl before the first turn (0xFFFF)
Threads == {"maint", "sensor"}

ASSUME ChannelsAssumption == C \in Nat \ {0} /\ Keys \subseteq Channels
ASSUME BoundsAssumption == /\ MailSize \in Nat \ {0} /\ MinHealthy \in Nat
                           /\ MaxEvents \in Nat /\ MaxFaults \in Nat

VARIABLES
    \* outside
    outputs,    \* the relays that are on
    inputs,     \* the inputs of the relay board that are on
    down,       \* the keys that are pressed
    ctrl, bits, \* REG_RELAY_CTRL, REG_RELAY_CMD_BITS
    active,     \* G780s_GetActiveConfig says manual mode
    events,     \* bound
    faults,     \* bound
    \* both threads
    pc,         \* what a thread does next
    todo,       \* the channels it has to toggle first
    ch,         \* the channel it toggles, once it has read it; or 0
    was,        \* current_state of that channel
    holder,     \* of s_modbus_master_mutex
    shared,     \* s_app_state.runtime_config says manual mode
    good, bad,  \* s_health_mailbox: samples with an answer, and without one
    \* maintenance thread
    manual,     \* its snapshot of the mode
    keyInit, keyLast, lastCtrl, lastBits,
    healthy,    \* healthy_samples, counted up to MinHealthy
    delayOver,  \* APP_UPGRADE_CONFIRM_DELAY_MS have passed
    waiting,    \* until confirm_next_retry_tick
    confirmed,
    \* sensor thread
    do,         \* relay_do_state
    answered,   \* health_flags of this sample
    diInit, lastRaw, stable,
    reported,   \* REG_RELAY_DO
    \* history
    edges,      \* how often each input has risen
    toggles,    \* how often it has had its output toggled
    posted      \* samples in which a device answered, up to MinHealthy

world == <<inputs, down, events, edges>>
regs == <<ctrl, bits, active>>
bus == <<outputs, todo, ch, was, holder, faults>>
mail == <<good, bad>>
maint == <<manual, keyInit, keyLast, lastCtrl, lastBits, healthy, delayOver,
           waiting, confirmed>>
sensor == <<do, answered, diInit, lastRaw, stable, reported, toggles, posted>>
vars == <<world, regs, bus, pc, shared, mail, maint, sensor>>

-----------------------------------------------------------------------------
Init == /\ outputs \in SUBSET Channels /\ inputs \in SUBSET Channels
        /\ down = {} /\ ctrl = 0 /\ bits = {}
        /\ active = TRUE /\ shared = TRUE /\ manual = TRUE
        /\ events = MaxEvents /\ faults = MaxFaults
        /\ pc = [t \in Threads |-> IF t = "maint" THEN "keys" ELSE "start"]
        /\ todo = [t \in Threads |-> {}] /\ ch = [t \in Threads |-> 0]
        /\ was = [t \in Threads |-> FALSE] /\ holder = "none"
        /\ good = 0 /\ bad = 0 /\ keyInit = FALSE /\ keyLast = {}
        /\ lastCtrl = NoCtrl /\ lastBits = {}
        /\ healthy = 0 /\ delayOver = FALSE /\ waiting = FALSE
        /\ confirmed = FALSE
        /\ do = {} /\ answered = FALSE /\ reported = {}
        /\ diInit = FALSE /\ lastRaw = {} /\ stable = {}
        /\ edges = [c \in Channels |-> 0] /\ toggles = [c \in Channels |-> 0]
        /\ posted = 0

(***************************************************************************)
(* The bus.                                                                *)
(***************************************************************************)
Fails == faults > 0 /\ faults' = faults - 1
Flip(c) == (outputs \ {c}) \cup ({c} \ outputs)

\* Counters stop where nothing depends on them any more.
Capped(n) == IF n > MinHealthy THEN MinHealthy ELSE n

At(t, p) == pc[t] = p /\ todo[t] = {}
Goes(t, p) == pc' = [pc EXCEPT ![t] = p]

\* Relay_SetOutputMask, Relay_BatchControl: no caller looks at the result.
WriteMask(mask) ==
    /\ holder = "none"
    /\ \/ outputs' = mask /\ UNCHANGED faults
       \/ UNCHANGED outputs /\ Fails
    /\ UNCHANGED <<todo, ch, was, holder>>

\* The thread is to toggle the channels cs, lowest first, before it goes on.
Toggles(t, cs) == /\ todo' = [todo EXCEPT ![t] = cs]
                  /\ UNCHANGED <<outputs, ch, was, holder, faults>>

Turn(t, c) == /\ ch[t] = 0 /\ holder = "none"
              /\ c \in todo[t] /\ \A d \in todo[t] : c <= d

Elsewhere == UNCHANGED <<world, regs, pc, shared, mail, maint, sensor>>

\* Mutant of ToggleRead: the lock is given back before the write.
ToggleReadUnlocks(t, c) ==
    /\ Turn(t, c)
    /\ ch' = [ch EXCEPT ![t] = c]
    /\ was' = [was EXCEPT ![t] = c \in outputs]
    /\ UNCHANGED <<outputs, todo, holder, faults>> /\ Elsewhere

\* Relay_ToggleOutput takes the mutex and reads the channel ...
ToggleRead(t, c) ==
    /\ Turn(t, c)
    /\ holder' = t
    /\ ch' = [ch EXCEPT ![t] = c]
    /\ was' = [was EXCEPT ![t] = c \in outputs]
    /\ UNCHANGED <<outputs, todo, faults>> /\ Elsewhere

\* ... or gives up ...
ToggleFails(t, c) ==
    /\ Turn(t, c)
    /\ Fails
    /\ todo' = [todo EXCEPT ![t] = @ \ {c}]
    /\ UNCHANGED <<outputs, ch, was, holder>> /\ Elsewhere

\* ... or writes the opposite and releases the mutex.
ToggleWrite(t) ==
    /\ ch[t] # 0
    /\ \/ /\ outputs' = IF was[t] THEN outputs \ {ch[t]}
                                 ELSE outputs \cup {ch[t]}
          /\ UNCHANGED faults
       \/ UNCHANGED outputs /\ Fails
    /\ holder' = "none"
    /\ todo' = [todo EXCEPT ![t] = @ \ {ch[t]}]
    /\ ch' = [ch EXCEPT ![t] = 0] /\ was' = [was EXCEPT ![t] = FALSE]
    /\ Elsewhere

Toggle(t) == \/ \E c \in Channels : ToggleRead(t, c) \/ ToggleFails(t, c)
             \/ ToggleWrite(t)

(***************************************************************************)
(* The maintenance thread.                                                 *)
(***************************************************************************)
\* The turn starts with a snapshot of the mode; App_HandleKeys.
HandleKeys ==
    /\ At("maint", "keys") /\ Goes("maint", "ctrl")
    /\ manual' = shared
    /\ keyInit' = TRUE /\ keyLast' = down
    /\ Toggles("maint", IF keyInit /\ shared THEN down \ keyLast ELSE {})
    /\ UNCHANGED <<world, regs, shared, mail, sensor, lastCtrl, lastBits,
                   healthy, delayOver, waiting, confirmed>>

\* App_HandleCloudRelayCommands, RELAY_CTRL: a changed value is remembered
\* whether it was obeyed or not.
HandleRelayCtrl ==
    /\ At("maint", "ctrl") /\ Goes("maint", "bits")
    /\ lastCtrl' = ctrl
    /\ \/ ctrl # lastCtrl /\ manual /\ ctrl = 0 /\ WriteMask({})
       \/ /\ ctrl # lastCtrl /\ manual /\ ctrl \in Channels
          /\ Toggles("maint", {ctrl})
       \/ /\ ctrl = lastCtrl \/ ~manual \/ ctrl = NoCtrl
          /\ UNCHANGED bus
    /\ UNCHANGED <<world, regs, shared, mail, sensor, manual, keyInit, keyLast,
                   lastBits, healthy, delayOver, waiting, confirmed>>

\* RELAY_CMD_BITS
HandleRelayBits ==
    /\ At("maint", "bits") /\ Goes("maint", "process")
    /\ lastBits' = bits
    /\ \/ bits # lastBits /\ manual /\ WriteMask(bits)
       \/ (bits = lastBits \/ ~manual) /\ UNCHANGED bus
    /\ UNCHANGED <<world, regs, shared, mail, sensor, manual, keyInit, keyLast,
                   lastCtrl, healthy, delayOver, waiting, confirmed>>

\* G780s_Process handles one request at most: nothing for these threads, a
\* relay register, the coils that stand for the bits, or a new mode.
Process ==
    /\ At("maint", "process") /\ Goes("maint", "confirm")
    /\ \/ UNCHANGED <<regs, events>>
       \/ /\ events > 0 /\ events' = events - 1
          /\ \/ ctrl' \in 0..NoCtrl /\ UNCHANGED <<bits, active>>
             \/ bits' \in SUBSET Channels /\ UNCHANGED <<ctrl, active>>
             \/ active' = ~active /\ UNCHANGED <<ctrl, bits>>
    /\ UNCHANGED <<inputs, down, edges, bus, shared, mail, maint, sensor>>

\* Mutant of Drained: the flags are not looked at.
DrainedAny == Capped(healthy + good + bad)

\* healthy_samples after the mailbox is drained.
Drained == Capped(healthy + good)

\* App_TryConfirmRunningSlot.  The thread neither waits nor is interrupted by
\* the other one between draining the mailbox and this.
TryConfirmRunningSlot ==
    LET may == ~confirmed /\ delayOver /\ Drained >= MinHealthy /\ ~waiting IN
    /\ At("maint", "confirm") /\ Goes("maint", "keys")
    /\ good' = 0 /\ bad' = 0 /\ healthy' = Drained
    /\ \/ may /\ confirmed' = TRUE /\ UNCHANGED <<waiting, faults>>
       \/ may /\ Fails /\ waiting' = TRUE /\ UNCHANGED confirmed
       \/ ~may /\ UNCHANGED <<confirmed, waiting, faults>>
    /\ UNCHANGED <<outputs, todo, ch, was, holder>>
    /\ UNCHANGED <<world, regs, shared, sensor, manual, keyInit, keyLast,
                   lastCtrl, lastBits, delayOver>>

\* HAL_GetTick passes the end of the delay, or the time of the next attempt.
TimePasses ==
    /\ \/ ~delayOver /\ delayOver' = TRUE /\ UNCHANGED waiting
       \/ waiting /\ waiting' = FALSE /\ UNCHANGED delayOver
    /\ UNCHANGED <<world, regs, bus, pc, shared, mail, sensor, manual, keyInit,
                   keyLast, lastCtrl, lastBits, healthy, confirmed>>

(***************************************************************************)
(* The sensor thread.                                                      *)
(***************************************************************************)
\* Relay_BatchControl(0), when the maintenance thread may have had a turn.
AllOff == /\ At("sensor", "start") /\ Goes("sensor", "first")
          /\ WriteMask({})
          /\ UNCHANGED <<world, regs, shared, mail, maint, sensor>>

\* Relay_ReadAllCoils
ReadAllCoils(next) ==
    /\ holder = "none" /\ Goes("sensor", next)
    /\ \/ do' = outputs /\ answered' = TRUE /\ UNCHANGED faults
       \/ Fails /\ UNCHANGED <<do, answered>>
    /\ UNCHANGED <<outputs, todo, ch, was, holder>>
    /\ UNCHANGED <<world, regs, shared, mail, maint, diInit, lastRaw, stable,
                   reported, toggles, posted>>

FirstRead == At("sensor", "first") /\ ReadAllCoils("sample")

\* The next sample: App_ApplyLatestConfig, then the devices that are not the
\* relay board; they answer or do not.
Sample == /\ At("sensor", "sample") /\ Goes("sensor", "coils")
          /\ shared' = active
          /\ \/ answered' = TRUE /\ UNCHANGED faults
             \/ answered' = FALSE /\ Fails
          /\ UNCHANGED <<outputs, todo, ch, was, holder>>
          /\ UNCHANGED <<world, regs, mail, maint, do, diInit, lastRaw, stable,
                         reported, toggles, posted>>

ReadCoils == At("sensor", "coils") /\ ReadAllCoils("inputs")

\* Relay_ReadInputPack fails.
InputsFail == /\ At("sensor", "inputs") /\ Goes("sensor", "post")
              /\ holder = "none" /\ Fails
              /\ UNCHANGED <<outputs, todo, ch, was, holder>>
              /\ UNCHANGED <<world, regs, shared, mail, maint, sensor>>

\* The first reading says how the inputs stand.
FirstInputs == /\ At("sensor", "inputs") /\ Goes("sensor", "post")
               /\ holder = "none" /\ ~diInit
               /\ diInit' = TRUE /\ lastRaw' = inputs /\ stable' = inputs
               /\ UNCHANGED <<world, regs, bus, shared, mail, maint, do,
                              answered, reported, toggles, posted>>

\* Mutant of HandleRelayInputs: the stable state follows in manual mode only
\* when an input falls.
HandleRelayInputsKeeps ==
    /\ At("sensor", "inputs") /\ Goes("sensor", "post")
    /\ holder = "none" /\ diInit
    /\ lastRaw' = inputs
    /\ \E settled \in SUBSET {c \in Channels : c \in inputs <=> c \in lastRaw} :
        LET risen == (settled \cap inputs) \ stable IN
        /\ stable' = stable \ (settled \ inputs)
        /\ Toggles("sensor", IF shared THEN risen ELSE {})
        /\ toggles' = [c \in Channels |->
                         IF shared /\ c \in risen THEN toggles[c] + 1
                                                  ELSE toggles[c]]
    /\ UNCHANGED <<world, regs, shared, mail, maint, do, answered, diInit,
                   reported, posted>>

\* App_HandleRelayInputs: an input that reads as before for the debounce time
\* is taken as stable, and one that is then new and on toggles its output.
\* The debounce time is longer than nothing and may exceed one sample.
HandleRelayInputs ==
    /\ At("sensor", "inputs") /\ Goes("sensor", "post")
    /\ holder = "none" /\ diInit
    /\ lastRaw' = inputs
    /\ \E settled \in SUBSET {c \in Channels : c \in inputs <=> c \in lastRaw} :
        LET risen == (settled \cap inputs) \ stable IN
        /\ stable' = (stable \ settled) \cup (settled \cap inputs)
        /\ Toggles("sensor", IF shared THEN risen ELSE {})
        /\ toggles' = [c \in Channels |->
                         IF shared /\ c \in risen THEN toggles[c] + 1
                                                  ELSE toggles[c]]
    /\ UNCHANGED <<world, regs, shared, mail, maint, do, answered, diInit,
                   reported, posted>>

\* Mutant of Post: the message is put whether the mailbox is full or not.
PostUnbounded ==
        /\ At("sensor", "post") /\ Goes("sensor", "sample")
        /\ reported' = do
        /\ good' = IF answered THEN good + 1 ELSE good
        /\ bad' = IF answered THEN bad ELSE bad + 1
        /\ posted' = IF answered THEN Capped(posted + 1) ELSE posted
        /\ UNCHANGED <<world, regs, bus, shared, maint, do, answered, diInit,
                       lastRaw, stable, toggles>>

\* G780s_UpdateData, then the health of the sample: a full mailbox drops it.
Post == /\ At("sensor", "post") /\ Goes("sensor", "sample")
        /\ reported' = do
        /\ \/ /\ good + bad < MailSize
              /\ good' = IF answered THEN good + 1 ELSE good
              /\ bad' = IF answered THEN bad ELSE bad + 1
           \/ good + bad >= MailSize /\ UNCHANGED mail
        /\ posted' = IF answered THEN Capped(posted + 1) ELSE posted
        /\ UNCHANGED <<world, regs, bus, shared, maint, do, answered, diInit,
                       lastRaw, stable, toggles>>

-----------------------------------------------------------------------------
\* A key is pressed or released, an input rises or falls.
Event == /\ events > 0 /\ events' = events - 1
         /\ \/ \E k \in Keys : /\ down' = (down \ {k}) \cup ({k} \ down)
                               /\ UNCHANGED <<inputs, edges>>
            \/ \E c \in Channels :
                /\ inputs' = (inputs \ {c}) \cup ({c} \ inputs)
                /\ edges' = IF c \in inputs THEN edges
                            ELSE [edges EXCEPT ![c] = @ + 1]
                /\ UNCHANGED down
         /\ UNCHANGED <<regs, bus, pc, shared, mail, maint, sensor>>

MaintThread == \/ HandleKeys \/ HandleRelayCtrl \/ HandleRelayBits \/ Process
               \/ TryConfirmRunningSlot \/ Toggle("maint")

SensorThread == \/ AllOff \/ FirstRead \/ Sample \/ ReadCoils \/ InputsFail
                \/ FirstInputs \/ HandleRelayInputs \/ Post \/ Toggle("sensor")

Next == MaintThread \/ SensorThread \/ TimePasses \/ Event

Spec == Init /\ [][Next]_vars

-----------------------------------------------------------------------------
\* Every variable has its type; the mailbox keeps its size.
TypeOK ==
    /\ outputs \in SUBSET Channels /\ inputs \in SUBSET Channels
    /\ down \in SUBSET Keys /\ ctrl \in 0..NoCtrl /\ bits \in SUBSET Channels
    /\ active \in BOOLEAN /\ shared \in BOOLEAN /\ manual \in BOOLEAN
    /\ events \in 0..MaxEvents /\ faults \in 0..MaxFaults
    /\ pc \in [Threads -> {"keys", "ctrl", "bits", "process", "confirm",
                          "start", "first", "sample", "coils", "inputs", "post"}]
    /\ todo \in [Threads -> SUBSET Channels]
    /\ ch \in [Threads -> 0..C] /\ was \in [Threads -> BOOLEAN]
    /\ holder \in Threads \cup {"none"}
    /\ good \in Nat /\ bad \in Nat /\ good + bad <= MailSize
    /\ keyInit \in BOOLEAN /\ keyLast \in SUBSET Keys
    /\ lastCtrl \in 0..NoCtrl /\ lastBits \in SUBSET Channels
    /\ healthy \in 0..MinHealthy /\ posted \in 0..MinHealthy
    /\ delayOver \in BOOLEAN /\ waiting \in BOOLEAN /\ confirmed \in BOOLEAN
    /\ do \in SUBSET Channels /\ reported \in SUBSET Channels
    /\ answered \in BOOLEAN /\ diInit \in BOOLEAN
    /\ lastRaw \in SUBSET Channels /\ stable \in SUBSET Channels
    /\ edges \in [Channels -> Nat] /\ toggles \in [Channels -> Nat]

\* A toggle that the board carries out inverts the channel as it is at that
\* moment, whatever the other thread switches meanwhile (comment in
\* Relay_ToggleOutput).
ToggleInverts ==
    [][\A t \in Threads : ToggleWrite(t) /\ faults' = faults =>
          outputs' = Flip(ch[t])]_vars

\* An input toggles its output at most once for every time it rose, through
\* slow samples, failed readings, changes of mode and pulses that no sample saw.
InputTogglesOnce == \A c \in Channels : toggles[c] <= edges[c]

\* A slot is confirmed only after enough samples in which a device answered,
\* whatever the mailbox dropped and however often the confirmation failed.
ConfirmedAfterHealth == confirmed => posted >= MinHealthy
=============================================================================
