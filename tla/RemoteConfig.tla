---------------------------- MODULE RemoteConfig ----------------------------
(***************************************************************************)
(* The remote configuration of the controller (G780s.c): registers written *)
(* over Modbus stage a configuration, and a command makes it effective and *)
(* saves it in the one flash page kept for it.  Both need a maintenance    *)
(* window, which the unlock key opens.  The sensor thread (app_threads.c)  *)
(* takes over a new configuration when it sees a new sequence number.      *)
(*                                                                         *)
(* The maintenance thread handles one request per turn of G780s_Process.   *)
(* Saving keeps it, and with it every thread of lower priority, waiting.   *)
(* The configuration registers always mirror g_staged_config, so one       *)
(* variable stands for both.  The registers for hz_per_lpm are a second    *)
(* pair like those for pulses_per_liter, and the control mode is checked   *)
(* like the debounce time without a relation of its own; both are left out.*)
(***************************************************************************)
EXTENDS Naturals

CONSTANTS
    Offered,       \* register -> values a request may write
    Legal,         \* register -> values G780s_ValidateConfigRegisterValue takes
    LegalPulses,   \* pairs <<high, low>> within the range of pulses_per_liter
    Defaults,      \* the values of G780s_SetDefaults, with sequence 1
    Unreadable,    \* a page that is erased, partly programmed or damaged
    TickMod,       \* HAL_GetTick counts modulo 2^32
    Window,        \* G780S_UNLOCK_WINDOW_MS (30000 ms)
    MaxSequence,   \* bound on sequence numbers
    Faults         \* the faults of this instance, a subset of FaultKinds

FaultKinds == {"power", "flash"}

\* Registers with a range of their own, and the two halves of a 32-bit value.
Single == {"sensor", "flow", "debounce", "temp"}
Halves == {"high", "low"}
Registers == Single \cup Halves

Values == [reg \in Registers |-> Offered[reg] \cup {Defaults[reg]}]

\* G780sRemoteConfig
Configs == [sensor : Values["sensor"], flow : Values["flow"],
            debounce : Values["debounce"], temp : Values["temp"],
            high : Values["high"], low : Values["low"], sequence : Nat]

\* G780s_ValidateConfigRegisterValue: half of a 32-bit value is not checked.
InRange(reg, v) == reg \in Single => v \in Legal[reg]

\* G780s_ValidateConfig
Valid(c) == /\ \A reg \in Single : InRange(reg, c[reg])
            /\ <<c.high, c.low>> \in LegalPulses
            /\ c.flow <= c.sensor
            /\ c.debounce < c.sensor

ASSUME DefaultsAssumption == /\ Defaults \in Configs /\ Valid(Defaults)
                             /\ Defaults.sequence = 1
ASSUME UnreadableAssumption == Unreadable \notin Configs
ASSUME RangesAssumption ==
    \A reg \in Single : Legal[reg] \subseteq Nat /\ Offered[reg] \subseteq Nat
ASSUME ClockAssumption == /\ TickMod \in Nat /\ Window \in Nat \ {0}
                          /\ Window < TickMod
ASSUME BoundAssumption == MaxSequence \in Nat
ASSUME FaultsAssumption == Faults \subseteq FaultKinds

VARIABLES
    page,      \* flash: the image at G780S_CFG_FLASH_PAGE_ADDR
    pc,        \* what the maintenance thread is in, or "off"
    active,    \* g_active_config
    staged,    \* g_staged_config, and the registers that mirror it
    dirty,     \* G780S_STATUS_STAGED_DIRTY
    saveOk,    \* G780S_STATUS_SAVE_OK
    unlocked,  \* G780S_STATUS_UNLOCKED
    deadline,  \* g_unlock_deadline
    tick,      \* HAL_GetTick()
    saving,    \* the configuration being saved
    runtime,   \* the sensor thread's runtime_config
    \* history
    age,       \* ticks since the key was last accepted, at most Window
    wrapped,   \* the clock has wrapped since then
    told,      \* what the device started with or last reported as saved
    begun      \* a save has begun since, and has not been reported a success

config == <<active, staged, dirty, saveOk>>
window == <<unlocked, deadline, age, wrapped>>
vars == <<page, pc, tick, saving, runtime, told, begun, config, window>>

Steps == {"loop", "saving", "recording", "leaving", "off"}

-----------------------------------------------------------------------------
Init == /\ page = Unreadable
        /\ pc = "off"
        /\ active = Defaults /\ staged = Defaults /\ saving = Defaults
        /\ runtime = Defaults /\ told = Defaults
        /\ dirty = FALSE /\ saveOk = FALSE /\ begun = FALSE
        /\ unlocked = FALSE /\ wrapped = FALSE
        /\ tick = 0 /\ deadline = 0 /\ age = 0

\* A reset leaves flash, what was reported, and a RAM that nobody reads before
\* it is initialised.
Off == /\ pc' = "off"
       /\ active' = Defaults /\ staged' = Defaults /\ runtime' = Defaults
       /\ dirty' = FALSE /\ saveOk' = FALSE
       /\ unlocked' = FALSE /\ wrapped' = FALSE
       /\ tick' = 0 /\ deadline' = 0 /\ age' = 0
       /\ UNCHANGED <<saving, told, begun>>

\* G780s_LoadConfigFromFlash succeeds.
Loads(p) == p # Unreadable /\ Valid(p)

\* G780s_Init, and the sensor thread's start.  The rest of RAM is as Off says.
Start ==
    /\ pc = "off"
    /\ active' = IF Loads(page) THEN page ELSE Defaults
    /\ staged' = active' /\ runtime' = active' /\ told' = active'
    /\ begun' = FALSE /\ saving' = Defaults
    /\ pc' = "loop"
    /\ UNCHANGED <<page, tick, dirty, saveOk, window>>

(***************************************************************************)
(* Requests.  G780s_Process first closes a window whose deadline has come; *)
(* Open says whether it is open after that.                                *)
(***************************************************************************)
Open == unlocked /\ tick < deadline

CloseWhenOver ==
    /\ unlocked' = Open
    /\ deadline' = IF unlocked /\ ~Open THEN 0 ELSE deadline
    /\ UNCHANGED <<age, wrapped>>

\* A turn without a request, or with one that changes no configuration: a
\* refused one, G780S_CMD_NONE, G780S_CMD_CLEAR_ERROR, a relay register.
PollOnly == /\ pc = "loop" /\ unlocked
            /\ CloseWhenOver
            /\ UNCHANGED <<page, pc, tick, saving, runtime, told, begun, config>>

\* Mutant of Unlock: the deadline is wider than the clock.
UnlockUnwrapped == /\ pc = "loop"
                   /\ unlocked' = TRUE
                   /\ deadline' = tick + Window
                   /\ age' = 0 /\ wrapped' = FALSE
                   /\ UNCHANGED <<page, pc, tick, saving, runtime, told, begun,
                                  config>>

\* G780s_UnlockMaintenance
Unlock == /\ pc = "loop"
          /\ unlocked' = TRUE
          /\ deadline' = (tick + Window) % TickMod
          /\ age' = 0 /\ wrapped' = FALSE
          /\ UNCHANGED <<page, pc, tick, saving, runtime, told, begun, config>>

\* Mutant of WriteRegister: the request is handled before the window is closed.
WriteRegisterLate(reg, v) ==
    LET candidate == [staged EXCEPT ![reg] = v] IN
    /\ pc = "loop" /\ unlocked
    /\ InRange(reg, v)
    /\ reg \in Single \ {"temp"} => Valid(candidate)
    /\ staged' = candidate
    /\ dirty' = TRUE /\ saveOk' = FALSE
    /\ CloseWhenOver
    /\ UNCHANGED <<page, pc, tick, saving, runtime, told, begun, active>>

\* G780s_WriteConfigRegister.  The relations are checked when a register is
\* written that takes no part in a 32-bit value, except the threshold.
WriteRegister(reg, v) ==
    LET candidate == [staged EXCEPT ![reg] = v] IN
    /\ pc = "loop" /\ Open
    /\ InRange(reg, v)
    /\ reg \in Single \ {"temp"} => Valid(candidate)
    /\ staged' = candidate
    /\ dirty' = TRUE /\ saveOk' = FALSE
    /\ CloseWhenOver
    /\ UNCHANGED <<page, pc, tick, saving, runtime, told, begun, active>>

\* G780s_LoadConfigFromRegisters
FromRegisters == [staged EXCEPT !.sequence = active.sequence + 1]

\* G780s_SaveConfigToFlash is entered with configuration c.
Save(c) == /\ saving' = c /\ pc' = "saving" /\ begun' = TRUE

\* Mutant of ApplySave: the registers were checked when they were written.
ApplySaveUnchecked ==
    /\ pc = "loop" /\ Open /\ active.sequence < MaxSequence
    /\ staged' = FromRegisters
    /\ Save(FromRegisters)
    /\ CloseWhenOver
    /\ UNCHANGED <<page, tick, runtime, told, active, dirty, saveOk>>

\* G780S_CMD_APPLY_SAVE: G780s_CommitStagedConfig loads into g_staged_config
\* whether the result is valid or not.
ApplySave ==
    /\ pc = "loop" /\ Open /\ active.sequence < MaxSequence
    /\ staged' = FromRegisters
    /\ \/ Valid(FromRegisters) /\ Save(FromRegisters)
       \/ ~Valid(FromRegisters) /\ UNCHANGED <<saving, pc, begun>>
    /\ CloseWhenOver
    /\ UNCHANGED <<page, tick, runtime, told, active, dirty, saveOk>>

\* Mutant of RestoreDefaults: the sequence number is not advanced.
RestoreDefaultsSameNumber ==
    /\ pc = "loop" /\ Open /\ active.sequence < MaxSequence
    /\ Save([Defaults EXCEPT !.sequence = active.sequence])
    /\ CloseWhenOver
    /\ UNCHANGED <<page, tick, runtime, told, config>>

\* G780S_CMD_RESTORE_DEFAULTS
RestoreDefaults ==
    /\ pc = "loop" /\ Open /\ active.sequence < MaxSequence
    /\ Save([Defaults EXCEPT !.sequence = active.sequence + 1])
    /\ CloseWhenOver
    /\ UNCHANGED <<page, tick, runtime, told, config>>

\* Mutant of Discard: only the flag is reset.
DiscardFlagOnly == /\ pc = "loop" /\ Open
                   /\ dirty' = FALSE
                   /\ CloseWhenOver
                   /\ UNCHANGED <<page, pc, tick, saving, runtime, told, begun,
                                  active, staged, saveOk>>

\* G780S_CMD_DISCARD_STAGED
Discard == /\ pc = "loop" /\ Open
           /\ staged' = active /\ dirty' = FALSE
           /\ CloseWhenOver
           /\ UNCHANGED <<page, pc, tick, saving, runtime, told, begun,
                          active, saveOk>>

\* G780S_CMD_ENTER_BOOT_UPGRADE: the request is saved, then the maintenance
\* thread resets.  A request that cannot be saved changes nothing here.
EnterBootUpgrade == /\ pc = "loop" /\ Open
                    /\ pc' = "leaving"
                    /\ CloseWhenOver
                    /\ UNCHANGED <<page, tick, saving, runtime, told, begun,
                                   config>>

\* App_HandlePendingUpgrade
Leave == pc = "leaving" /\ Off /\ UNCHANGED page

-----------------------------------------------------------------------------
(***************************************************************************)
(* A save: erase, program, compare; then G780s_ApplyConfig, and the        *)
(* snapshot of the save goes to the diagnosis page before the answer.      *)
(***************************************************************************)
\* Mutant of SaveDone: the configuration in effect is saved before it is replaced.
SaveDoneOld == /\ pc = "saving" /\ pc' = "recording"
               /\ page' = active
               /\ active' = saving /\ staged' = saving
               /\ dirty' = FALSE /\ saveOk' = TRUE
               /\ UNCHANGED <<tick, saving, runtime, told, begun, window>>

SaveDone == /\ pc = "saving" /\ pc' = "recording"
            /\ page' = saving
            /\ active' = saving /\ staged' = saving
            /\ dirty' = FALSE /\ saveOk' = TRUE
            /\ UNCHANGED <<tick, saving, runtime, told, begun, window>>

\* The erasure fails at once, or a later step after it.
SaveFails == /\ pc = "saving" /\ "flash" \in Faults
             /\ pc' = "loop"
             /\ page' \in {page, Unreadable}
             /\ UNCHANGED <<tick, saving, runtime, told, begun, config, window>>

\* G780s_RecordSaveSnapshot, which only warns when it fails; then the answer.
Recorded == /\ pc = "recording" /\ pc' = "loop"
            /\ told' = active /\ begun' = FALSE
            /\ UNCHANGED <<page, tick, saving, runtime, config, window>>

\* Power loss, or a reset at any other point.
PowerLoss == /\ pc # "off" /\ "power" \in Faults
             /\ page' \in IF pc = "saving" THEN {page, Unreadable, saving}
                                           ELSE {page}
             /\ Off

-----------------------------------------------------------------------------
\* App_ApplyLatestConfig: runs when the maintenance thread waits.
ApplyLatestConfig == /\ pc \in {"loop", "leaving"}
                     /\ runtime.sequence # active.sequence
                     /\ runtime' = active
                     /\ UNCHANGED <<page, pc, tick, saving, told, begun, config,
                                    window>>

\* Time passes between two turns, any amount of it.
Tick == /\ pc = "loop"
        /\ tick' = (tick + 1) % TickMod
        /\ age' = IF unlocked /\ age < Window THEN age + 1 ELSE age
        /\ wrapped' = (wrapped \/ (unlocked /\ tick' = 0))
        /\ UNCHANGED <<page, pc, saving, runtime, told, begun, config,
                       unlocked, deadline>>

Request == \/ PollOnly \/ Unlock
           \/ \E reg \in Registers : \E v \in Offered[reg] : WriteRegister(reg, v)
           \/ ApplySave \/ RestoreDefaults \/ Discard \/ EnterBootUpgrade

Next == \/ Start \/ Request \/ Leave
        \/ SaveDone \/ SaveFails \/ Recorded \/ PowerLoss
        \/ ApplyLatestConfig \/ Tick

Spec == Init /\ [][Next]_vars

-----------------------------------------------------------------------------
\* Every variable has its type: no sequence number exceeds its bound, the
\* clock and the deadline keep their width.
TypeOK == /\ page \in Configs \cup {Unreadable}
          /\ pc \in Steps
          /\ active \in Configs /\ staged \in Configs /\ saving \in Configs
          /\ runtime \in Configs /\ told \in Configs
          /\ dirty \in BOOLEAN /\ saveOk \in BOOLEAN /\ unlocked \in BOOLEAN
          /\ wrapped \in BOOLEAN /\ begun \in BOOLEAN
          /\ tick \in 0..(TickMod - 1) /\ deadline \in 0..(TickMod - 1)
          /\ age \in 0..Window

\* What the device runs on, in both threads, is within every range and keeps
\* every relation, although a 32-bit value is written in halves of which
\* neither is checked, and a page may hold anything after a power loss.
EffectiveValid == Valid(active) /\ Valid(runtime)

\* While the status does not report staged values, the configuration
\* registers read what is in effect, through failed saves and refused commits.
CleanMeansSame ==
    ~dirty => \A reg \in Registers : staged[reg] = active[reg]

\* The sensor thread compares nothing but sequence numbers: as long as it sees
\* the number it has, it has that configuration.
NoticedBySensor == runtime.sequence = active.sequence => runtime = active

\* A start brings back what was reported as saved.  Only a save that was begun
\* and not reported can have replaced it, by its own values or the defaults.
RestartKeeps ==
    [][pc = "off" /\ pc' = "loop" =>
        \/ active' = told
        \/ begun /\ active' \in {saving, Defaults}]_vars

\* Nothing is staged, saved or upgraded later than a window after the key,
\* unless the clock wrapped in between.
WithinWindow ==
    [][pc = "loop" /\ pc' # "off" /\ (staged' # staged \/ pc' # "loop") =>
        age < Window \/ wrapped]_vars
=============================================================================
