------------------------- MODULE RemoteConfig_proofs -------------------------
(***************************************************************************)
(* Proofs about RemoteConfig for all ranges, defaults, clock widths and    *)
(* faults: what the device runs on is valid, a reported save survives a    *)
(* restart, the threads agree, and the maintenance window closes in time.  *)
(***************************************************************************)
EXTENDS RemoteConfig, TLAPS

\* What a start makes of a page.
Effective(p) == IF Loads(p) THEN p ELSE Defaults

\* The page holds what was reported, or an attempt that was not.
PageKept == ~begun => Effective(page) = told
PageTried == begun => Effective(page) \in {told, saving, Defaults}
PageBefore == begun /\ pc \in {"loop", "saving", "leaving"} =>
                  Effective(page) \in {told, Defaults}

\* What is saved is valid and numbered after what is in effect.
Saving == pc = "saving" => /\ begun /\ Valid(saving)
                           /\ saving.sequence = active.sequence + 1
Recording == pc = "recording" => page = saving /\ active = saving

\* The sensor thread is never ahead.
Numbered == runtime.sequence <= active.sequence

\* The deadline is at most a window after the key.
DeadlineNear == unlocked /\ ~wrapped => deadline <= tick + (Window - age)

PageInv == PageKept /\ PageTried /\ PageBefore /\ Saving /\ Recording

IInv == /\ TypeOK /\ EffectiveValid /\ CleanMeansSame /\ NoticedBySensor
        /\ PageInv /\ Numbered /\ DeadlineNear

-----------------------------------------------------------------------------
LEMMA DefaultsTyped == Defaults \in Configs /\ Valid(Defaults) /\ Defaults.sequence = 1
  BY DefaultsAssumption

\* Writing an offered value into a register keeps the type.
LEMMA WriteTyped ==
    ASSUME NEW c \in Configs, NEW reg \in Registers, NEW v \in Offered[reg]
    PROVE  /\ [c EXCEPT ![reg] = v] \in Configs
           /\ [c EXCEPT ![reg] = v].sequence = c.sequence
<1>1. v \in Values[reg]
  BY DEF Values
<1> QED
  BY <1>1 DEF Configs, Registers, Single, Halves

\* A new sequence number keeps the type, the values and so the validity.
LEMMA Renumbered ==
    ASSUME NEW c \in Configs, NEW n \in Nat
    PROVE  /\ [c EXCEPT !.sequence = n] \in Configs
           /\ [c EXCEPT !.sequence = n].sequence = n
           /\ \A reg \in Registers : [c EXCEPT !.sequence = n][reg] = c[reg]
           /\ Valid([c EXCEPT !.sequence = n]) <=> Valid(c)
<1> DEFINE d == [c EXCEPT !.sequence = n]
<1>1. d \in Configs /\ d.sequence = n
  BY DEF Configs
<1>2. \A reg \in Registers : d[reg] = c[reg]
  BY DEF Configs, Registers, Single, Halves
<1>3. d.flow = c.flow /\ d.sensor = c.sensor /\ d.debounce = c.debounce
      /\ d.high = c.high /\ d.low = c.low
  BY DEF Configs
<1>4. \A reg \in Single : d[reg] = c[reg]
  BY <1>2 DEF Registers
<1> HIDE DEF d
<1>5. Valid(d) <=> Valid(c)
  BY <1>3, <1>4 DEF Valid, InRange
<1> QED
  BY <1>1, <1>2, <1>5 DEF d

LEMMA SequenceTyped == ASSUME NEW c \in Configs PROVE c.sequence \in Nat
  BY DEF Configs

\* The clock's arithmetic stays within its width.
LEMMA ClockStep ==
    ASSUME NEW t \in 0..(TickMod - 1)
    PROVE  /\ (t + 1) % TickMod \in 0..(TickMod - 1)
           /\ (t + 1) % TickMod = 0 \/ (t + 1) % TickMod = t + 1
<1>1. CASE t + 1 = TickMod
  <2>1. TickMod % TickMod = 0
    BY ClockAssumption
  <2> QED
    BY <1>1, <2>1, ClockAssumption
<1>2. CASE t + 1 < TickMod
  <2>1. (t + 1) % TickMod = t + 1
    BY <1>2, ClockAssumption
  <2> QED
    BY <1>2, <2>1, ClockAssumption
<1> QED
  BY <1>1, <1>2, ClockAssumption

LEMMA DeadlineTyped ==
    ASSUME NEW t \in 0..(TickMod - 1)
    PROVE  /\ (t + Window) % TickMod \in 0..(TickMod - 1)
           /\ (t + Window) % TickMod <= t + Window
<1> DEFINE a == t + Window
<1>1. a \in Nat /\ TickMod \in Nat \ {0}
  BY ClockAssumption
<1> HIDE DEF a
<1>2. a % TickMod \in 0..(TickMod - 1) /\ a % TickMod <= a
  BY <1>1
<1> QED
  BY <1>2 DEF a

-----------------------------------------------------------------------------
LEMMA InitIInv == Init => IInv
<1> SUFFICES ASSUME Init PROVE IInv
  OBVIOUS
<1>1. TypeOK
  <2>1. page \in Configs \cup {Unreadable} /\ pc \in Steps
    BY DEF Init, Steps
  <2>2. /\ active \in Configs /\ staged \in Configs /\ saving \in Configs
        /\ runtime \in Configs /\ told \in Configs
    BY DefaultsTyped DEF Init
  <2>3. /\ dirty \in BOOLEAN /\ saveOk \in BOOLEAN /\ unlocked \in BOOLEAN
        /\ wrapped \in BOOLEAN /\ begun \in BOOLEAN
    BY DEF Init
  <2>4. /\ tick \in 0..(TickMod - 1) /\ deadline \in 0..(TickMod - 1)
        /\ age \in 0..Window
    BY ClockAssumption DEF Init
  <2> QED
    BY <2>1, <2>2, <2>3, <2>4 DEF TypeOK
<1>2. EffectiveValid /\ CleanMeansSame /\ NoticedBySensor
  BY DefaultsTyped DEF Init, EffectiveValid, CleanMeansSame, NoticedBySensor
<1>3. PageInv
  BY DEF Init, PageInv, PageKept, PageTried, PageBefore, Saving, Recording,
         Effective, Loads
<1>4. Numbered /\ DeadlineNear
  BY DefaultsTyped DEF Init, Numbered, DeadlineNear
<1> QED
  BY <1>1, <1>2, <1>3, <1>4 DEF IInv

LEMMA TypePreserved == IInv /\ [Next]_vars => TypeOK'
<1> SUFFICES ASSUME IInv, [Next]_vars PROVE TypeOK'
  OBVIOUS
<1> USE DEF IInv, TypeOK, Steps, config, window
<1>0. /\ page \in Configs \cup {Unreadable}
      /\ active \in Configs /\ staged \in Configs /\ saving \in Configs
      /\ runtime \in Configs /\ told \in Configs
      /\ active.sequence + 1 \in Nat
  BY SequenceTyped
<1>1. CASE Start
  <2>1. /\ active' \in Configs /\ staged' \in Configs /\ saving' \in Configs
        /\ runtime' \in Configs /\ told' \in Configs
    BY <1>0, <1>1, DefaultsTyped DEF Start, Loads
  <2>2. /\ dirty' \in BOOLEAN /\ saveOk' \in BOOLEAN /\ unlocked' \in BOOLEAN
        /\ wrapped' \in BOOLEAN /\ begun' \in BOOLEAN
    BY <1>0, <1>1 DEF Start, Loads
  <2>3. page' \in Configs \cup {Unreadable} /\ pc' \in Steps
    BY <1>0, <1>1 DEF Start, Loads
  <2>4. /\ tick' \in 0..(TickMod - 1) /\ deadline' \in 0..(TickMod - 1)
        /\ age' \in 0..Window
    BY <1>0, <1>1, ClockAssumption DEF Start, Loads
  <2> QED
    BY <2>1, <2>2, <2>3, <2>4
<1>2. CASE PollOnly
  BY <1>2, ClockAssumption DEF PollOnly, CloseWhenOver, Open
<1>3. CASE Unlock
  <2>1. /\ tick' \in 0..(TickMod - 1) /\ deadline' \in 0..(TickMod - 1)
        /\ age' \in 0..Window
    BY <1>3, DeadlineTyped, ClockAssumption DEF Unlock
  <2>2. unlocked' \in BOOLEAN /\ wrapped' \in BOOLEAN
    BY <1>3 DEF Unlock
  <2> QED
    BY <1>3, <2>1, <2>2 DEF Unlock
<1>4. ASSUME NEW reg \in Registers, NEW v \in Offered[reg], WriteRegister(reg, v)
      PROVE  TypeOK'
  <2>1. staged' \in Configs
    BY <1>0, <1>4, WriteTyped DEF WriteRegister
  <2> QED
    BY <1>0, <1>4, <2>1, ClockAssumption DEF WriteRegister, CloseWhenOver, Open
<1>5. CASE ApplySave
  <2>1. FromRegisters \in Configs
    BY <1>0, Renumbered DEF FromRegisters
  <2> QED
    BY <1>0, <1>5, <2>1, ClockAssumption
    DEF ApplySave, Save, CloseWhenOver, Open
<1>6. CASE RestoreDefaults
  <2>1. saving' \in Configs
    BY <1>0, <1>6, Renumbered, DefaultsTyped DEF RestoreDefaults, Save
  <2> QED
    BY <1>0, <1>6, <2>1, ClockAssumption
    DEF RestoreDefaults, Save, CloseWhenOver, Open
<1>7. CASE Discard
  BY <1>0, <1>7, ClockAssumption DEF Discard, CloseWhenOver, Open
<1>8. CASE EnterBootUpgrade
  BY <1>0, <1>8, ClockAssumption DEF EnterBootUpgrade, CloseWhenOver, Open
<1>9. CASE Leave
  <2>1. /\ active' \in Configs /\ staged' \in Configs /\ saving' \in Configs
        /\ runtime' \in Configs /\ told' \in Configs
    BY <1>0, <1>9, DefaultsTyped DEF Leave, Off
  <2>2. /\ dirty' \in BOOLEAN /\ saveOk' \in BOOLEAN /\ unlocked' \in BOOLEAN
        /\ wrapped' \in BOOLEAN /\ begun' \in BOOLEAN
    BY <1>0, <1>9 DEF Leave, Off
  <2>3. page' \in Configs \cup {Unreadable} /\ pc' \in Steps
    BY <1>0, <1>9 DEF Leave, Off
  <2>4. /\ tick' \in 0..(TickMod - 1) /\ deadline' \in 0..(TickMod - 1)
        /\ age' \in 0..Window
    BY <1>0, <1>9, ClockAssumption DEF Leave, Off
  <2> QED
    BY <2>1, <2>2, <2>3, <2>4
<1>10. CASE SaveDone
  BY <1>0, <1>10 DEF SaveDone
<1>11. CASE SaveFails
  BY <1>0, <1>11 DEF SaveFails
<1>12. CASE Recorded
  BY <1>0, <1>12 DEF Recorded
<1>13. CASE PowerLoss
  <2>1. /\ active' \in Configs /\ staged' \in Configs /\ saving' \in Configs
        /\ runtime' \in Configs /\ told' \in Configs
    BY <1>0, <1>13, DefaultsTyped DEF PowerLoss, Off
  <2>2. /\ dirty' \in BOOLEAN /\ saveOk' \in BOOLEAN /\ unlocked' \in BOOLEAN
        /\ wrapped' \in BOOLEAN /\ begun' \in BOOLEAN
    BY <1>0, <1>13 DEF PowerLoss, Off
  <2>3. page' \in Configs \cup {Unreadable} /\ pc' \in Steps
    BY <1>0, <1>13 DEF PowerLoss, Off
  <2>4. /\ tick' \in 0..(TickMod - 1) /\ deadline' \in 0..(TickMod - 1)
        /\ age' \in 0..Window
    BY <1>0, <1>13, ClockAssumption DEF PowerLoss, Off
  <2> QED
    BY <2>1, <2>2, <2>3, <2>4
<1>14. CASE ApplyLatestConfig
  BY <1>0, <1>14 DEF ApplyLatestConfig
<1>15. CASE Tick
  <2>1. tick' \in 0..(TickMod - 1)
    BY <1>15, ClockStep DEF Tick
  <2>2. age' \in 0..Window
    BY <1>15, ClockAssumption DEF Tick
  <2> QED
    BY <1>0, <1>15, <2>1, <2>2 DEF Tick
<1>16. CASE UNCHANGED vars
  BY <1>0, <1>16 DEF vars
<1> QED
  BY <1>1, <1>2, <1>3, <1>4, <1>5, <1>6, <1>7, <1>8, <1>9, <1>10, <1>11, <1>12,
     <1>13, <1>14, <1>15, <1>16 DEF Next, Request

\* The page and what was reported of it.
LEMMA PagePreserved == IInv /\ [Next]_vars => PageInv'
<1> SUFFICES ASSUME IInv, [Next]_vars PROVE PageInv'
  OBVIOUS
<1> USE DEF IInv, PageInv, PageKept, PageTried, PageBefore, Saving, Recording,
            config, window
<1>0. Defaults \in Configs /\ Valid(Defaults)
  BY DefaultsTyped
<1>1. CASE Start
  <2>1. told' = Effective(page) /\ begun' = FALSE /\ page' = page /\ pc' = "loop"
    BY <1>1 DEF Start, Effective
  <2>2. Effective(page') = Effective(page)
    BY <2>1
  <2> QED
    BY <2>1, <2>2
\* Steps that neither save nor start.
<1>2. ASSUME pc' \in {"loop", "leaving"}, pc \in {"loop", "leaving"},
             UNCHANGED <<page, saving, told, begun>>
      PROVE  PageInv'
  BY <1>2 DEF Effective
<1>3. CASE ApplySave
  <2>1. CASE ~Valid(FromRegisters) /\ UNCHANGED <<saving, pc, begun>>
    BY <1>2, <1>3, <2>1 DEF ApplySave
  <2>2. CASE Valid(FromRegisters) /\ Save(FromRegisters)
    <3>1. FromRegisters.sequence = active.sequence + 1
      BY Renumbered, SequenceTyped DEF FromRegisters, TypeOK
    <3>2. /\ pc = "loop" /\ pc' = "saving" /\ begun' = TRUE
          /\ saving' = FromRegisters
          /\ page' = page /\ told' = told /\ active' = active
      BY <1>3, <2>2 DEF ApplySave, Save
    <3>3. Effective(page) \in {told, Defaults}
      BY <3>2
    <3> HIDE DEF IInv
    <3> QED
      BY <2>2, <3>1, <3>2, <3>3 DEF Effective
  <2> QED
    BY <1>3, <2>1, <2>2 DEF ApplySave
<1>4. CASE RestoreDefaults
  <2> DEFINE d == [Defaults EXCEPT !.sequence = active.sequence + 1]
  <2>1. d.sequence = active.sequence + 1 /\ Valid(d)
    BY <1>0, Renumbered, SequenceTyped DEF TypeOK
  <2>2. /\ pc = "loop" /\ pc' = "saving" /\ begun' = TRUE /\ saving' = d
        /\ page' = page /\ told' = told /\ active' = active
    BY <1>4 DEF RestoreDefaults, Save
  <2>3. Effective(page) \in {told, Defaults}
    BY <2>2
  <2> HIDE DEF IInv, d
  <2> QED
    BY <2>1, <2>2, <2>3 DEF Effective
<1>5. CASE SaveDone
  <2>1. /\ pc = "saving" /\ pc' = "recording" /\ page' = saving
        /\ active' = saving /\ saving' = saving /\ told' = told /\ begun' = begun
    BY <1>5 DEF SaveDone
  <2>2. Valid(saving) /\ begun /\ saving # Unreadable
    BY <2>1, UnreadableAssumption DEF TypeOK
  <2>3. Effective(page') = saving
    BY <2>1, <2>2 DEF Effective, Loads
  <2> QED
    BY <2>1, <2>2, <2>3
<1>6. CASE SaveFails
  <2>1. /\ pc = "saving" /\ pc' = "loop" /\ page' \in {page, Unreadable}
        /\ saving' = saving /\ told' = told /\ begun' = begun
    BY <1>6 DEF SaveFails
  <2>2. begun /\ Effective(page) \in {told, Defaults}
    BY <2>1
  <2>3. Effective(page') \in {told, Defaults}
    BY <2>1, <2>2 DEF Effective, Loads
  <2> QED
    BY <2>1, <2>2, <2>3
<1>7. CASE Recorded
  <2>1. /\ pc = "recording" /\ pc' = "loop" /\ told' = active /\ begun' = FALSE
        /\ page' = page /\ page = saving /\ active = saving
    BY <1>7 DEF Recorded
  <2>2. Valid(active) /\ active # Unreadable
    BY UnreadableAssumption DEF TypeOK, EffectiveValid
  <2>3. Effective(page') = told'
    BY <2>1, <2>2 DEF Effective, Loads
  <2> QED
    BY <2>1, <2>3
<1>8. CASE PowerLoss
  <2>1. pc' = "off" /\ saving' = saving /\ told' = told /\ begun' = begun
    BY <1>8 DEF PowerLoss, Off
  <2>2. CASE pc = "saving"
    <3>1. page' \in {page, Unreadable, saving}
      BY <1>8, <2>2 DEF PowerLoss
    <3>2. begun /\ Effective(page) \in {told, Defaults}
      BY <2>2
    <3>3. Effective(page') \in {told, saving, Defaults}
      BY <3>1, <3>2 DEF Effective, Loads
    <3> QED
      BY <2>1, <3>2, <3>3
  <2>3. CASE pc # "saving"
    <3>1. page' = page
      BY <1>8, <2>3 DEF PowerLoss
    <3>2. Effective(page') = Effective(page)
      BY <3>1
    <3> QED
      BY <2>1, <3>2
  <2> QED
    BY <2>2, <2>3
<1>9. CASE Leave
  <2>1. /\ pc' = "off" /\ saving' = saving /\ told' = told /\ begun' = begun
        /\ page' = page
    BY <1>9 DEF Leave, Off
  <2>2. Effective(page') = Effective(page)
    BY <2>1
  <2> QED
    BY <2>1, <2>2
<1>10. ASSUME NEW reg \in Registers, NEW v \in Offered[reg], WriteRegister(reg, v)
       PROVE  PageInv'
  BY <1>2, <1>10 DEF WriteRegister
<1>11. CASE PollOnly
  BY <1>2, <1>11 DEF PollOnly
<1>12. CASE Unlock
  BY <1>2, <1>12 DEF Unlock
<1>13. CASE Discard
  BY <1>2, <1>13 DEF Discard
<1>14. CASE EnterBootUpgrade
  BY <1>2, <1>14 DEF EnterBootUpgrade
<1>15. CASE ApplyLatestConfig
  BY <1>2, <1>15 DEF ApplyLatestConfig
<1>16. CASE Tick
  BY <1>2, <1>16 DEF Tick
<1>17. CASE UNCHANGED vars
  <2>1. UNCHANGED <<page, pc, saving, told, begun, active>>
    BY <1>17 DEF vars
  <2> QED
    BY <2>1 DEF Effective
<1> QED
  BY <1>1, <1>3, <1>4, <1>5, <1>6, <1>7, <1>8, <1>9, <1>10, <1>11, <1>12, <1>13,
     <1>14, <1>15, <1>16, <1>17 DEF Next, Request

\* What is in effect, staged and taken over by the sensor thread.
LEMMA EffectPreserved ==
    IInv /\ [Next]_vars =>
        EffectiveValid' /\ CleanMeansSame' /\ NoticedBySensor' /\ Numbered'
<1> DEFINE EffectInv == EffectiveValid /\ CleanMeansSame /\ NoticedBySensor /\ Numbered
<1> SUFFICES ASSUME IInv, [Next]_vars PROVE EffectInv'
  OBVIOUS
<1> USE DEF EffectiveValid, CleanMeansSame, NoticedBySensor, Numbered, config, window
<1>0. /\ Valid(Defaults) /\ Defaults.sequence \in Nat
      /\ EffectInv
      /\ active \in Configs /\ active.sequence \in Nat /\ runtime.sequence \in Nat
  BY DefaultsTyped, SequenceTyped DEF IInv, TypeOK
<1>1. CASE Start
  <2>1. /\ active' = IF Loads(page) THEN page ELSE Defaults
        /\ staged' = active' /\ runtime' = active'
    BY <1>1 DEF Start
  <2>2. Valid(active') /\ active'.sequence \in Nat
    BY <1>0, <2>1, SequenceTyped DEF Loads, IInv, TypeOK
  <2> QED
    BY <2>1, <2>2
\* Steps that change nothing of this.
<1>2. ASSUME UNCHANGED <<active, staged, dirty, runtime>>
      PROVE  EffectInv'
  BY <1>0, <1>2
<1>3. ASSUME NEW reg \in Registers, NEW v \in Offered[reg], WriteRegister(reg, v)
      PROVE  EffectInv'
  BY <1>0, <1>3 DEF WriteRegister
<1>4. CASE ApplySave
  <2>1. UNCHANGED <<active, dirty, runtime>> /\ staged' = FromRegisters
    BY <1>4 DEF ApplySave
  <2>2. \A reg \in Registers : staged'[reg] = staged[reg]
    BY <1>0, <2>1, Renumbered DEF FromRegisters, IInv, TypeOK
  <2> QED
    BY <1>0, <2>1, <2>2
<1>5. CASE Discard
  BY <1>0, <1>5 DEF Discard
<1>6. CASE SaveDone
  <2>1. /\ active' = saving /\ staged' = saving /\ runtime' = runtime
        /\ Valid(saving) /\ saving.sequence = active.sequence + 1
    BY <1>6 DEF SaveDone, IInv, PageInv, Saving
  <2>2. runtime'.sequence < active'.sequence
    BY <1>0, <2>1
  <2>3. runtime'.sequence # active'.sequence /\ runtime'.sequence <= active'.sequence
    BY <1>0, <2>1
  <2> QED
    BY <1>0, <2>1, <2>3
<1>7. CASE ApplyLatestConfig
  BY <1>0, <1>7 DEF ApplyLatestConfig
<1>8. CASE Leave \/ PowerLoss
  <2>1. active' = Defaults /\ staged' = Defaults /\ runtime' = Defaults
    BY <1>8 DEF Leave, PowerLoss, Off
  <2> QED
    BY <1>0, <2>1
<1>9. CASE PollOnly
  BY <1>2, <1>9 DEF PollOnly
<1>10. CASE Unlock
  BY <1>2, <1>10 DEF Unlock
<1>11. CASE RestoreDefaults
  BY <1>2, <1>11 DEF RestoreDefaults
<1>12. CASE EnterBootUpgrade
  BY <1>2, <1>12 DEF EnterBootUpgrade
<1>13. CASE SaveFails
  BY <1>2, <1>13 DEF SaveFails
<1>14. CASE Recorded
  BY <1>2, <1>14 DEF Recorded
<1>15. CASE Tick
  BY <1>2, <1>15 DEF Tick
<1>16. CASE UNCHANGED vars
  BY <1>2, <1>16 DEF vars
<1> QED
  BY <1>1, <1>3, <1>4, <1>5, <1>6, <1>7, <1>8, <1>9, <1>10, <1>11, <1>12, <1>13,
     <1>14, <1>15, <1>16 DEF Next, Request

\* The window and the clock.
LEMMA DeadlinePreserved == IInv /\ [Next]_vars => DeadlineNear'
<1> SUFFICES ASSUME IInv, [Next]_vars PROVE DeadlineNear'
  OBVIOUS
<1> USE DEF DeadlineNear, window, config
<1>0. /\ DeadlineNear
      /\ tick \in 0..(TickMod - 1) /\ deadline \in 0..(TickMod - 1)
      /\ age \in 0..Window /\ Window \in Nat /\ TickMod \in Nat
  BY ClockAssumption DEF IInv, TypeOK
\* A turn may close the window; the deadline of an open one stays.
<1>1. ASSUME CloseWhenOver, UNCHANGED tick
      PROVE  DeadlineNear'
  <2>1. unlocked' => unlocked /\ deadline' = deadline
    BY <1>1 DEF CloseWhenOver, Open
  <2>2. UNCHANGED <<tick, age, wrapped>>
    BY <1>1 DEF CloseWhenOver
  <2> QED
    BY <1>0, <2>1, <2>2
<1>2. ASSUME UNCHANGED <<tick, window>>
      PROVE  DeadlineNear'
  BY <1>0, <1>2
<1>3. CASE Unlock
  <2>1. deadline' = (tick + Window) % TickMod /\ age' = 0 /\ tick' = tick
    BY <1>3 DEF Unlock
  <2>2. deadline' <= tick + Window
    BY <1>0, <2>1, DeadlineTyped
  <2> QED
    BY <1>0, <2>1, <2>2
<1>4. CASE Tick
  <2> SUFFICES ASSUME unlocked', ~wrapped'
               PROVE  deadline' <= tick' + (Window - age')
    OBVIOUS
  <2>1. unlocked /\ ~wrapped /\ deadline' = deadline /\ tick' # 0
    BY <1>4 DEF Tick
  <2>2. tick' = tick + 1
    BY <1>0, <1>4, <2>1, ClockStep DEF Tick
  <2>3. age' = (IF age < Window THEN age + 1 ELSE age)
    BY <1>4, <2>1 DEF Tick
  <2>4. deadline <= tick + (Window - age)
    BY <1>0, <2>1
  <2> QED
    BY <1>0, <2>1, <2>2, <2>3, <2>4
<1>5. CASE Start
  BY <1>2, <1>5 DEF Start, Off, DeadlineNear
<1>6. CASE Leave \/ PowerLoss
  BY <1>6 DEF Leave, PowerLoss, Off
<1>7. ASSUME NEW reg \in Registers, NEW v \in Offered[reg], WriteRegister(reg, v)
      PROVE  DeadlineNear'
  BY <1>1, <1>7 DEF WriteRegister
<1>8. CASE PollOnly \/ ApplySave \/ RestoreDefaults \/ Discard \/ EnterBootUpgrade
  BY <1>1, <1>8
  DEF PollOnly, ApplySave, RestoreDefaults, Discard, EnterBootUpgrade
<1>9. CASE SaveDone \/ SaveFails \/ Recorded \/ ApplyLatestConfig
  BY <1>2, <1>9 DEF SaveDone, SaveFails, Recorded, ApplyLatestConfig
<1>10. CASE UNCHANGED vars
  BY <1>2, <1>10 DEF vars
<1> QED
  BY <1>3, <1>4, <1>5, <1>6, <1>7, <1>8, <1>9, <1>10 DEF Next, Request

THEOREM Inductive == Spec => []IInv
<1>1. IInv /\ [Next]_vars => IInv'
  BY TypePreserved, PagePreserved, EffectPreserved, DeadlinePreserved DEF IInv
<1> QED
  BY InitIInv, <1>1, PTL DEF Spec

-----------------------------------------------------------------------------
\* Whatever is written, refused, torn or interrupted, the variables of the
\* configuration, the clock and the window keep their types.
THEOREM TypeCorrect == Spec => []TypeOK
<1>1. IInv => TypeOK
  BY DEF IInv
<1> QED
  BY Inductive, <1>1, PTL

\* Both threads of the application run on valid configurations only.
THEOREM RunsValid == Spec => []EffectiveValid
<1>1. IInv => EffectiveValid
  BY DEF IInv
<1> QED
  BY Inductive, <1>1, PTL

\* Registers without staged values read what is in effect.
THEOREM CleanReadsEffective == Spec => []CleanMeansSame
<1>1. IInv => CleanMeansSame
  BY DEF IInv
<1> QED
  BY Inductive, <1>1, PTL

\* The sensor thread cannot miss a configuration by its sequence number.
THEOREM SensorNotices == Spec => []NoticedBySensor
<1>1. IInv => NoticedBySensor
  BY DEF IInv
<1> QED
  BY Inductive, <1>1, PTL

\* A restart brings back what was reported as saved, or what a later,
\* unreported save left.
THEOREM SavedSurvives == Spec => RestartKeeps
<1> DEFINE Kept == pc = "off" /\ pc' = "loop" =>
                       \/ active' = told
                       \/ begun /\ active' \in {saving, Defaults}
<1>1. IInv /\ [Next]_vars => [Kept]_vars
  <2> SUFFICES ASSUME IInv, Next, pc = "off", pc' = "loop"
               PROVE  Kept
    OBVIOUS
  <2>1. Start
    BY DEF Next, Request, PollOnly, Unlock, WriteRegister, ApplySave,
           RestoreDefaults, Discard, EnterBootUpgrade, Leave, SaveDone, SaveFails,
           Recorded, PowerLoss, ApplyLatestConfig, Tick
  <2>2. active' = Effective(page)
    BY <2>1 DEF Start, Effective
  <2>3. begun \in BOOLEAN
    BY DEF IInv, TypeOK
  <2>4. /\ ~begun => Effective(page) = told
        /\ begun => Effective(page) \in {told, saving, Defaults}
    BY DEF IInv, PageInv, PageKept, PageTried
  <2> QED
    BY <2>2, <2>3, <2>4
<1> QED
  BY Inductive, <1>1, PTL DEF Spec, RestartKeeps

\* Nothing is accepted later than a window after the key, up to a wrap of the
\* clock.
THEOREM ClosesInTime == Spec => WithinWindow
<1> DEFINE InTime ==
        pc = "loop" /\ pc' # "off" /\ (staged' # staged \/ pc' # "loop") =>
            age < Window \/ wrapped
<1>1. IInv /\ [Next]_vars => [InTime]_vars
  <2> SUFFICES ASSUME IInv, Next, pc = "loop", pc' # "off",
                      staged' # staged \/ pc' # "loop", ~wrapped
               PROVE  age < Window
    OBVIOUS
  <2>1. Open
    BY DEF Next, Request, PollOnly, Unlock, WriteRegister, ApplySave,
           RestoreDefaults, Discard, EnterBootUpgrade, Leave, SaveDone, SaveFails,
           Recorded, PowerLoss, ApplyLatestConfig, Tick, Start, Off, config
  <2>2. tick < deadline /\ unlocked
    BY <2>1 DEF Open
  <2>3. deadline <= tick + (Window - age)
    BY <2>2 DEF IInv, DeadlineNear
  <2>4. tick \in Nat /\ deadline \in Nat /\ age \in Nat /\ Window \in Nat
    BY ClockAssumption DEF IInv, TypeOK
  <2> QED
    BY <2>2, <2>3, <2>4
<1> QED
  BY Inductive, <1>1, PTL DEF Spec, WithinWindow
=============================================================================
