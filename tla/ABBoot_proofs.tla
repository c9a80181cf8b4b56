---------------------------- MODULE ABBoot_proofs ----------------------------
(***************************************************************************)
(* Proofs about ABBoot, for any images, slot size, health and faults.      *)
(***************************************************************************)
EXTENDS ABBoot, TLAPS

USE DEF SlotA, SlotB, SlotNone, Slots, Pages

(***************************************************************************)
(* What the helpers of UpgradeStore return.                                *)
(***************************************************************************)
\* Saturate keeps a counter of the boot control or state page in its range.
LEMMA SaturateType ==
    ASSUME NEW n \in 0..CounterMax
    PROVE  Saturate(n) \in 0..CounterMax
BY CounterMaxAssumption DEF Saturate

\* FindBestSlot returns a slot or none.
LEMMA BestSlotType ==
    ASSUME NEW c, NEW f, NEW x
    PROVE  FindBestSlot(c, f, x) \in Slots \cup {SlotNone}
BY DEF FindBestSlot

\* The boot control after a reset, typed and with nothing pending.
LEMMA InitBootControlType ==
    InitBootControl \in BootControls /\ InitBootControl.pending = SlotNone
BY CounterMaxAssumption DEF InitBootControl, BootControls, SlotRecords,
    ClearedRecord

LEMMA InitStateImageType == InitStateImage \in StateImages
BY CounterMaxAssumption DEF InitStateImage, StateImages, States

\* Loading the boot control yields a typed one, whatever is on flash.
LEMMA LoadBootControlType ==
    ASSUME NEW page \in BootControls \cup {Unreadable}
    PROVE  LoadBootControl(page) \in BootControls
BY InitBootControlType DEF LoadBootControl

LEMMA LoadStateType ==
    ASSUME NEW page \in StateImages \cup {Unreadable}
    PROVE  LoadState(page) \in StateImages
BY InitStateImageType DEF LoadState

\* NormalizeBootControl touches neither the pending slot nor the records.
LEMMA NormalizeType ==
    ASSUME NEW c \in BootControls, NEW f
    PROVE  LET n == NormalizeBootControl(c, f)
           IN n \in BootControls /\ n.pending = c.pending /\ n.rec = c.rec
BY BestSlotType DEF NormalizeBootControl, BootControls

\* Settling on the running slot leaves nothing pending.
LEMMA SettleOnType ==
    ASSUME NEW c \in BootControls, NEW f, NEW s \in Slots
    PROVE  SettleOn(c, f, s) \in BootControls
           /\ SettleOn(c, f, s).pending = SlotNone
<1> DEFINE rs == [c.rec EXCEPT ![s].present = @ \/ IsSlotVectorValid(f, s)]
<1>1. IsSlotVectorValid(f, s) \in BOOLEAN
  BY DEF IsSlotVectorValid
<1>2. rs \in [Slots -> SlotRecords]
  BY <1>1 DEF BootControls, SlotRecords
<1> QED
  BY <1>2, CounterMaxAssumption DEF SettleOn, BootControls

(***************************************************************************)
(* The inductive invariant.  PendingVerified alone is not inductive: a     *)
(* save may bring any boot control that the program holds in RAM to flash, *)
(* and a slot is written long after the page that allows it was saved.     *)
(***************************************************************************)
\* The pending slot of boot control c holds the image c records for it.
Verified(c) ==
    c.pending # SlotNone =>
        ValidateDigestsAndVector(slots, c.pending, c.rec[c.pending].img)

\* A file is being received: it goes to the slot that bc does not confirm.
InFile ==
    \/ pc \in {"begin_bootctl", "begin_erase", "begun", "wrote", "verify"}
    \/ pc = "loader" /\ want # NoImage

\* The slot is open for writing.
Open ==
    \/ pc \in {"begun", "wrote", "verify"}
    \/ pc = "loader" /\ want # NoImage
    \/ pc = "begin_erase" /\ wr = "none" /\ wrOk

BootPCs == {"boot_load", "boot_watchdog", "boot_active", "boot_timeout",
            "boot_recovery", "boot_select", "trial", "mark_failed"}

FlashVerified == bootctl # Unreadable => Verified(bootctl)

FileIsForSpare ==
    InFile => /\ bc.pending = SlotNone
              /\ xfer = GetOtherSlot(bc.confirmed)
              /\ want \in Images /\ feed \in Images

\* A slot is opened only after its boot control page is on flash, and no save
\* of that page is under way until it is closed.
OpenIsSaved ==
    /\ Open => bootctl = bc /\ wr # "bootctl"
    /\ pc = "begin_erase" => wr # "state"

NoFileOutsideSession ==
    /\ phase = "file" => want # NoImage
    /\ pc \in BootPCs => want = NoImage

IInv ==
    /\ TypeOK
    /\ FlashVerified
    /\ Verified(bc)
    /\ FileIsForSpare
    /\ OpenIsSaved
    /\ NoFileOutsideSession

(***************************************************************************)
(* Steps that several actions share.                                       *)
(***************************************************************************)
InFilePCs == {"begin_bootctl", "begin_erase", "begun", "wrote", "verify"}

\* A step that touches neither flash nor the session, and stays clear of the
\* file being received, preserves the invariant if it leaves a verified bc.
LEMMA QuietStep ==
    ASSUME IInv, UNCHANGED <<flash, session>>,
           pc' \in PCs \ InFilePCs,
           pc' \in BootPCs \cup {"loader"} => want = NoImage,
           wr' \in {"none", "state", "bootctl"}, wrOk' \in BOOLEAN,
           iwdg' \in BOOLEAN, st' \in StateImages,
           bc' \in BootControls, Verified(bc)',
           bootSlot' \in Slots \cup {SlotNone},
           lastErr' \in BOOLEAN, confirmed' \in BOOLEAN
    PROVE  IInv'
<1>1. TypeOK'
  BY DEF IInv, TypeOK, flash, session
<1>2. FlashVerified'
  BY DEF IInv, FlashVerified, Verified, flash
<1>3. FileIsForSpare' /\ OpenIsSaved' /\ NoFileOutsideSession'
  BY DEF IInv, FileIsForSpare, OpenIsSaved, NoFileOutsideSession, InFile,
     Open, BootPCs, InFilePCs, session
<1> QED
  BY <1>1, <1>2, <1>3 DEF IInv

\* A reset preserves the invariant, even one that tears a page.
LEMMA ResetStep ==
    ASSUME IInv, NEW b \in BOOLEAN, ResetCpu(b), UNCHANGED slots,
           statePage' \in {statePage, Unreadable},
           bootctl' \in {bootctl, Unreadable}
    PROVE  IInv'
<1>1. TypeOK'
  <2>1. /\ statePage' \in StateImages \cup {Unreadable}
        /\ bootctl' \in BootControls \cup {Unreadable}
        /\ slots' \in Contents
    BY DEF IInv, TypeOK
  <2>2. bc' \in BootControls /\ st' \in StateImages
    BY InitBootControlType, InitStateImageType DEF ResetCpu
  <2>3. /\ wrOk' \in BOOLEAN /\ iwdg' \in BOOLEAN
        /\ lastErr' \in BOOLEAN /\ confirmed' \in BOOLEAN
    BY DEF ResetCpu
  <2>4. erased' \in 0..MaxPages /\ written' \in 0..MaxPages
    BY MaxPagesAssumption DEF ResetCpu
  <2> QED
    BY <2>1, <2>2, <2>3, <2>4 DEF TypeOK, ResetCpu, PCs
<1>2. FlashVerified'
  BY DEF IInv, FlashVerified, Verified
<1>3. Verified(bc)'
  BY InitBootControlType DEF ResetCpu, Verified
<1>4. FileIsForSpare' /\ OpenIsSaved' /\ NoFileOutsideSession'
  BY DEF ResetCpu, FileIsForSpare, OpenIsSaved, NoFileOutsideSession,
     InFile, Open
<1> QED
  BY <1>1, <1>2, <1>3, <1>4 DEF IInv

\* Giving up the session preserves the invariant.
LEMMA MarkFailedStep ==
    ASSUME IInv, MarkFailed,
           UNCHANGED <<flash, iwdg, bc, bootSlot, xfer, confirmed>>
    PROVE  IInv'
<1>1. TypeOK'
  BY CounterMaxAssumption, MaxPagesAssumption
     DEF IInv, TypeOK, MarkFailed, SaveThen, flash, PCs, StateImages, States
<1>2. FlashVerified' /\ Verified(bc)'
  BY DEF IInv, FlashVerified, Verified, flash
<1>3. FileIsForSpare' /\ OpenIsSaved' /\ NoFileOutsideSession'
  BY DEF MarkFailed, SaveThen, FileIsForSpare, OpenIsSaved,
     NoFileOutsideSession, InFile, Open, BootPCs
<1> QED
  BY <1>1, <1>2, <1>3 DEF IInv

(***************************************************************************)
(* The inductive invariant holds initially and is preserved by each part   *)
(* of the next-state relation.                                             *)
(***************************************************************************)
LEMMA InitIInv == Init => IInv
<1> SUFFICES ASSUME Init PROVE IInv
  OBVIOUS
<1>1. PICK i \in Images : slots = [s \in Slots |-> [p \in Pages |->
                             IF s = SlotA /\ p <= Size[i] THEN i ELSE NoImage]]
  BY DEF Init
<1>2. slots \in Contents
  BY <1>1 DEF Contents
<1>3. bc \in BootControls /\ bc.pending = SlotNone /\ st \in StateImages
  BY InitBootControlType, InitStateImageType DEF Init, RamCleared
<1>4. TypeOK
  <2>1. wrOk \in BOOLEAN /\ iwdg \in BOOLEAN /\ lastErr \in BOOLEAN
        /\ confirmed \in BOOLEAN
    BY DEF Init, RamCleared
  <2>2. erased \in 0..MaxPages /\ written \in 0..MaxPages
    BY MaxPagesAssumption DEF Init, RamCleared
  <2> QED
    BY <1>2, <1>3, <2>1, <2>2 DEF TypeOK, Init, RamCleared, PCs
<1>5. FlashVerified /\ Verified(bc)
  BY <1>3 DEF FlashVerified, Verified, Init
<1>6. FileIsForSpare /\ OpenIsSaved /\ NoFileOutsideSession
  BY DEF Init, RamCleared, FileIsForSpare, OpenIsSaved, NoFileOutsideSession,
     InFile, Open
<1> QED
  BY <1>4, <1>5, <1>6 DEF IInv

LEMMA FlashWriteIInv == IInv /\ (FlashWrite \/ FlashWriteFails) => IInv'
<1> SUFFICES ASSUME IInv, FlashWrite \/ FlashWriteFails PROVE IInv'
  OBVIOUS
<1>1. /\ UNCHANGED <<slots, pc, iwdg, st, bc, bootSlot, lastErr, session,
                     confirmed>>
      /\ wr # "none" /\ wr' = "none" /\ wrOk' \in BOOLEAN
  BY DEF FlashWrite, FlashWriteFails
<1>2. /\ statePage' \in {statePage, st, Unreadable}
      /\ bootctl' \in {bootctl, bc, Unreadable}
      /\ wr # "bootctl" => bootctl' = bootctl
      /\ bootctl' = bc \/ wr # "bootctl" \/ wrOk' = FALSE
  BY DEF FlashWrite, FlashWriteFails, Interrupted
<1>3. TypeOK'
  BY <1>1, <1>2 DEF IInv, TypeOK, session
<1>4. FlashVerified' /\ Verified(bc)'
  BY <1>1, <1>2 DEF IInv, FlashVerified, Verified
<1>5. FileIsForSpare' /\ NoFileOutsideSession'
  BY <1>1 DEF IInv, FileIsForSpare, NoFileOutsideSession, InFile, session
<1>6. OpenIsSaved'
  <2>1. CASE Open
    BY <2>1, <1>1, <1>2 DEF IInv, OpenIsSaved
  <2>2. CASE ~Open
    <3>1. Open' => pc = "begin_erase" /\ wrOk'
      BY <2>2, <1>1 DEF Open, session
    <3>2. Open' => bootctl' = bc
      BY <3>1, <2>2, <1>1, <1>2 DEF Open, IInv, OpenIsSaved, TypeOK
    <3> QED
      BY <3>2, <1>1 DEF OpenIsSaved, IInv
  <2> QED
    BY <2>1, <2>2
<1> QED
  BY <1>3, <1>4, <1>5, <1>6 DEF IInv

LEMMA BootStepIInv == IInv /\ (BootStep \/ ForceStay) => IInv'
<1> SUFFICES ASSUME IInv, BootStep \/ ForceStay PROVE IInv'
  OBVIOUS
<1> USE DEF PCs, InFilePCs, BootPCs, At, GoTo, SaveThen
<1>a. /\ TypeOK
      /\ bc \in BootControls
      /\ pc \in BootPCs => want = NoImage
      /\ Verified(bc)
  BY DEF IInv, TypeOK, NoFileOutsideSession
<1>0. /\ bc.active \in Slots /\ bc.confirmed \in Slots
      /\ bc.pending \in Slots \cup {SlotNone}
      /\ bc.wdg \in 0..CounterMax /\ bc.rec \in [Slots -> SlotRecords]
      /\ 0 \in 0..CounterMax
  BY <1>a, CounterMaxAssumption DEF BootControls
<1>1. CASE BootLoad
  <2> DEFINE c == NormalizeBootControl(LoadBootControl(bootctl), slots)
  <2>1. LoadBootControl(bootctl) \in BootControls
        /\ Verified(LoadBootControl(bootctl))
    BY <1>a, LoadBootControlType, InitBootControlType
       DEF LoadBootControl, IInv, FlashVerified, TypeOK, Verified
  <2>2. c \in BootControls /\ Verified(c)
    BY <2>1, NormalizeType DEF Verified
  <2>3. st' \in StateImages
    BY <1>1, <1>a, LoadStateType DEF BootLoad, TypeOK
  <2>4. bc' = c /\ Verified(bc)'
    BY <1>1, <2>2 DEF BootLoad, Verified, flash
  <2> QED
    BY <1>1, <1>a, <2>2, <2>3, <2>4, QuietStep DEF BootLoad, TypeOK, flash, session
<1>2. CASE BootWatchdogCount
  <2>1. bc' \in BootControls /\ bc'.pending = bc.pending /\ bc'.rec = bc.rec
    BY <1>2, <1>a, SaturateType, CounterMaxAssumption
       DEF BootWatchdogCount, TypeOK, BootControls
  <2>2. Verified(bc)'
    BY <1>2, <1>a, <2>1 DEF Verified, BootWatchdogCount, flash
  <2> QED
    BY <1>2, <1>a, <2>1, <2>2, QuietStep
       DEF BootWatchdogCount, TypeOK, flash, session
<1>3. CASE BootUpgradeActive
  <2>1. st' \in StateImages
    BY <1>3, <1>a, SaturateType DEF BootUpgradeActive, TypeOK, StateImages
  <2>2. Verified(bc)'
    BY <1>3, <1>a DEF Verified, BootUpgradeActive, flash
  <2> QED
    BY <1>3, <1>a, <2>1, <2>2, QuietStep
       DEF BootUpgradeActive, TypeOK, flash, session
<1>4. CASE BootUpgradeNotActive
  <2>1. Verified(bc)'
    BY <1>4, <1>a DEF Verified, BootUpgradeNotActive, flash
  <2> QED
    BY <1>4, <1>a, <2>1, QuietStep
       DEF BootUpgradeNotActive, TypeOK, flash, session
<1>b. ASSUME NEW s \in Slots, RollbackToSlot(s)
      PROVE  /\ bc' \in BootControls /\ Verified(bc)'
             /\ bootSlot' = s /\ pc' = "mark_failed" /\ st' = st
             /\ wr' = "bootctl" /\ wrOk' = TRUE
  <2>a. bc' = [active |-> s, confirmed |-> s, pending |-> SlotNone,
               attempts |-> 0, wdg |-> 0, rec |-> bc.rec]
    BY <1>a, <1>b DEF RollbackToSlot, BootControls
  <2>1. bc' \in BootControls /\ bc'.pending = SlotNone
    BY <1>0, <2>a DEF BootControls
  <2> QED
    BY <1>b, <2>1 DEF RollbackToSlot, Verified
<1>5. CASE BootTimeout
  <2> DEFINE best == FindBestSlot(bc, slots, SlotNone)
  <2>1. CASE best # SlotNone /\ RollbackToSlot(best)
    <3>1. best \in Slots
      BY <2>1, BestSlotType
    <3> HIDE DEF best
    <3> QED
      BY <1>5, <1>a, <1>b, <2>1, <3>1, QuietStep
         DEF BootTimeout, TypeOK, flash, session
  <2>2. CASE GoTo("loader") /\ UNCHANGED <<st, bc, bootSlot>>
    <3>1. Verified(bc)'
      BY <1>5, <1>a, <2>2 DEF Verified, BootTimeout, flash
    <3> QED
      BY <1>5, <1>a, <2>2, <3>1, QuietStep
         DEF BootTimeout, TypeOK, flash, session
  <2> QED
    BY <1>5, <2>1, <2>2 DEF BootTimeout
<1>6. CASE BootRecovery
  <2> DEFINE fallback == FindBestSlot(bc, slots,
                IF bc.pending # SlotNone THEN bc.pending ELSE bc.active)
  <2>1. CASE GoTo("boot_select") /\ UNCHANGED <<st, bc, bootSlot>>
    <3>1. Verified(bc)'
      BY <1>6, <1>a, <2>1 DEF Verified, BootRecovery, flash
    <3> QED
      BY <1>6, <1>a, <2>1, <3>1, QuietStep
         DEF BootRecovery, TypeOK, flash, session
  <2>2. CASE fallback # SlotNone /\ RollbackToSlot(fallback)
    <3>1. fallback \in Slots
      BY <2>2, BestSlotType
    <3> HIDE DEF fallback
    <3> QED
      BY <1>6, <1>a, <1>b, <2>2, <3>1, QuietStep
         DEF BootRecovery, TypeOK, flash, session
  <2>3. CASE /\ bc' = [bc EXCEPT !.pending = SlotNone, !.attempts = 0,
                                 !.wdg = 0]
             /\ SaveThen("bootctl", "mark_failed")
             /\ UNCHANGED <<st, bootSlot>>
    <3>a. bc' = [active |-> bc.active, confirmed |-> bc.confirmed,
                 pending |-> SlotNone, attempts |-> 0, wdg |-> 0,
                 rec |-> bc.rec]
      BY <1>a, <2>3 DEF BootControls
    <3>1. bc' \in BootControls /\ bc'.pending = SlotNone
      BY <1>0, <3>a DEF BootControls
    <3>2. Verified(bc)'
      BY <3>1 DEF Verified
    <3> QED
      BY <1>6, <1>a, <2>3, <3>1, <3>2, QuietStep
         DEF BootRecovery, TypeOK, flash, session
  <2> QED
    BY <1>6, <2>1, <2>2, <2>3 DEF BootRecovery
<1>7. CASE MarkUpgradeFailed
  <2>1. Verified(bc)'
    BY <1>7, <1>a DEF Verified, MarkUpgradeFailed, flash
  <2>2. st' \in StateImages
    BY <1>7, CounterMaxAssumption DEF MarkUpgradeFailed, StateImages, States
  <2> QED
    BY <1>7, <1>a, <2>1, <2>2, QuietStep
       DEF MarkUpgradeFailed, TypeOK, flash, session
<1>8. CASE ForceStay
  <2>1. Verified(bc)'
    BY <1>8, <1>a DEF Verified, ForceStay, flash
  <2> QED
    BY <1>8, <1>a, <2>1, QuietStep DEF ForceStay, TypeOK, flash, session
<1>9. CASE PendingRejected
  <2> DEFINE fallback == FindBestSlot(bc, slots, bc.pending)
  <2>1. CASE fallback # SlotNone /\ RollbackToSlot(fallback)
    <3>1. fallback \in Slots
      BY <2>1, BestSlotType
    <3> HIDE DEF fallback
    <3> QED
      BY <1>9, <1>a, <1>b, <2>1, <3>1, QuietStep
         DEF PendingRejected, TypeOK, flash, session
  <2>2. CASE GoTo("mark_failed") /\ UNCHANGED <<st, bc, bootSlot>>
    <3>1. Verified(bc)'
      BY <1>9, <1>a, <2>2 DEF Verified, PendingRejected, flash
    <3> QED
      BY <1>9, <1>a, <2>2, <3>1, QuietStep
         DEF PendingRejected, TypeOK, flash, session
  <2> QED
    BY <1>9, <2>1, <2>2 DEF PendingRejected
<1>10. CASE PendingTrial
  <2>1. bc' \in BootControls /\ bc'.pending = bc.pending /\ bc'.rec = bc.rec
    BY <1>10, <1>a, SaturateType, CounterMaxAssumption
       DEF PendingTrial, TypeOK, BootControls
  <2>2. Verified(bc)'
    BY <1>10, <1>a, <2>1 DEF Verified, PendingTrial, flash
  <2> QED
    BY <1>10, <1>a, <2>1, <2>2, QuietStep
       DEF PendingTrial, TypeOK, flash, session
<1>11. CASE PendingTrialSaved
  <2>1. Verified(bc)'
    BY <1>11, <1>a DEF Verified, PendingTrialSaved, flash
  <2>2. bootSlot' \in Slots \cup {SlotNone}
    BY <1>11, <1>a DEF PendingTrialSaved, TypeOK, BootControls
  <2> QED
    BY <1>11, <1>a, <2>1, <2>2, QuietStep
       DEF PendingTrialSaved, TypeOK, flash, session
<1>12. CASE BootBestSlot
  <2> DEFINE best == FindBestSlot(bc, slots, SlotNone)
  <2>1. best \in Slots \cup {SlotNone}
    BY BestSlotType
  <2> HIDE DEF best
  <2>2. \/ bc' = bc
        \/ /\ best # SlotNone
           /\ bc' = [bc EXCEPT !.active = best, !.confirmed = best,
                               !.attempts = 0]
    BY <1>12 DEF BootBestSlot, best
  <2>a. \/ bc' = bc
        \/ /\ best # SlotNone
           /\ bc' = [active |-> best, confirmed |-> best,
                     pending |-> bc.pending, attempts |-> 0,
                     wdg |-> bc.wdg, rec |-> bc.rec]
    BY <1>a, <2>2 DEF BootControls
  <2>3. bc' \in BootControls /\ bc'.pending = bc.pending /\ bc'.rec = bc.rec
    BY <1>0, <1>a, <2>1, <2>a DEF BootControls
  <2>4. Verified(bc)'
    BY <1>12, <1>a, <2>3 DEF Verified, BootBestSlot, flash
  <2>5. /\ bootSlot' \in Slots \cup {SlotNone}
        /\ pc' \in {"loader", "jump"} /\ wr' \in {"none", "bootctl"}
        /\ wrOk' = TRUE
    BY <1>12, <1>a, <2>1 DEF BootBestSlot, TypeOK, best
  <2> QED
    BY <1>12, <1>a, <2>3, <2>4, <2>5, QuietStep
       DEF BootBestSlot, TypeOK, flash, session
<1>13. CASE Jump
  <2>1. Verified(bc)'
    BY <1>13, InitBootControlType DEF Verified, Jump
  <2> QED
    BY <1>13, <1>a, <2>1, InitBootControlType, InitStateImageType, QuietStep
       DEF Jump, TypeOK, flash, session
<1> QED
  BY <1>1, <1>2, <1>3, <1>4, <1>5, <1>6, <1>7, <1>8, <1>9, <1>10, <1>11,
     <1>12, <1>13 DEF BootStep

LEMMA AppStepIInv ==
    IInv /\ (ConfirmRunningSlot \/ RequestBootMode \/ AppStep) => IInv'
<1> SUFFICES ASSUME IInv, ConfirmRunningSlot \/ RequestBootMode \/ AppStep
             PROVE  IInv'
  OBVIOUS
<1> USE DEF PCs, InFilePCs, BootPCs, At, GoTo, SaveThen
<1>a. TypeOK /\ LoadBootControl(bootctl) \in BootControls
  BY LoadBootControlType DEF IInv, TypeOK
<1>b. InitBootControl \in BootControls /\ InitBootControl.pending = SlotNone
      /\ InitStateImage \in StateImages
  BY InitBootControlType, InitStateImageType
<1>c. ASSUME NEW p \in {"confirm_state", "request_state"},
             SettleOnRunningSlot(p), \E i \in Images : RunsImage(i)
      PROVE  IInv'
  <2>1. bootSlot \in Slots
    BY <1>c, <1>a, LinkSlotAssumption
       DEF RunsImage, ValidateDigestsAndVector, IsSlotVectorValid, TypeOK,
           Contents
  <2>2. bc' \in BootControls /\ bc'.pending = SlotNone
    BY <1>a, <1>c, <2>1, SettleOnType DEF SettleOnRunningSlot
  <2>3. Verified(bc)'
    BY <2>2 DEF Verified
  <2> QED
    BY <1>a, <1>c, <2>2, <2>3, QuietStep
       DEF SettleOnRunningSlot, TypeOK, flash, session
<1>1. CASE ConfirmRunningSlot
  BY <1>1, <1>c, HealthyAssumption DEF ConfirmRunningSlot, RunsHealthy
<1>2. CASE RequestBootMode
  BY <1>2, <1>c DEF RequestBootMode
<1>3. CASE ConfirmState
  <2>1. bc' = InitBootControl
    BY <1>3 DEF ConfirmState
  <2>2. Verified(bc)'
    BY <1>b, <2>1 DEF Verified
  <2> QED
    BY <1>3, <1>a, <1>b, <2>1, <2>2, QuietStep
       DEF ConfirmState, TypeOK, flash, session
<1>4. CASE ConfirmDone
  <2>1. Verified(bc)'
    BY <1>4 DEF Verified, ConfirmDone, flash, IInv
  <2> QED
    BY <1>4, <1>a, <2>1, QuietStep DEF ConfirmDone, TypeOK, flash, session
<1>5. CASE RequestState
  <2>1. bc' = InitBootControl
    BY <1>5 DEF RequestState
  <2>2. Verified(bc)'
    BY <1>b, <2>1 DEF Verified
  <2>3. st' \in StateImages
    BY <1>5, <1>a, CounterMaxAssumption
       DEF RequestState, StateImages, States, TypeOK
  <2>4. /\ pc' \in {"app", "request_reset"} /\ wr' \in {"none", "state"}
        /\ wrOk' = TRUE
    BY <1>5 DEF RequestState
  <2> QED
    BY <1>5, <1>a, <1>b, <2>1, <2>2, <2>3, <2>4, QuietStep
       DEF RequestState, TypeOK, flash, session
<1>6. CASE RequestReset
  <2>1. CASE ResetCpu(FALSE)
    BY <1>6, <2>1, ResetStep DEF RequestReset, flash
  <2>2. CASE /\ st' = InitStateImage /\ GoTo("app")
             /\ UNCHANGED <<iwdg, bc, bootSlot, lastErr, session, confirmed>>
    <3>1. Verified(bc)'
      BY <1>6, <2>2 DEF Verified, RequestReset, flash, IInv
    <3> QED
      BY <1>6, <1>a, <1>b, <2>2, <3>1, QuietStep
         DEF RequestReset, TypeOK, flash, session
  <2> QED
    BY <1>6, <2>1, <2>2 DEF RequestReset
<1> QED
  BY <1>1, <1>2, <1>3, <1>4, <1>5, <1>6 DEF AppStep

LEMMA FaultIInv == IInv /\ (WatchdogReset \/ PowerLoss) => IInv'
<1> SUFFICES ASSUME IInv, WatchdogReset \/ PowerLoss PROVE IInv'
  OBVIOUS
<1>1. CASE WatchdogReset
  BY <1>1, ResetStep DEF WatchdogReset, flash
<1>2. CASE PowerLoss
  <2>1. /\ statePage' \in {statePage, Unreadable}
        /\ bootctl' \in {bootctl, Unreadable}
        /\ UNCHANGED slots
    BY <1>2 DEF PowerLoss, Interrupted
  <2>2. PICK flag \in {FALSE, iwdg} : ResetCpu(flag)
    BY <1>2 DEF PowerLoss
  <2>3. flag \in BOOLEAN
    BY <2>2 DEF IInv, TypeOK
  <2> QED
    BY <2>1, <2>2, <2>3, ResetStep
<1> QED
  BY <1>1, <1>2

\* One page of the transfer slot is erased or programmed: nothing is pending,
\* in RAM or on flash, so that no promise about its contents is broken.
LEMMA OpenSlotWrite ==
    ASSUME IInv, Open, NEW p \in Pages, NEW v \in Images \cup {NoImage},
           slots' = [slots EXCEPT ![xfer][p] = v]
    PROVE  /\ slots' \in Contents
           /\ \A s \in Slots : slots'[s] # slots[s] => s = xfer
           /\ bootctl = bc /\ bc.pending = SlotNone /\ bc.confirmed # xfer
<1>1. InFile
  BY DEF Open, InFile
<1>2. /\ bootctl = bc /\ bc.pending = SlotNone
      /\ xfer = GetOtherSlot(bc.confirmed) /\ bc.confirmed \in Slots
  BY <1>1 DEF IInv, OpenIsSaved, FileIsForSpare, TypeOK, BootControls
<1>3. xfer \in Slots /\ bc.confirmed # xfer
  BY <1>2 DEF GetOtherSlot
<1>4. slots \in Contents
  BY DEF IInv, TypeOK
<1>5. /\ slots' \in Contents
      /\ \A t \in Slots \ {xfer} : slots'[t] = slots[t]
  <2> DEFINE row == [slots[xfer] EXCEPT ![p] = v]
  <2>1. row \in [Pages -> Images \cup {NoImage}]
    BY <1>3, <1>4 DEF Contents
  <2>2. slots' = [slots EXCEPT ![xfer] = row]
    OBVIOUS
  <2> HIDE DEF row
  <2> QED
    BY <1>3, <1>4, <2>1, <2>2 DEF Contents
<1> QED
  BY <1>2, <1>3, <1>5

LEMMA LoaderStepIInv == IInv /\ LoaderStep => IInv'
<1> SUFFICES ASSUME IInv, LoaderStep PROVE IInv'
  OBVIOUS
<1> USE DEF PCs, BootPCs, At, GoTo, SaveThen
<1>a. TypeOK /\ FlashVerified /\ Verified(bc)
  BY DEF IInv
<1>1. CASE BeginBootControl
  <2>1. CASE wrOk /\ SaveThen("bootctl", "begin_erase")
             /\ UNCHANGED <<st, lastErr, phase, want, feed, erased, written>>
    <3>1. TypeOK'
      BY <1>1, <1>a, <2>1 DEF BeginBootControl, TypeOK, flash
    <3>2. FlashVerified' /\ Verified(bc)'
      BY <1>1, <1>a, <2>1
         DEF BeginBootControl, FlashVerified, Verified, flash
    <3>3. FileIsForSpare' /\ OpenIsSaved' /\ NoFileOutsideSession'
      BY <1>1, <2>1 DEF BeginBootControl, IInv, FileIsForSpare, OpenIsSaved,
         NoFileOutsideSession, InFile, Open
    <3> QED
      BY <3>1, <3>2, <3>3 DEF IInv
  <2>2. CASE MarkFailed
    BY <1>1, <2>2, MarkFailedStep DEF BeginBootControl
  <2> QED
    BY <1>1, <2>1, <2>2 DEF BeginBootControl
<1>2. CASE EraseSlotPage
  <2>1. Open /\ InFile
    BY <1>2 DEF EraseSlotPage, Open, InFile
  <2>2. Size[want] \in Pages /\ erased \in 0..MaxPages
    BY <1>a, <2>1, SizeAssumption DEF IInv, FileIsForSpare, TypeOK
  <2>3. erased + 1 \in Pages /\ erased' \in 0..MaxPages
    BY <1>2, <2>2, MaxPagesAssumption DEF EraseSlotPage
  <2>4. /\ slots' \in Contents
        /\ bootctl = bc /\ bc.pending = SlotNone
    BY <1>2, <2>1, <2>3, OpenSlotWrite DEF EraseSlotPage
  <2>5. TypeOK'
    BY <1>2, <1>a, <2>3, <2>4 DEF EraseSlotPage, TypeOK
  <2>6. FlashVerified' /\ Verified(bc)'
    BY <1>2, <2>4 DEF EraseSlotPage, FlashVerified, Verified
  <2>7. FileIsForSpare' /\ OpenIsSaved' /\ NoFileOutsideSession'
    BY <1>2, <2>1 DEF EraseSlotPage, IInv, FileIsForSpare, OpenIsSaved,
       NoFileOutsideSession, InFile, Open
  <2> QED
    BY <2>5, <2>6, <2>7 DEF IInv
<1>3. CASE EraseFails
  BY <1>3, MarkFailedStep DEF EraseFails
<1>4. CASE EraseDone
  <2>1. TypeOK'
    <3>1. st' \in StateImages
      BY <1>4, CounterMaxAssumption DEF EraseDone, StateImages, States
    <3> QED
      BY <1>4, <1>a, <3>1 DEF EraseDone, TypeOK, flash, session
  <2>2. FlashVerified' /\ Verified(bc)'
    BY <1>4, <1>a DEF EraseDone, FlashVerified, Verified, flash
  <2>3. FileIsForSpare' /\ OpenIsSaved' /\ NoFileOutsideSession'
    BY <1>4 DEF EraseDone, IInv, FileIsForSpare, OpenIsSaved,
       NoFileOutsideSession, InFile, Open, session, flash
  <2> QED
    BY <2>1, <2>2, <2>3 DEF IInv
<1>5. CASE BeginImageDone
  <2>1. CASE /\ wrOk /\ lastErr' = FALSE /\ phase' = "file"
             /\ GoTo("loader")
             /\ UNCHANGED <<st, want, feed, erased, written>>
    <3>1. TypeOK'
      BY <1>5, <1>a, <2>1 DEF BeginImageDone, TypeOK, flash
    <3>2. FlashVerified' /\ Verified(bc)'
      BY <1>5, <1>a, <2>1 DEF BeginImageDone, FlashVerified, Verified, flash
    <3>3. want \in Images
      BY <1>5 DEF BeginImageDone, IInv, FileIsForSpare, InFile
    <3>4. FileIsForSpare' /\ OpenIsSaved' /\ NoFileOutsideSession'
      BY <1>5, <2>1, <3>3, ImagesAssumption
         DEF BeginImageDone, IInv, FileIsForSpare, OpenIsSaved,
             NoFileOutsideSession, InFile, Open, flash
    <3> QED
      BY <3>1, <3>2, <3>4 DEF IInv
  <2>2. CASE MarkFailed
    BY <1>5, <2>2, MarkFailedStep DEF BeginImageDone
  <2> QED
    BY <1>5, <2>1, <2>2 DEF BeginImageDone
<1>6. CASE WriteImageDataSaved
  <2>1. CASE /\ wrOk /\ lastErr' = FALSE
             /\ GoTo("loader")
             /\ UNCHANGED <<st, phase, want, feed, erased, written>>
    <3>1. TypeOK'
      BY <1>6, <1>a, <2>1 DEF WriteImageDataSaved, TypeOK, flash
    <3>2. FlashVerified' /\ Verified(bc)'
      BY <1>6, <1>a, <2>1
         DEF WriteImageDataSaved, FlashVerified, Verified, flash
    <3>3. FileIsForSpare' /\ OpenIsSaved' /\ NoFileOutsideSession'
      BY <1>6, <2>1 DEF WriteImageDataSaved, IInv, FileIsForSpare,
         OpenIsSaved, NoFileOutsideSession, InFile, Open, flash
    <3> QED
      BY <3>1, <3>2, <3>3 DEF IInv
  <2>2. CASE MarkFailed
    BY <1>6, <2>2, MarkFailedStep DEF WriteImageDataSaved
  <2> QED
    BY <1>6, <2>1, <2>2 DEF WriteImageDataSaved
<1>7. CASE VerifyImage
  <2>1. CASE /\ wrOk /\ ValidateDigestsAndVector(slots, xfer, want)
             /\ st' = [state |-> "done", boots |-> 0]
             /\ bc' = [bc EXCEPT !.pending = xfer, !.attempts = 0,
                                 !.rec[xfer] = [img |-> want, present |-> TRUE]]
             /\ lastErr' = FALSE
             /\ SaveThen("state", "done_bootctl")
             /\ UNCHANGED <<phase, want, feed, erased, written>>
    <3>1. /\ want \in Images /\ xfer \in Slots /\ bc \in BootControls
          /\ bc.confirmed \in Slots
      BY <1>7 DEF VerifyImage, IInv, TypeOK, BootControls, FileIsForSpare,
         InFile, GetOtherSlot
    <3> DEFINE rs == [bc.rec EXCEPT ![xfer] = [img |-> want, present |-> TRUE]]
    <3>2. rs \in [Slots -> SlotRecords] /\ rs[xfer].img = want
      BY <3>1 DEF BootControls, SlotRecords
    <3>3. bc' = [active |-> bc.active, confirmed |-> bc.confirmed,
                 pending |-> xfer, attempts |-> 0, wdg |-> bc.wdg, rec |-> rs]
      BY <2>1, <3>1 DEF BootControls
    <3> HIDE DEF rs
    <3>4. bc' \in BootControls
      BY <3>1, <3>2, <3>3, CounterMaxAssumption DEF BootControls
    <3>5. Verified(bc)'
      <4>1. bc'.pending = xfer /\ bc'.rec[bc'.pending].img = want
        BY <3>2, <3>3
      <4>2. ValidateDigestsAndVector(slots', xfer, want)
        BY <1>7, <2>1 DEF VerifyImage, flash
      <4> QED
        BY <4>1, <4>2 DEF Verified
    <3>6. TypeOK'
      <4>1. st' \in StateImages
        BY <2>1, CounterMaxAssumption DEF StateImages, States
      <4> QED
        BY <1>7, <1>a, <2>1, <3>4, <4>1 DEF VerifyImage, TypeOK, flash
    <3>7. FlashVerified'
      BY <1>7, <1>a DEF VerifyImage, FlashVerified, Verified, flash
    <3>8. FileIsForSpare' /\ OpenIsSaved' /\ NoFileOutsideSession'
      BY <2>1 DEF IInv, FileIsForSpare, OpenIsSaved, NoFileOutsideSession,
         InFile, Open
    <3> QED
      BY <3>5, <3>6, <3>7, <3>8 DEF IInv
  <2>2. CASE MarkFailed /\ UNCHANGED bc
    BY <1>7, <2>2, MarkFailedStep DEF VerifyImage
  <2> QED
    BY <1>7, <2>1, <2>2 DEF VerifyImage
<1>8. CASE MarkDoneBootControl
  <2>1. CASE /\ wrOk /\ SaveThen("bootctl", "done_reset")
             /\ UNCHANGED <<st, lastErr, phase, want, feed, erased, written>>
    <3>1. TypeOK'
      BY <1>8, <1>a, <2>1 DEF MarkDoneBootControl, TypeOK, flash
    <3>2. FlashVerified' /\ Verified(bc)'
      BY <1>8, <1>a, <2>1
         DEF MarkDoneBootControl, FlashVerified, Verified, flash
    <3>3. FileIsForSpare' /\ OpenIsSaved' /\ NoFileOutsideSession'
      BY <2>1 DEF IInv, FileIsForSpare, OpenIsSaved, NoFileOutsideSession,
         InFile, Open
    <3> QED
      BY <3>1, <3>2, <3>3 DEF IInv
  <2>2. CASE MarkFailed
    BY <1>8, <2>2, MarkFailedStep DEF MarkDoneBootControl
  <2> QED
    BY <1>8, <2>1, <2>2 DEF MarkDoneBootControl
<1>9. CASE ResetAfterDone
  <2>1. CASE ResetCpu(FALSE)
    BY <1>9, <2>1, ResetStep DEF ResetAfterDone, flash
  <2>2. CASE MarkFailed /\ UNCHANGED <<iwdg, bc, bootSlot, xfer, confirmed>>
    BY <1>9, <2>2, MarkFailedStep DEF ResetAfterDone
  <2> QED
    BY <1>9, <2>1, <2>2 DEF ResetAfterDone
<1> QED
  BY <1>1, <1>2, <1>3, <1>4, <1>5, <1>6, <1>7, <1>8, <1>9 DEF LoaderStep

LEMMA SessionStepIInv == IInv /\ SessionStep => IInv'
<1> SUFFICES ASSUME IInv, SessionStep PROVE IInv'
  OBVIOUS
<1> USE DEF PCs, BootPCs, At, GoTo, SaveThen
<1>a. TypeOK /\ FlashVerified /\ Verified(bc) /\ bc \in BootControls
  BY DEF IInv, TypeOK
<1>1. ASSUME NEW h \in Images, NEW d \in Images, BeginImage(h, d)
      PROVE  IInv'
  <2>1. bc.confirmed \in Slots /\ xfer' = GetOtherSlot(bc.confirmed)
        /\ xfer' \in Slots
    BY <1>1, <1>a DEF BeginImage, SelectDownloadSlot, BootControls,
       GetOtherSlot
  <2> DEFINE rs == [bc.rec EXCEPT ![xfer'] = ClearedRecord]
  <2>2. rs \in [Slots -> SlotRecords]
    BY <1>a, <2>1 DEF BootControls, SlotRecords, ClearedRecord
  <2>3. bc' = [active |-> bc.active, confirmed |-> bc.confirmed,
               pending |-> SlotNone, attempts |-> 0, wdg |-> 0, rec |-> rs]
    BY <1>1, <1>a DEF BeginImage, BootControls
  <2> HIDE DEF rs
  <2>4. bc' \in BootControls
    BY <1>a, <2>1, <2>2, <2>3, CounterMaxAssumption DEF BootControls
  <2>5. st' \in StateImages
    BY <1>1, CounterMaxAssumption DEF BeginImage, StateImages, States
  <2>6. TypeOK'
    BY <1>1, <1>a, <2>1, <2>4, <2>5, MaxPagesAssumption
       DEF BeginImage, TypeOK, flash
  <2>7. FlashVerified' /\ Verified(bc)'
    BY <1>1, <1>a, <2>3 DEF BeginImage, FlashVerified, Verified, flash
  <2>8. FileIsForSpare' /\ OpenIsSaved' /\ NoFileOutsideSession'
    BY <1>1, <2>1, <2>3, ImagesAssumption
       DEF BeginImage, IInv, FileIsForSpare, OpenIsSaved,
           NoFileOutsideSession, InFile, Open
  <2> QED
    BY <2>6, <2>7, <2>8 DEF IInv
<1>2. CASE HeaderRefused
  BY <1>2, MarkFailedStep DEF HeaderRefused
<1>3. CASE WriteImageData
  <2>1. want # NoImage
    BY <1>3 DEF WriteImageData, IInv, NoFileOutsideSession
  <2>2. Open /\ InFile
    BY <1>3, <2>1 DEF WriteImageData, Open, InFile
  <2>3. Size[want] \in Pages /\ written \in 0..MaxPages /\ feed \in Images
    BY <1>a, <2>2, SizeAssumption DEF IInv, FileIsForSpare, TypeOK
  <2>4. written + 1 \in Pages /\ written' \in 0..MaxPages
    BY <1>3, <2>3, MaxPagesAssumption DEF WriteImageData
  <2>5. /\ slots' \in Contents
        /\ bootctl = bc /\ bc.pending = SlotNone
    BY <1>3, <2>2, <2>3, <2>4, OpenSlotWrite DEF WriteImageData
  <2>6. st' \in StateImages
    BY <1>3, <1>a, CounterMaxAssumption
       DEF WriteImageData, TypeOK, StateImages
  <2>7. TypeOK'
    BY <1>3, <1>a, <2>4, <2>5, <2>6 DEF WriteImageData, TypeOK
  <2>8. FlashVerified' /\ Verified(bc)'
    BY <1>3, <2>5 DEF WriteImageData, FlashVerified, Verified
  <2>9. FileIsForSpare' /\ OpenIsSaved' /\ NoFileOutsideSession'
    BY <1>3, <2>1, <2>2 DEF WriteImageData, IInv, FileIsForSpare,
       OpenIsSaved, NoFileOutsideSession, InFile, Open
  <2> QED
    BY <2>7, <2>8, <2>9 DEF IInv
<1>4. CASE ProgramFails
  BY <1>4, MarkFailedStep DEF ProgramFails
<1>5. CASE EndOfFile
  <2>1. TypeOK'
    BY <1>5, <1>a DEF EndOfFile, TypeOK, flash
  <2>2. FlashVerified' /\ Verified(bc)'
    BY <1>5, <1>a DEF EndOfFile, FlashVerified, Verified, flash
  <2>3. FileIsForSpare' /\ OpenIsSaved' /\ NoFileOutsideSession'
    BY <1>5 DEF EndOfFile, IInv, FileIsForSpare, OpenIsSaved,
       NoFileOutsideSession, InFile, Open, flash
  <2> QED
    BY <2>1, <2>2, <2>3 DEF IInv
<1>6. CASE SessionFails
  <2>1. CASE MarkFailed
    BY <1>6, <2>1, MarkFailedStep DEF SessionFails
  <2>2. CASE /\ phase' = "idle" /\ want' = NoImage /\ feed' = NoImage
             /\ erased' = 0 /\ written' = 0
             /\ UNCHANGED <<st, lastErr, pc, wr, wrOk>>
    <3>1. TypeOK'
      BY <1>6, <1>a, <2>2, MaxPagesAssumption
         DEF SessionFails, TypeOK, flash
    <3>2. FlashVerified' /\ Verified(bc)'
      BY <1>6, <1>a, <2>2 DEF SessionFails, FlashVerified, Verified, flash
    <3>3. FileIsForSpare' /\ OpenIsSaved' /\ NoFileOutsideSession'
      BY <1>6, <2>2 DEF SessionFails, FileIsForSpare, OpenIsSaved,
         NoFileOutsideSession, InFile, Open
    <3> QED
      BY <3>1, <3>2, <3>3 DEF IInv
  <2> QED
    BY <1>6, <2>1, <2>2 DEF SessionFails
<1>7. CASE EmptySession
  <2>1. TypeOK'
    BY <1>7, <1>a DEF EmptySession, TypeOK, flash
  <2>2. FlashVerified' /\ Verified(bc)'
    BY <1>7, <1>a DEF EmptySession, FlashVerified, Verified, flash
  <2>3. FileIsForSpare' /\ OpenIsSaved' /\ NoFileOutsideSession'
    BY <1>7 DEF EmptySession, FileIsForSpare, OpenIsSaved,
       NoFileOutsideSession, InFile, Open
  <2> QED
    BY <2>1, <2>2, <2>3 DEF IInv
<1>8. CASE FinalizeSession
  <2>1. CASE MarkFailed
    BY <1>8, <2>1, MarkFailedStep DEF FinalizeSession
  <2>2. CASE /\ st' = [state |-> "verifying", boots |-> 0]
             /\ SaveThen("state", "verify")
             /\ UNCHANGED <<lastErr, phase, want, feed, erased, written>>
    <3>1. st' \in StateImages
      BY <2>2, CounterMaxAssumption DEF StateImages, States
    <3>2. TypeOK'
      BY <1>8, <1>a, <2>2, <3>1 DEF FinalizeSession, TypeOK, flash
    <3>3. FlashVerified' /\ Verified(bc)'
      BY <1>8, <1>a, <2>2
         DEF FinalizeSession, FlashVerified, Verified, flash
    <3>4. FileIsForSpare' /\ OpenIsSaved' /\ NoFileOutsideSession'
      BY <1>8, <2>2 DEF FinalizeSession, IInv, FileIsForSpare, OpenIsSaved,
         NoFileOutsideSession, InFile, Open, flash
    <3> QED
      BY <3>2, <3>3, <3>4 DEF IInv
  <2> QED
    BY <1>8, <2>1, <2>2 DEF FinalizeSession
<1> QED
  BY <1>1, <1>2, <1>3, <1>4, <1>5, <1>6, <1>7, <1>8 DEF SessionStep

LEMMA StutterIInv == IInv /\ UNCHANGED vars => IInv'
<1> SUFFICES ASSUME IInv, UNCHANGED vars PROVE IInv'
  OBVIOUS
<1>1. TypeOK'
  BY DEF IInv, TypeOK, vars
<1>2. FlashVerified' /\ Verified(bc)'
  BY DEF IInv, FlashVerified, Verified, vars
<1>3. FileIsForSpare' /\ OpenIsSaved' /\ NoFileOutsideSession'
  BY DEF IInv, FileIsForSpare, OpenIsSaved, NoFileOutsideSession, InFile,
     Open, vars
<1> QED
  BY <1>1, <1>2, <1>3 DEF IInv

LEMMA NextIInv == IInv /\ [Next]_vars => IInv'
BY FlashWriteIInv, BootStepIInv, LoaderStepIInv, SessionStepIInv,
   AppStepIInv, FaultIInv, StutterIInv DEF Next, Program

(***************************************************************************)
(* The theorems.                                                           *)
(***************************************************************************)
\* The inductive invariant holds in every reachable state.
THEOREM Invariance == Spec => []IInv
BY InitIInv, NextIInv, PTL DEF Spec

\* Every variable keeps its type: no page index leaves the slot, no counter
\* passes its saturation point and no slot number is anything but a slot.
THEOREM TypeCorrect == Spec => []TypeOK
<1>1. IInv => TypeOK
  BY DEF IInv
<1> QED
  BY <1>1, Invariance, PTL

\* Whatever fails and whenever the power is lost, the slot that the boot
\* control page calls pending holds the whole, checked image of its record.
THEOREM PendingSlotVerified == Spec => []PendingVerified
<1>1. IInv => PendingVerified
  BY DEF IInv, FlashVerified, Verified, PendingVerified
<1> QED
  BY <1>1, Invariance, PTL

\* No step writes to the slot that the boot control page confirms, or to any
\* slot while that page is unreadable or has a slot pending.
LEMMA StepWritesSpare ==
    IInv /\ [Next]_vars =>
        [\A s \in Slots : slots'[s] # slots[s] =>
            /\ bootctl # Unreadable
            /\ bootctl.confirmed # s
            /\ bootctl.pending = SlotNone]_vars
<1> SUFFICES ASSUME IInv, Next, NEW s \in Slots, slots'[s] # slots[s]
             PROVE  /\ bootctl # Unreadable
                    /\ bootctl.confirmed # s
                    /\ bootctl.pending = SlotNone
  OBVIOUS
<1>1. EraseSlotPage \/ WriteImageData
  BY DEF Next, Program, FlashWrite, FlashWriteFails, PowerLoss, WatchdogReset,
     BootStep, BootLoad, BootWatchdogCount, BootUpgradeActive,
     BootUpgradeNotActive, BootTimeout, BootRecovery, MarkUpgradeFailed,
     ForceStay, PendingRejected, PendingTrial, PendingTrialSaved,
     BootBestSlot, Jump, LoaderStep, BeginBootControl, EraseFails, EraseDone,
     BeginImageDone, WriteImageDataSaved, VerifyImage, MarkDoneBootControl,
     ResetAfterDone, SessionStep, BeginImage, HeaderRefused, ProgramFails,
     EndOfFile, SessionFails, EmptySession, FinalizeSession,
     ConfirmRunningSlot, RequestBootMode, SettleOnRunningSlot, AppStep,
     ConfirmState, ConfirmDone, RequestState, RequestReset, flash
<1>2. /\ s = xfer /\ bootctl = bc
      /\ bc.pending = SlotNone /\ bc.confirmed # xfer
  <2>1. CASE EraseSlotPage
    <3>1. Open /\ InFile
      BY <2>1 DEF EraseSlotPage, At, Open, InFile
    <3>2. want \in Images /\ erased \in Nat
      BY <3>1 DEF IInv, TypeOK, FileIsForSpare
    <3>3. erased + 1 \in Pages
      BY <2>1, <3>2, SizeAssumption, MaxPagesAssumption DEF EraseSlotPage
    <3> QED
      BY <2>1, <3>1, <3>3, OpenSlotWrite DEF EraseSlotPage
  <2>2. CASE WriteImageData
    <3>1. Open /\ InFile
      BY <2>2 DEF WriteImageData, At, Open, InFile, IInv,
         NoFileOutsideSession
    <3>2. want \in Images /\ feed \in Images /\ written \in Nat
      BY <3>1 DEF IInv, TypeOK, FileIsForSpare
    <3>3. written + 1 \in Pages
      BY <2>2, <3>2, SizeAssumption, MaxPagesAssumption DEF WriteImageData
    <3> QED
      BY <2>2, <3>1, <3>2, <3>3, OpenSlotWrite DEF WriteImageData
  <2> QED
    BY <1>1, <2>1, <2>2
<1>3. bc \in BootControls
  BY DEF IInv, TypeOK
<1> QED
  BY <1>2, <1>3, UnreadableAssumption

\* A slot is written only while the page on flash confirms the other slot:
\* BootFlash_BeginImage saves its choice before the first page is erased.
THEOREM WritesSpare == Spec => WritesSpareConfirmed
BY Invariance, StepWritesSpare, PTL DEF Spec, WritesSpareConfirmed

(***************************************************************************)
(* What the device can fall back to.  The confirmed slot of every boot     *)
(* control the loader works with can be started and is not the pending     *)
(* one, so that FindBestSlot comes to it before any other.                 *)
(***************************************************************************)
Startable(s) == IsSlotVectorValid(slots, s)

\* Where bc is not the boot control of a start or of a settling.
BlankPCs == {"boot_load", "app", "confirm_done", "request_reset"}

SomeStartable == \E s \in Slots : Startable(s)

PageStands ==
    bootctl # Unreadable => /\ Startable(bootctl.confirmed)
                            /\ bootctl.pending # bootctl.confirmed

CopyStands ==
    /\ bc.pending # bc.confirmed
    /\ pc \in PCs \ BlankPCs \/ wr = "bootctl" => Startable(bc.confirmed)

Standing == SomeStartable /\ PageStands /\ CopyStands

\* FindBestSlot prefers the confirmed slot.
LEMMA BestIsConfirmed ==
    ASSUME NEW c \in BootControls, NEW f, NEW x,
           IsSlotVectorValid(f, c.confirmed), x # c.confirmed
    PROVE  FindBestSlot(c, f, x) = c.confirmed
BY DEF FindBestSlot, BootControls

\* What FindBestSlot returns can be started and is not the excluded slot.
LEMMA BestIsFit ==
    ASSUME NEW c \in BootControls, NEW f, NEW x,
           FindBestSlot(c, f, x) # SlotNone
    PROVE  /\ FindBestSlot(c, f, x) \in Slots \ {x}
           /\ IsSlotVectorValid(f, FindBestSlot(c, f, x))
BY DEF FindBestSlot, BootControls

\* If some slot can be started, FindBestSlot finds one.
LEMMA BestExists ==
    ASSUME NEW c \in BootControls, NEW f, NEW s \in Slots,
           IsSlotVectorValid(f, s)
    PROVE  FindBestSlot(c, f, SlotNone) # SlotNone
BY DEF FindBestSlot, BootControls

\* NormalizeBootControl leaves the confirmed slot alone if it can be started;
\* otherwise it takes one that can.
LEMMA NormalizeStands ==
    ASSUME NEW c \in BootControls, NEW f, NEW s \in Slots,
           IsSlotVectorValid(f, s)
    PROVE  LET n == NormalizeBootControl(c, f)
           IN /\ IsSlotVectorValid(f, n.confirmed)
              /\ IsSlotVectorValid(f, c.confirmed) =>
                    n.confirmed = c.confirmed
              /\ n.attempts = c.attempts /\ n.wdg = c.wdg
<1> DEFINE best == FindBestSlot(c, f, SlotNone)
<1>1. best # SlotNone
  BY BestExists
<1>2. IsSlotVectorValid(f, best)
  BY <1>1, BestIsFit
<1> HIDE DEF best
<1>3. IsSlotVectorValid(f, c.confirmed) \in BOOLEAN
  BY DEF IsSlotVectorValid
<1>4. NormalizeBootControl(c, f).confirmed =
          IF ~IsSlotVectorValid(f, c.confirmed) THEN best ELSE c.confirmed
  BY <1>1 DEF NormalizeBootControl, BootControls, best
<1>5. /\ NormalizeBootControl(c, f).attempts = c.attempts
      /\ NormalizeBootControl(c, f).wdg = c.wdg
  BY DEF NormalizeBootControl, BootControls
<1> QED
  BY <1>2, <1>4, <1>5

\* A step that writes no slot and brings nothing new to the boot control page
\* but the copy that was being saved.
LEMMA StandingKept ==
    ASSUME Standing, UNCHANGED slots,
           bootctl' \in {bootctl, Unreadable}
              \/ (wr = "bootctl" /\ bootctl' = bc),
           bc'.pending # bc'.confirmed,
           (pc' \in PCs \ BlankPCs \/ wr' = "bootctl") =>
               Startable(bc'.confirmed)
    PROVE  Standing'
BY DEF Standing, SomeStartable, PageStands, CopyStands, Startable

\* The loader, a session or a start goes on with the same boot control.
LEMMA StandingSame ==
    ASSUME Standing, pc \in PCs \ BlankPCs, UNCHANGED <<flash, bc>>
    PROVE  Standing'
<1>1. Startable(bc'.confirmed) /\ bc'.pending # bc'.confirmed
  BY DEF Standing, CopyStands
<1> QED
  BY <1>1, StandingKept DEF flash

LEMMA InitStanding == Init => Standing
<1> SUFFICES ASSUME Init PROVE Standing
  OBVIOUS
<1>1. PICK i \in {j \in Images : LinkSlot[j] = SlotA} :
          slots = [s \in Slots |-> [p \in Pages |->
                     IF s = SlotA /\ p <= Size[i] THEN i ELSE NoImage]]
  BY DEF Init
<1>2. 1 \in Pages /\ 1 <= Size[i] /\ Size[i] \in Nat
  BY MaxPagesAssumption, SizeAssumption
<1>3. Startable(SlotA)
  BY <1>1, <1>2 DEF Startable, IsSlotVectorValid
<1> QED
  BY <1>3 DEF Init, RamCleared, Standing, SomeStartable, PageStands,
     CopyStands, InitBootControl, BlankPCs

LEMMA ResetStanding ==
    ASSUME Standing, NEW b, ResetCpu(b), UNCHANGED slots,
           bootctl' \in {bootctl, Unreadable}
    PROVE  Standing'
BY StandingKept DEF ResetCpu, InitBootControl, BlankPCs

LEMMA BootStepStanding ==
    ASSUME IInv, Standing, BootStep
    PROVE  Standing'
<1> USE DEF At, GoTo, SaveThen
<1>a. bc \in BootControls /\ bc.pending # bc.confirmed
  BY DEF IInv, TypeOK, Standing, CopyStands
<1>1. CASE BootLoad
  <2> DEFINE loaded == LoadBootControl(bootctl)
  <2>1. loaded \in BootControls /\ loaded.pending # loaded.confirmed
    BY LoadBootControlType
       DEF IInv, TypeOK, Standing, PageStands, LoadBootControl, InitBootControl
  <2>2. PICK s \in Slots : IsSlotVectorValid(slots, s)
    BY DEF Standing, SomeStartable, Startable
  <2>3. bc' = NormalizeBootControl(loaded, slots)
    BY <1>1 DEF BootLoad
  <2>4. bootctl # Unreadable => IsSlotVectorValid(slots, loaded.confirmed)
    BY DEF Standing, PageStands, LoadBootControl, Startable
  <2>5. bootctl = Unreadable => loaded.pending = SlotNone
    BY DEF LoadBootControl, InitBootControl
  <2> HIDE DEF loaded
  <2>6. /\ IsSlotVectorValid(slots, bc'.confirmed)
        /\ bc'.pending = loaded.pending /\ bc' \in BootControls
        /\ bootctl # Unreadable => bc'.confirmed = loaded.confirmed
    BY <2>1, <2>2, <2>3, <2>4, NormalizeStands, NormalizeType
  <2>7. bc'.pending # bc'.confirmed
    BY <2>1, <2>5, <2>6 DEF BootControls
  <2> QED
    BY <1>1, <2>6, <2>7, StandingKept DEF BootLoad, flash, Startable
<1>b. pc # "boot_load" => Startable(bc.confirmed) \/ pc \in BlankPCs
  BY DEF IInv, TypeOK, Standing, CopyStands
<1>2. CASE BootWatchdogCount
  <2>1. bc'.confirmed = bc.confirmed /\ bc'.pending = bc.pending
    BY <1>2, <1>a DEF BootWatchdogCount, BootControls
  <2> QED
    BY <1>2, <1>a, <1>b, <2>1, StandingKept
       DEF BootWatchdogCount, flash, BlankPCs
<1>3. CASE BootUpgradeActive
  BY <1>3, StandingSame DEF BootUpgradeActive, PCs, BlankPCs
<1>4. CASE BootUpgradeNotActive
  BY <1>4, StandingSame DEF BootUpgradeNotActive, PCs, BlankPCs
<1>c. ASSUME NEW x, RollbackToSlot(FindBestSlot(bc, slots, x)),
             FindBestSlot(bc, slots, x) # SlotNone, UNCHANGED flash
      PROVE  Standing'
  <2> DEFINE s == FindBestSlot(bc, slots, x)
  <2>1. s \in Slots /\ IsSlotVectorValid(slots, s)
    BY <1>a, <1>c, BestIsFit
  <2>2. RollbackToSlot(s)
    BY <1>c
  <2> HIDE DEF s
  <2>3. bc'.confirmed = s /\ bc'.pending = SlotNone
    BY <1>a, <2>2 DEF RollbackToSlot, BootControls
  <2> QED
    BY <1>c, <2>1, <2>3, StandingKept DEF flash, Startable
<1>5. CASE BootTimeout
  <2>1. CASE RollbackToSlot(FindBestSlot(bc, slots, SlotNone))
             /\ FindBestSlot(bc, slots, SlotNone) # SlotNone
    BY <1>5, <1>c, <2>1 DEF BootTimeout
  <2>2. CASE UNCHANGED bc
    BY <1>5, <2>2, StandingSame DEF BootTimeout, PCs, BlankPCs
  <2> QED
    BY <1>5, <2>1, <2>2 DEF BootTimeout
<1>6. CASE BootRecovery
  <2> DEFINE suspect == IF bc.pending # SlotNone THEN bc.pending ELSE bc.active
  <2>1. CASE RollbackToSlot(FindBestSlot(bc, slots, suspect))
             /\ FindBestSlot(bc, slots, suspect) # SlotNone
    BY <1>6, <1>c, <2>1 DEF BootRecovery
  <2>2. CASE UNCHANGED bc
    BY <1>6, <2>2, StandingSame DEF BootRecovery, PCs, BlankPCs
  <2>3. CASE bc' = [bc EXCEPT !.pending = SlotNone, !.attempts = 0,
                              !.wdg = 0]
    <3>1. bc'.confirmed = bc.confirmed /\ bc'.pending = SlotNone
          /\ bc.confirmed \in Slots
      BY <1>a, <2>3 DEF BootControls
    <3> QED
      BY <1>6, <1>b, <3>1, StandingKept DEF BootRecovery, flash, BlankPCs
  <2> QED
    BY <1>6, <2>1, <2>2, <2>3 DEF BootRecovery
<1>7. CASE MarkUpgradeFailed
  BY <1>7, StandingSame DEF MarkUpgradeFailed, PCs, BlankPCs
<1>8. CASE PendingRejected
  <2>1. CASE RollbackToSlot(FindBestSlot(bc, slots, bc.pending))
             /\ FindBestSlot(bc, slots, bc.pending) # SlotNone
    BY <1>8, <1>c, <2>1 DEF PendingRejected
  <2>2. CASE UNCHANGED bc
    BY <1>8, <2>2, StandingSame DEF PendingRejected, PCs, BlankPCs
  <2> QED
    BY <1>8, <2>1, <2>2 DEF PendingRejected
<1>9. CASE PendingTrial
  <2>1. bc'.confirmed = bc.confirmed /\ bc'.pending = bc.pending
    BY <1>9, <1>a DEF PendingTrial, BootControls
  <2> QED
    BY <1>9, <1>a, <1>b, <2>1, StandingKept DEF PendingTrial, flash, BlankPCs
<1>10. CASE PendingTrialSaved
  BY <1>10, StandingSame DEF PendingTrialSaved, PCs, BlankPCs
<1>11. CASE BootBestSlot
  <2> DEFINE best == FindBestSlot(bc, slots, SlotNone)
  <2>0. Startable(bc.confirmed) /\ bc.confirmed \in Slots
    BY <1>11, <1>a, <1>b DEF BootBestSlot, BlankPCs, BootControls
  <2>1. best = bc.confirmed
    BY <1>a, <2>0, BestIsConfirmed DEF Startable
  <2>2. bc'.confirmed = bc.confirmed /\ bc'.pending = bc.pending
    BY <1>11, <1>a, <2>1 DEF BootBestSlot, BootControls
  <2> QED
    BY <1>11, <1>a, <2>0, <2>2, StandingKept DEF BootBestSlot, flash
<1>12. CASE Jump
  BY <1>12, StandingKept DEF Jump, flash, InitBootControl, BlankPCs
<1> QED
  BY <1>1, <1>2, <1>3, <1>4, <1>5, <1>6, <1>7, <1>8, <1>9, <1>10, <1>11,
     <1>12 DEF BootStep

\* The transfer slot is not the confirmed one.
LEMMA SlotWriteStands ==
    ASSUME IInv, Standing, Open, NEW p \in Pages,
           NEW v \in Images \cup {NoImage},
           slots' = [slots EXCEPT ![xfer][p] = v], UNCHANGED <<bootctl, bc>>
    PROVE  Standing'
<1>1. /\ bootctl = bc /\ bc.pending = SlotNone /\ bc.confirmed # xfer
      /\ bc.confirmed \in Slots
      /\ slots'[bc.confirmed] = slots[bc.confirmed]
  BY OpenSlotWrite DEF IInv, TypeOK, BootControls
<1>2. Startable(bc.confirmed)
  BY DEF Open, Standing, CopyStands, PCs, BlankPCs
<1>3. Startable(bc.confirmed)'
  BY <1>1, <1>2 DEF Startable, IsSlotVectorValid
<1> QED
  BY <1>1, <1>3 DEF Standing, SomeStartable, PageStands, CopyStands

LEMMA LoaderStanding ==
    ASSUME IInv, Standing, ForceStay \/ LoaderStep
    PROVE  Standing'
<1> USE DEF At, GoTo, SaveThen
<1>a. bc \in BootControls /\ bc.pending # bc.confirmed
  BY DEF IInv, TypeOK, Standing, CopyStands
<1>1. CASE ForceStay \/ BeginBootControl \/ EraseFails \/ EraseDone
           \/ BeginImageDone \/ WriteImageDataSaved \/ MarkDoneBootControl
  BY <1>1, StandingSame DEF ForceStay, BeginBootControl, EraseFails, EraseDone,
     BeginImageDone, WriteImageDataSaved, MarkDoneBootControl, PCs, BlankPCs,
     flash
<1>2. CASE EraseSlotPage
  <2>1. Open /\ InFile
    BY <1>2 DEF EraseSlotPage, Open, InFile
  <2>2. want \in Images /\ erased \in Nat
    BY <2>1 DEF IInv, TypeOK, FileIsForSpare
  <2>3. erased + 1 \in Pages
    BY <1>2, <2>2, SizeAssumption, MaxPagesAssumption DEF EraseSlotPage
  <2> QED
    BY <1>2, <2>1, <2>3, SlotWriteStands DEF EraseSlotPage
<1>3. CASE VerifyImage
  <2>0. Startable(bc.confirmed) /\ InFile
    BY <1>3 DEF VerifyImage, Standing, CopyStands, PCs, BlankPCs, InFile
  <2>1. bc'.confirmed = bc.confirmed /\ bc'.pending # bc'.confirmed
    <3>1. xfer # bc.confirmed
      BY <2>0, <1>a DEF IInv, FileIsForSpare, GetOtherSlot, BootControls
    <3> QED
      BY <1>3, <1>a, <3>1 DEF VerifyImage, BootControls
  <2> QED
    BY <1>3, <2>0, <2>1, StandingKept DEF VerifyImage, flash
<1>4. CASE ResetAfterDone
  <2>1. CASE ResetCpu(FALSE)
    BY <1>4, <2>1, ResetStanding DEF ResetAfterDone, flash
  <2>2. CASE UNCHANGED bc
    BY <1>4, <2>2, StandingSame DEF ResetAfterDone, PCs, BlankPCs
  <2> QED
    BY <1>4, <2>1, <2>2 DEF ResetAfterDone
<1> QED
  BY <1>1, <1>2, <1>3, <1>4 DEF LoaderStep

LEMMA SessionStanding ==
    ASSUME IInv, Standing, SessionStep
    PROVE  Standing'
<1> USE DEF At, GoTo, SaveThen
<1>a. bc \in BootControls /\ bc.confirmed \in Slots
  BY DEF IInv, TypeOK, BootControls
<1>1. ASSUME NEW h \in Images, NEW d \in Images, BeginImage(h, d)
      PROVE  Standing'
  <2>1. Startable(bc.confirmed)
    BY <1>1 DEF BeginImage, Standing, CopyStands, PCs, BlankPCs
  <2>2. bc'.confirmed = bc.confirmed /\ bc'.pending = SlotNone
    BY <1>1, <1>a DEF BeginImage, BootControls
  <2> QED
    BY <1>1, <1>a, <2>1, <2>2, StandingKept DEF BeginImage, flash
<1>2. CASE WriteImageData
  <2>1. want # NoImage
    BY <1>2 DEF WriteImageData, IInv, NoFileOutsideSession
  <2>2. Open /\ InFile
    BY <1>2, <2>1 DEF WriteImageData, Open, InFile
  <2>3. want \in Images /\ feed \in Images /\ written \in Nat
    BY <2>2 DEF IInv, TypeOK, FileIsForSpare
  <2>4. written + 1 \in Pages
    BY <1>2, <2>3, SizeAssumption, MaxPagesAssumption DEF WriteImageData
  <2> QED
    BY <1>2, <2>2, <2>3, <2>4, SlotWriteStands DEF WriteImageData
<1>3. CASE \/ HeaderRefused \/ ProgramFails \/ EndOfFile \/ SessionFails
           \/ EmptySession \/ FinalizeSession
  BY <1>3, StandingSame DEF HeaderRefused, ProgramFails, EndOfFile,
     SessionFails, EmptySession, FinalizeSession, PCs, BlankPCs
<1> QED
  BY <1>1, <1>2, <1>3 DEF SessionStep

LEMMA AppStanding ==
    ASSUME IInv, Standing, ConfirmRunningSlot \/ RequestBootMode \/ AppStep
    PROVE  Standing'
<1> USE DEF At, GoTo, SaveThen
<1>1. ASSUME NEW p, SettleOnRunningSlot(p), \E i \in Images : RunsImage(i)
      PROVE  Standing'
  <2>1. Startable(bootSlot) /\ bootSlot \in Slots
    BY <1>1, LinkSlotAssumption DEF RunsImage, ValidateDigestsAndVector,
       Startable, IsSlotVectorValid
  <2>2. bc'.confirmed = bootSlot /\ bc'.pending = SlotNone
    BY <1>1 DEF SettleOnRunningSlot, SettleOn
  <2> QED
    BY <1>1, <2>1, <2>2, StandingKept DEF SettleOnRunningSlot, flash
<1>2. CASE ConfirmRunningSlot \/ RequestBootMode
  BY <1>1, <1>2, HealthyAssumption DEF ConfirmRunningSlot, RequestBootMode,
     RunsHealthy
<1>3. CASE ConfirmState \/ RequestState
  BY <1>3, StandingKept DEF ConfirmState, RequestState, flash,
     InitBootControl, BlankPCs
<1>4. CASE ConfirmDone
  BY <1>4, StandingKept DEF ConfirmDone, flash, Standing, CopyStands, BlankPCs
<1>5. CASE RequestReset
  <2>1. CASE ResetCpu(FALSE)
    BY <1>5, <2>1, ResetStanding DEF RequestReset, flash
  <2>2. CASE GoTo("app") /\ UNCHANGED bc
    BY <1>5, <2>2, StandingKept DEF RequestReset, flash, Standing,
       CopyStands, BlankPCs
  <2> QED
    BY <1>5, <2>1, <2>2 DEF RequestReset
<1> QED
  BY <1>2, <1>3, <1>4, <1>5 DEF AppStep

LEMMA NextStanding == IInv /\ Standing /\ [Next]_vars => Standing'
<1> SUFFICES ASSUME IInv, Standing, [Next]_vars PROVE Standing'
  OBVIOUS
<1>1. CASE FlashWrite \/ FlashWriteFails
  <2>1. /\ UNCHANGED <<slots, pc, bc>> /\ wr' = "none"
        /\ bootctl' \in {bootctl, Unreadable}
              \/ (wr = "bootctl" /\ bootctl' = bc)
    BY <1>1 DEF FlashWrite, FlashWriteFails, Interrupted
  <2> QED
    BY <2>1, StandingKept DEF Standing, CopyStands
<1>2. CASE BootStep
  BY <1>2, BootStepStanding
<1>3. CASE ForceStay \/ LoaderStep
  BY <1>3, LoaderStanding
<1>4. CASE SessionStep
  BY <1>4, SessionStanding
<1>5. CASE ConfirmRunningSlot \/ RequestBootMode \/ AppStep
  BY <1>5, AppStanding
<1>6. CASE WatchdogReset \/ PowerLoss
  BY <1>6, ResetStanding DEF WatchdogReset, PowerLoss, Interrupted, flash
<1>7. CASE UNCHANGED vars
  BY <1>7 DEF vars, Standing, SomeStartable, PageStands, CopyStands, Startable
<1> QED
  BY <1>1, <1>2, <1>3, <1>4, <1>5, <1>6, <1>7 DEF Next, Program

\* The same holds of the copy in RAM that the loader decides on, which is what
\* makes it inductive: FindBestSlot always comes to a slot not on trial.
THEOREM FallbackStands == Spec => []Standing
BY InitStanding, NextStanding, Invariance, PTL DEF Spec

\* Under every fault a slot can be started, and the confirmed slot of a readable
\* boot control page is one and not on trial: what is torn or not saved leaves
\* the next start something to fall back to.
THEOREM FallbackIsKept == Spec => []FallbackStarts
<1>1. Standing => FallbackStarts
  BY DEF Standing, SomeStartable, PageStands, Startable, FallbackStarts
<1> QED
  BY <1>1, FallbackStands, PTL

(***************************************************************************)
(* The path from a reset to the application while no erase or program call *)
(* fails: pages may be torn, applications may hang, power may go at any    *)
(* step.  A save that fails breaks both properties, since                  *)
(* BootMain_RollbackToSlot and the jump go on without it.                  *)
(***************************************************************************)
Calm == ~IsUpgradeActiveState(LoadState(statePage).state)

\* Every save has succeeded, and none of the state page is under way where
\* the program relies on what it read there.
SavesDone ==
    /\ wrOk = TRUE
    /\ pc \in {"boot_watchdog", "boot_active", "boot_recovery",
               "boot_select", "trial", "app", "confirm_state",
               "request_state"} => wr # "state"

\* Only a state page without an upgrade in progress leads on to the
\* application, unless the upgrade is being marked as failed.
CalmOnTheWay ==
    /\ pc \in {"boot_watchdog", "boot_active"} => st = LoadState(statePage)
    /\ pc \in {"boot_recovery", "boot_select", "trial", "app",
               "confirm_state", "confirm_done", "request_state"} => Calm
    /\ pc = "jump" => \/ (wr = "state" /\ st.state = "failed")
                      \/ (wr # "state" /\ Calm)
    /\ pc \in {"app", "confirm_state", "confirm_done", "request_state"}
          => st = InitStateImage

Loaded == LoadBootControl(bootctl)

\* The slot that a start with boot control c ends in.
Target(c) == IF c.pending # SlotNone THEN c.pending ELSE c.confirmed

\* Without a trial, the slot that started last is the confirmed one.
Level(c) == c.pending = SlotNone => c.active = c.confirmed

\* What the loader decides on is what flash says or is about to say.
PageIsCopy ==
    /\ pc \in (BootPCs \cup {"jump"}) \ {"boot_load"} =>
          wr = "bootctl" \/ bc = Loaded
    /\ wr = "bootctl" /\ pc \in {"confirm_state", "request_state"} =>
          bc.confirmed = bootSlot /\ bc.pending = SlotNone /\ Level(bc)
    /\ pc \in {"app", "confirm_done", "request_reset"} => wr # "bootctl"

SlotIsChosen ==
    /\ pc \in BootPCs \ {"mark_failed"} => bootSlot = SlotNone
    /\ pc = "trial" => bc.pending # SlotNone
    /\ pc = "mark_failed" /\ bootSlot # SlotNone =>
          bootSlot = bc.confirmed /\ bc.pending = SlotNone /\ Level(bc)
    /\ pc = "jump" => bootSlot = Target(bc) /\ Level(bc)
    /\ pc \in AppPCs => bootSlot = Target(Loaded) /\ Level(Loaded)

Path == SavesDone /\ CalmOnTheWay /\ PageIsCopy /\ SlotIsChosen

LEMMA InitPath == Init => Path
BY DEF Init, RamCleared, Path, SavesDone, CalmOnTheWay, PageIsCopy,
   SlotIsChosen, BootPCs, AppPCs

\* A reset begins the path anew, whatever was being saved.
LEMMA ResetPath == ASSUME NEW b, ResetCpu(b) PROVE Path'
BY DEF ResetCpu, Path, SavesDone, CalmOnTheWay, PageIsCopy, SlotIsChosen,
   BootPCs, AppPCs

\* A step that ends in the loader or in a session is off the path.
OffPath == {"loader", "begin_bootctl", "begin_erase", "begun", "wrote",
            "verify", "done_bootctl", "done_reset"}

LEMMA LoaderPath ==
    ASSUME pc' \in OffPath, wrOk' = TRUE
    PROVE  Path'
BY DEF OffPath, Path, SavesDone, CalmOnTheWay, PageIsCopy, SlotIsChosen,
   BootPCs, AppPCs

LEMMA FlashWritePath ==
    ASSUME IInv, Path, FlashWrite
    PROVE  Path'
<1>1. /\ UNCHANGED <<pc, st, bc, bootSlot>>
      /\ wr' = "none" /\ wrOk' = TRUE
      /\ statePage' = IF wr = "state" THEN st ELSE statePage
      /\ bootctl' = IF wr = "bootctl" THEN bc ELSE bootctl
  BY DEF FlashWrite
<1>2. st \in StateImages /\ st # Unreadable
  BY UnreadableAssumption DEF IInv, TypeOK
<1>3. st.state = "failed" \/ st = InitStateImage =>
          (wr = "state" => Calm')
  BY <1>1, <1>2 DEF Calm, LoadState, IsUpgradeActiveState, InitStateImage
<1>4. wr # "state" => statePage' = statePage
  BY <1>1
<1>5. CalmOnTheWay'
  BY <1>1, <1>3, <1>4 DEF Path, CalmOnTheWay, SavesDone, Calm
<1>6. bc # Unreadable
  BY UnreadableAssumption DEF IInv, TypeOK
<1>7. Loaded' = IF wr = "bootctl" THEN bc ELSE Loaded
  BY <1>1, <1>6 DEF Loaded, LoadBootControl
<1>8. PageIsCopy'
  BY <1>1, <1>7 DEF Path, PageIsCopy, BootPCs
<1>9. SlotIsChosen'
  BY <1>1, <1>7 DEF Path, PageIsCopy, SlotIsChosen, BootPCs, AppPCs, Target,
     Level
<1> QED
  BY <1>1, <1>5, <1>8, <1>9 DEF Path, SavesDone

LEMMA BootStepPath ==
    ASSUME IInv, Path, BootStep
    PROVE  Path'
<1> USE DEF At, GoTo, SaveThen, BootPCs, AppPCs, Loaded, Target, Level
<1>a. bc \in BootControls
  BY DEF IInv, TypeOK
<1>1. CASE BootLoad
  BY <1>1 DEF BootLoad, Path, SavesDone, CalmOnTheWay, PageIsCopy,
     SlotIsChosen, LoadBootControl, flash
<1>2. CASE BootWatchdogCount
  <2>1. bc'.wdg = bc.wdg => bc' = bc
    BY <1>2, <1>a DEF BootWatchdogCount, BootControls
  <2>2. CalmOnTheWay'
    BY <1>2 DEF BootWatchdogCount, Path, CalmOnTheWay, flash
  <2> QED
    BY <1>2, <2>1, <2>2 DEF BootWatchdogCount, Path, SavesDone, PageIsCopy,
       SlotIsChosen, flash
<1>3. CASE BootUpgradeActive
  BY <1>3 DEF BootUpgradeActive, Path, SavesDone, CalmOnTheWay, PageIsCopy,
     SlotIsChosen, flash
<1>4. CASE BootUpgradeNotActive
  BY <1>4 DEF BootUpgradeNotActive, Path, SavesDone, CalmOnTheWay, PageIsCopy,
     SlotIsChosen, Calm, flash
<1>b. ASSUME NEW s \in Slots, RollbackToSlot(s), UNCHANGED flash
      PROVE  Path'
  <2>1. bc'.confirmed = s
    BY <1>a, <1>b DEF RollbackToSlot, BootControls
  <2> QED
    BY <1>b, <2>1 DEF RollbackToSlot, Path, SavesDone, CalmOnTheWay,
       PageIsCopy, SlotIsChosen
<1>5. CASE BootTimeout
  <2> DEFINE best == FindBestSlot(bc, slots, SlotNone)
  <2>1. CASE best # SlotNone /\ RollbackToSlot(best)
    <3>1. best \in Slots
      BY <2>1, BestSlotType
    <3> HIDE DEF best
    <3> QED
      BY <1>5, <1>b, <2>1, <3>1 DEF BootTimeout
  <2>2. CASE GoTo("loader")
    BY <2>2, LoaderPath DEF OffPath
  <2> QED
    BY <1>5, <2>1, <2>2 DEF BootTimeout
<1>6. CASE BootRecovery
  <2> DEFINE fallback == FindBestSlot(bc, slots,
                IF bc.pending # SlotNone THEN bc.pending ELSE bc.active)
  <2>1. CASE GoTo("boot_select") /\ UNCHANGED <<st, bc, bootSlot>>
    BY <1>6, <2>1 DEF BootRecovery, Path, SavesDone, CalmOnTheWay,
       PageIsCopy, SlotIsChosen, Calm, flash
  <2>2. CASE fallback # SlotNone /\ RollbackToSlot(fallback)
    <3>1. fallback \in Slots
      BY <2>2, BestSlotType
    <3> HIDE DEF fallback
    <3> QED
      BY <1>6, <1>b, <2>2, <3>1 DEF BootRecovery
  <2>3. CASE SaveThen("bootctl", "mark_failed") /\ UNCHANGED bootSlot
    BY <1>6, <2>3 DEF BootRecovery, Path, SavesDone, CalmOnTheWay,
       PageIsCopy, SlotIsChosen
  <2> QED
    BY <1>6, <2>1, <2>2, <2>3 DEF BootRecovery
<1>7. CASE MarkUpgradeFailed
  BY <1>7 DEF MarkUpgradeFailed, Path, SavesDone, CalmOnTheWay, PageIsCopy,
     SlotIsChosen, flash
<1>8. CASE PendingRejected
  <2> DEFINE fallback == FindBestSlot(bc, slots, bc.pending)
  <2>1. CASE fallback # SlotNone /\ RollbackToSlot(fallback)
    <3>1. fallback \in Slots
      BY <2>1, BestSlotType
    <3> HIDE DEF fallback
    <3> QED
      BY <1>8, <1>b, <2>1, <3>1 DEF PendingRejected
  <2>2. CASE GoTo("mark_failed") /\ UNCHANGED <<st, bc, bootSlot>>
    BY <1>8, <2>2 DEF PendingRejected, Path, SavesDone, CalmOnTheWay,
       PageIsCopy, SlotIsChosen, flash
  <2> QED
    BY <1>8, <2>1, <2>2 DEF PendingRejected
<1>9. CASE PendingTrial
  BY <1>9 DEF PendingTrial, Path, SavesDone, CalmOnTheWay, PageIsCopy,
     SlotIsChosen, Calm, flash
<1>10. CASE PendingTrialSaved
  BY <1>10 DEF PendingTrialSaved, Path, SavesDone, CalmOnTheWay, PageIsCopy,
     SlotIsChosen, Calm, flash
<1>11. CASE BootBestSlot
  <2>1. CASE GoTo("loader")
    BY <2>1, LoaderPath DEF OffPath
  <2>2. CASE ~GoTo("loader")
    <3>1. /\ bc'.confirmed = bootSlot' /\ bc'.active = bootSlot'
          /\ bc'.pending = SlotNone
      BY <1>11, <1>a, <2>2 DEF BootBestSlot, BootControls
    <3>2. pc' = "jump" /\ wr' \in {"none", "bootctl"} /\ wrOk' = TRUE
          /\ (bc' = bc \/ wr' = "bootctl")
          /\ UNCHANGED <<flash, st>>
      BY <1>11, <2>2 DEF BootBestSlot
    <3>3. pc = "boot_select" /\ wr = "none"
      BY <1>11 DEF BootBestSlot
    <3> QED
      BY <3>1, <3>2, <3>3 DEF Path, SavesDone, CalmOnTheWay, PageIsCopy,
         SlotIsChosen, Calm, flash
  <2> QED
    BY <2>1, <2>2
<1>12. CASE Jump
  BY <1>12 DEF Jump, Path, SavesDone, CalmOnTheWay, PageIsCopy, SlotIsChosen,
     Calm, flash
<1> QED
  BY <1>1, <1>2, <1>3, <1>4, <1>5, <1>6, <1>7, <1>8, <1>9, <1>10, <1>11,
     <1>12 DEF BootStep

\* The download goes round in the loader until it resets.
LEMMA SessionPath ==
    ASSUME IInv, Path, ForceStay \/ LoaderStep \/ SessionStep
    PROVE  Path'
<1>1. CASE ResetAfterDone /\ ResetCpu(FALSE)
  BY <1>1, ResetPath
<1>2. CASE EndOfFile \/ EmptySession \/ SessionFails
  <2>1. wrOk = TRUE
    BY DEF Path, SavesDone
  <2>2. pc' = "loader" /\ wrOk' = TRUE
    BY <1>2, <2>1 DEF EndOfFile, EmptySession, SessionFails, MarkFailed,
       SaveThen, At
  <2> QED
    BY <2>2, LoaderPath DEF OffPath
<1>3. CASE ForceStay \/ BeginBootControl \/ EraseSlotPage \/ EraseFails
           \/ EraseDone \/ BeginImageDone \/ WriteImageDataSaved
           \/ VerifyImage \/ MarkDoneBootControl
           \/ (ResetAfterDone /\ MarkFailed)
  BY <1>3, LoaderPath DEF ForceStay, BeginBootControl, EraseSlotPage,
     EraseFails, EraseDone, BeginImageDone, WriteImageDataSaved, VerifyImage,
     MarkDoneBootControl, MarkFailed, GoTo, SaveThen, OffPath
<1>4. CASE \/ \E h \in Images, d \in Images : BeginImage(h, d)
           \/ HeaderRefused \/ WriteImageData \/ ProgramFails
           \/ FinalizeSession
  BY <1>4, LoaderPath DEF BeginImage, HeaderRefused, WriteImageData,
     ProgramFails, FinalizeSession, MarkFailed, SaveThen, OffPath
<1> QED
  BY <1>1, <1>2, <1>3, <1>4 DEF LoaderStep, SessionStep, ResetAfterDone

LEMMA AppPath ==
    ASSUME IInv, Path, ConfirmRunningSlot \/ RequestBootMode \/ AppStep
    PROVE  Path'
<1> USE DEF At, GoTo, SaveThen, BootPCs, AppPCs, Loaded, Target, Level
<1>1. CASE ConfirmRunningSlot \/ RequestBootMode
  <2>1. pc = "app" /\ wr = "none" /\ UNCHANGED <<flash, st, bootSlot>>
        /\ pc' \in {"confirm_state", "request_state"}
        /\ wr' \in {"none", "bootctl"} /\ wrOk' = TRUE
    BY <1>1 DEF ConfirmRunningSlot, RequestBootMode, SettleOnRunningSlot
  <2>2. /\ bc'.confirmed = bootSlot /\ bc'.active = bootSlot
        /\ bc'.pending = SlotNone
    BY <1>1 DEF ConfirmRunningSlot, RequestBootMode, SettleOnRunningSlot,
       SettleOn
  <2> QED
    BY <2>1, <2>2 DEF Path, SavesDone, CalmOnTheWay, PageIsCopy,
       SlotIsChosen, Calm, flash
<1>2. CASE ConfirmState \/ ConfirmDone
  BY <1>2 DEF ConfirmState, ConfirmDone, Path, SavesDone, CalmOnTheWay,
     PageIsCopy, SlotIsChosen, Calm, flash
<1>3. CASE RequestState
  BY <1>3 DEF RequestState, Path, SavesDone, CalmOnTheWay, PageIsCopy,
     SlotIsChosen, Calm, flash
<1>4. CASE RequestReset
  BY <1>4, ResetPath DEF RequestReset, Path, SavesDone
<1> QED
  BY <1>1, <1>2, <1>3, <1>4 DEF AppStep

LEMMA NextPath ==
    ASSUME "flash" \notin Faults, IInv, Path, [Next]_vars
    PROVE  Path'
<1>1. CASE FlashWrite
  BY <1>1, FlashWritePath
<1>2. CASE BootStep
  BY <1>2, BootStepPath
<1>3. CASE ForceStay \/ LoaderStep \/ SessionStep
  BY <1>3, SessionPath
<1>4. CASE ConfirmRunningSlot \/ RequestBootMode \/ AppStep
  BY <1>4, AppPath
<1>5. CASE WatchdogReset \/ PowerLoss
  BY <1>5, ResetPath DEF WatchdogReset, PowerLoss
<1>6. CASE UNCHANGED vars
  BY <1>6 DEF vars, Path, SavesDone, CalmOnTheWay, PageIsCopy, SlotIsChosen,
     Calm, Loaded, AppPCs, BootPCs
<1> QED
  BY <1>1, <1>2, <1>3, <1>4, <1>5, <1>6
     DEF Next, Program, FlashWriteFails

(* As long as no save fails, from the check for an upgrade on the loader works on *)
(* what the pages say (BootMain_ShouldStayInLoader and the functions it calls).    *)
THEOREM PathIsKept ==
    ASSUME "flash" \notin Faults
    PROVE  Spec => []Path
<1>1. IInv /\ Path /\ [Next]_vars => Path'
  BY NextPath
<1> QED
  BY <1>1, InitPath, Invariance, PTL DEF Spec

\* Unless an erase or a program call fails, the application never runs under
\* an upgrade state that says a download is in progress, wherever the power is
\* lost: its confirmation clears no download that was cut off.
THEOREM RunsCalm ==
    ASSUME "flash" \notin Faults
    PROVE  Spec => []AppNotMidUpgrade
<1>1. Path => AppNotMidUpgrade
  BY DEF Path, CalmOnTheWay, Calm, AppNotMidUpgrade
<1> QED
  BY <1>1, PathIsKept, PTL

\* Unless an erase or a program call fails, the slot that the loader is about
\* to start is the confirmed or pending one of a boot control page that can be
\* read, so that the next start can count against it.
THEOREM JumpsAreRecorded ==
    ASSUME "flash" \notin Faults
    PROVE  Spec => []JumpIsRecorded
<1>1. Path => JumpIsRecorded
  BY DEF Path, PageIsCopy, SlotIsChosen, At, JumpIsRecorded, BootPCs,
     Loaded, LoadBootControl, Target
<1> QED
  BY <1>1, PathIsKept, PTL
=============================================================================
