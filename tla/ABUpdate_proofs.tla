--------------------------- MODULE ABUpdate_proofs ---------------------------
(***************************************************************************)
(* Proof that ABBoot implements ABUpdate, and that the slot it relies on   *)
(* holds a whole image, while power may go at any step and tear the state  *)
(* page, but the boot control page is written whole or not at all and      *)
(* every image keeps running once it runs.                                 *)
(***************************************************************************)
EXTENDS ABBoot_proofs

USE DEF SlotA, SlotB, SlotNone, Slots, Pages

\* The faults under which the promises of ABUpdate are kept.  Each other one
\* breaks them: a boot control that is torn or not saved falls back to slot A,
\* and a slot that hangs is left for any slot with a vector.
PowerFaultsOnly == Faults \subseteq {"tear_state"} /\ Healthy = Images

Intact(s) == \E i \in Images : ValidateDigestsAndVector(slots, s, i)

SettlePCs == {"confirm_state", "request_state"}

(***************************************************************************)
(* The inductive invariant.  The confirmed slot changes on flash only when *)
(* the application settles, on a slot that holds a whole image.            *)
(***************************************************************************)
\* What the device relies on is whole, and so is what runs.
ReliesOnWhole ==
    /\ Intact(Loaded.confirmed)
    /\ pc \in AppPCs => Intact(bootSlot)

\* Nothing has hung, so that no slot is left for another.
NoneHung == iwdg = FALSE /\ bc.wdg = 0 /\ Loaded.wdg = 0

\* The copy of the loader relies on the same slot as the page.
SameConfirmed ==
    /\ pc \in PCs \ (BlankPCs \cup SettlePCs) =>
          bc.confirmed = Loaded.confirmed
    /\ pc = "boot_load" => wr = "none"

\* Another trial is begun only once the last one is over on flash.
SameTrial == bc.pending # SlotNone => Loaded.pending \in {SlotNone, bc.pending}

Relied == ReliesOnWhole /\ NoneHung /\ SameConfirmed /\ SameTrial

LEMMA InitRelied == Init => Relied
<1> SUFFICES ASSUME Init PROVE Relied
  OBVIOUS
<1>1. PICK i \in {j \in Images : LinkSlot[j] = SlotA} :
          slots = [s \in Slots |-> [p \in Pages |->
                     IF s = SlotA /\ p <= Size[i] THEN i ELSE NoImage]]
  BY DEF Init
<1>2. /\ Size[i] \in Nat /\ 1 <= Size[i] /\ Size[i] <= MaxPages
      /\ MaxPages \in Nat
  BY SizeAssumption, MaxPagesAssumption
<1>3. /\ \A p \in 1..Size[i] : slots[SlotA][p] = i
      /\ IsSlotVectorValid(slots, SlotA)
  BY <1>1, <1>2 DEF IsSlotVectorValid
<1>4. Intact(SlotA)
  BY <1>1, <1>3 DEF Intact, ValidateDigestsAndVector, DigestsMatch
<1>5. /\ Loaded = InitBootControl /\ bc = InitBootControl
      /\ iwdg = FALSE /\ pc = "boot_load" /\ wr = "none"
  BY DEF Init, RamCleared, Loaded, LoadBootControl
<1> QED
  BY <1>4, <1>5 DEF Relied, ReliesOnWhole, NoneHung, SameConfirmed, SameTrial,
     InitBootControl, BlankPCs, AppPCs

\* A step that leaves flash alone and what the loader relies on.
LEMMA ReliedStep ==
    ASSUME Relied, UNCHANGED flash, iwdg' = FALSE, bc'.wdg = 0,
           bc'.pending = SlotNone \/ Loaded.pending \in {SlotNone, bc'.pending},
           pc' \in PCs \ (BlankPCs \cup SettlePCs) =>
               bc'.confirmed = Loaded.confirmed,
           pc' = "boot_load" => wr' = "none",
           pc' \in AppPCs => Intact(bootSlot')
    PROVE  Relied'
<1>1. Loaded' = Loaded /\ slots' = slots
  BY DEF Loaded, flash
<1> QED
  BY <1>1 DEF Relied, ReliesOnWhole, NoneHung, SameConfirmed, SameTrial, Intact

LEMMA ResetRelied ==
    ASSUME Relied, ResetCpu(FALSE), UNCHANGED <<bootctl, slots>>
    PROVE  Relied'
<1>1. Loaded' = Loaded
  BY DEF Loaded
<1> QED
  BY <1>1 DEF ResetCpu, InitBootControl, Relied, ReliesOnWhole, NoneHung,
     SameConfirmed, SameTrial, Intact, AppPCs, BlankPCs

LEMMA FlashWriteRelied ==
    ASSUME IInv, Path, Relied, FlashWrite
    PROVE  Relied'
<1>1. /\ UNCHANGED <<slots, pc, iwdg, bc, bootSlot>> /\ wr' = "none"
      /\ wr \in {"state", "bootctl"}
      /\ bootctl' = IF wr = "bootctl" THEN bc ELSE bootctl
      /\ bc # Unreadable
  BY UnreadableAssumption DEF FlashWrite, IInv, TypeOK
<1>2. Loaded' = IF wr = "bootctl" THEN bc ELSE Loaded
  BY <1>1 DEF Loaded, LoadBootControl
<1>3. \A s : Intact(s)' <=> Intact(s)
  BY <1>1 DEF Intact
<1>4. wr = "bootctl" =>
          bc.confirmed = IF pc \in SettlePCs THEN bootSlot ELSE Loaded.confirmed
  BY <1>1 DEF Path, PageIsCopy, Relied, SameConfirmed, BlankPCs, SettlePCs,
     IInv, TypeOK
<1>5. ReliesOnWhole'
  BY <1>1, <1>2, <1>3, <1>4 DEF Relied, ReliesOnWhole, SettlePCs, AppPCs
<1> QED
  BY <1>1, <1>2, <1>4, <1>5 DEF Relied, NoneHung, SameConfirmed, SameTrial

LEMMA BootStepRelied ==
    ASSUME IInv, Standing, Path, Relied, BootStep
    PROVE  Relied'
<1> USE DEF At, GoTo, SaveThen
<1>a. /\ bc \in BootControls /\ bc.pending # bc.confirmed
      /\ bc.wdg = 0 /\ iwdg = FALSE
      /\ bc.pending = SlotNone \/ Loaded.pending \in {SlotNone, bc.pending}
  BY DEF IInv, TypeOK, Standing, CopyStands, Relied, NoneHung, SameTrial
<1>b. pc \in BootPCs \cup {"jump"} /\ UNCHANGED flash
  BY DEF BootStep, BootLoad, BootWatchdogCount, BootUpgradeActive,
     BootUpgradeNotActive, BootTimeout, BootRecovery, MarkUpgradeFailed,
     PendingRejected, PendingTrial, PendingTrialSaved, BootBestSlot, Jump,
     BootPCs
<1>c. pc # "boot_load" => bc.confirmed = Loaded.confirmed
                          /\ Startable(bc.confirmed)
  BY <1>b DEF Relied, SameConfirmed, PCs, BlankPCs, SettlePCs, BootPCs,
     Standing, CopyStands
<1>d. ASSUME UNCHANGED <<bc, iwdg>>, pc # "boot_load",
             pc' \notin AppPCs \cup {"boot_load"}
      PROVE  Relied'
  BY <1>a, <1>b, <1>c, <1>d, ReliedStep
<1>e. ASSUME NEW x, RollbackToSlot(FindBestSlot(bc, slots, x)),
             x # bc.confirmed, pc # "boot_load", UNCHANGED iwdg
      PROVE  Relied'
  <2> DEFINE s == FindBestSlot(bc, slots, x)
  <2>1. s = bc.confirmed /\ RollbackToSlot(s)
    BY <1>a, <1>c, <1>e, BestIsConfirmed DEF Startable
  <2> HIDE DEF s
  <2>2. /\ bc'.confirmed = s /\ bc'.pending = SlotNone /\ bc'.wdg = 0
        /\ pc' = "mark_failed"
    BY <1>a, <2>1 DEF RollbackToSlot, BootControls
  <2> QED
    BY <1>a, <1>b, <1>c, <1>e, <2>1, <2>2, ReliedStep DEF AppPCs
<1>1. CASE BootLoad
  <2> DEFINE loaded == LoadBootControl(bootctl)
  <2>0. loaded = Loaded
    BY DEF Loaded
  <2>1. loaded \in BootControls
    BY LoadBootControlType DEF IInv, TypeOK
  <2>2. bc' = NormalizeBootControl(loaded, slots)
    BY <1>1 DEF BootLoad
  <2> HIDE DEF loaded
  <2>3. IsSlotVectorValid(slots, loaded.confirmed) /\ loaded.confirmed \in Slots
    BY <2>0, <2>1 DEF Relied, ReliesOnWhole, Intact, ValidateDigestsAndVector,
       BootControls
  <2>4. /\ bc'.confirmed = loaded.confirmed /\ bc'.pending = loaded.pending
        /\ bc'.wdg = loaded.wdg
    BY <2>1, <2>2, <2>3, NormalizeStands, NormalizeType
  <2> QED
    BY <1>1, <1>a, <1>b, <2>0, <2>4, ReliedStep
       DEF BootLoad, Relied, NoneHung, AppPCs
<1>2. CASE BootWatchdogCount
  <2>1. /\ bc'.pending = bc.pending /\ bc'.confirmed = bc.confirmed
        /\ bc'.wdg = 0 /\ iwdg' = FALSE /\ pc' = "boot_active"
    BY <1>2, <1>a DEF BootWatchdogCount, BootControls
  <2> QED
    BY <1>2, <1>a, <1>b, <1>c, <2>1, ReliedStep DEF BootWatchdogCount, AppPCs
<1>3. CASE \/ BootUpgradeActive \/ BootUpgradeNotActive
           \/ MarkUpgradeFailed \/ PendingTrialSaved
  BY <1>3, <1>d DEF BootUpgradeActive, BootUpgradeNotActive,
     MarkUpgradeFailed, PendingTrialSaved, AppPCs
<1>4. CASE BootTimeout
  <2>1. SlotNone # bc.confirmed
    BY <1>a DEF BootControls
  <2>2. \/ RollbackToSlot(FindBestSlot(bc, slots, SlotNone))
        \/ GoTo("loader") /\ UNCHANGED bc
    BY <1>4 DEF BootTimeout
  <2> QED
    BY <1>4, <1>d, <1>e, <2>1, <2>2 DEF BootTimeout, AppPCs
<1>5. CASE BootRecovery
  <2>1. GoTo("boot_select") /\ UNCHANGED bc
    BY <1>5, <1>a DEF BootRecovery, WdgResetLimit
  <2> QED
    BY <1>5, <1>d, <2>1 DEF BootRecovery, AppPCs
<1>6. CASE PendingRejected
  <2>1. \/ RollbackToSlot(FindBestSlot(bc, slots, bc.pending))
        \/ GoTo("mark_failed") /\ UNCHANGED bc
    BY <1>6 DEF PendingRejected
  <2> QED
    BY <1>6, <1>a, <1>d, <1>e, <2>1 DEF PendingRejected, AppPCs
<1>7. CASE PendingTrial
  <2>1. /\ bc'.pending = bc.pending /\ bc'.confirmed = bc.confirmed
        /\ bc'.wdg = 0 /\ pc' = "trial" /\ iwdg' = iwdg
    BY <1>7, <1>a DEF PendingTrial, BootControls
  <2> QED
    BY <1>7, <1>a, <1>b, <1>c, <2>1, ReliedStep DEF PendingTrial, AppPCs
<1>8. CASE BootBestSlot
  <2>1. FindBestSlot(bc, slots, SlotNone) = bc.confirmed
    BY <1>8, <1>a, <1>c, BestIsConfirmed
       DEF BootBestSlot, Startable, BootControls
  <2>2. /\ bc.pending = SlotNone /\ pc' = "jump" /\ iwdg' = iwdg
        /\ \/ bc' = bc
           \/ bc' = [bc EXCEPT !.active = bc.confirmed,
                               !.confirmed = bc.confirmed, !.attempts = 0]
    BY <1>8, <1>a, <2>1 DEF BootBestSlot, BootControls
  <2>3. bc'.confirmed = bc.confirmed /\ bc'.pending = SlotNone /\ bc'.wdg = 0
    BY <1>a, <2>2 DEF BootControls
  <2> QED
    BY <1>8, <1>a, <1>b, <1>c, <2>2, <2>3, ReliedStep
       DEF BootBestSlot, AppPCs
<1>9. CASE Jump
  <2>1. bootSlot = Target(bc)
    BY <1>9 DEF Jump, Path, SlotIsChosen
  <2>2. Intact(bc.confirmed)
    BY <1>9, <1>c DEF Jump, Relied, ReliesOnWhole
  <2>3. bc.pending # SlotNone => Intact(bc.pending)
    BY DEF IInv, Verified, Intact, ValidateDigestsAndVector, DigestsMatch
  <2>4. Intact(bootSlot)
    BY <2>1, <2>2, <2>3 DEF Target
  <2> QED
    BY <1>9, <1>a, <1>b, <2>4, ReliedStep
       DEF Jump, InitBootControl, AppPCs, PCs, BlankPCs
<1> QED
  BY <1>1, <1>2, <1>3, <1>4, <1>5, <1>6, <1>7, <1>8, <1>9 DEF BootStep

\* A page of the transfer slot is erased or programmed.
SlotWrite == EraseSlotPage \/ WriteImageData

LEMMA SlotWriteChanges ==
    ASSUME IInv, SlotWrite
    PROVE  /\ xfer \in Slots /\ slots' \in Contents
           /\ \A s \in Slots \ {xfer} : slots'[s] = slots[s]
           /\ Loaded = bc /\ bc.pending = SlotNone /\ bc.confirmed # xfer
           /\ Loaded' = Loaded /\ UNCHANGED <<bc, iwdg>>
           /\ pc \in OffPath /\ pc' \in {"begin_erase", "wrote"}
<1> USE DEF SlotWrite, At, GoTo, SaveThen
<1>1. Open /\ InFile
  BY DEF EraseSlotPage, WriteImageData, Open, InFile, IInv, NoFileOutsideSession
<1>2. /\ want \in Images /\ feed \in Images /\ erased \in Nat
      /\ written \in Nat
  BY <1>1 DEF IInv, TypeOK, FileIsForSpare
<1>3. PICK p \in Pages, v \in Images \cup {NoImage} :
          slots' = [slots EXCEPT ![xfer][p] = v]
  <2>1. CASE EraseSlotPage
    <3>1. erased + 1 \in Pages
      BY <2>1, <1>2, SizeAssumption, MaxPagesAssumption DEF EraseSlotPage
    <3> QED
      BY <2>1, <3>1 DEF EraseSlotPage
  <2>2. CASE WriteImageData
    <3>1. written + 1 \in Pages
      BY <2>2, <1>2, SizeAssumption, MaxPagesAssumption DEF WriteImageData
    <3> QED
      BY <2>2, <3>1, <1>2 DEF WriteImageData
  <2> QED
    BY <2>1, <2>2
<1>4. /\ slots' \in Contents
      /\ \A s \in Slots : slots'[s] # slots[s] => s = xfer
      /\ bootctl = bc /\ bc.pending = SlotNone /\ bc.confirmed # xfer
  BY <1>1, <1>3, OpenSlotWrite
<1>5. xfer \in Slots
  BY <1>1 DEF IInv, FileIsForSpare, GetOtherSlot
<1>6. bc # Unreadable
  BY UnreadableAssumption DEF IInv, TypeOK
<1> QED
  BY <1>4, <1>5, <1>6 DEF EraseSlotPage, WriteImageData, Loaded,
     LoadBootControl, OffPath

LEMMA SlotWriteRelied ==
    ASSUME IInv, Relied, SlotWrite
    PROVE  Relied'
<1>1. Loaded.confirmed \in Slots \ {xfer}
  BY SlotWriteChanges DEF IInv, TypeOK, BootControls
<1>2. slots'[Loaded.confirmed] = slots[Loaded.confirmed] /\ Loaded' = Loaded
  BY <1>1, SlotWriteChanges
<1>3. Intact(Loaded.confirmed)'
  BY <1>2 DEF Relied, ReliesOnWhole, Intact, ValidateDigestsAndVector,
     DigestsMatch, IsSlotVectorValid
<1> QED
  BY <1>3, SlotWriteChanges DEF Relied, ReliesOnWhole, NoneHung,
     SameConfirmed, SameTrial, AppPCs

LEMMA SessionRelied ==
    ASSUME IInv, Relied, ForceStay \/ LoaderStep \/ SessionStep, ~SlotWrite
    PROVE  Relied'
<1> USE DEF At, GoTo, SaveThen
<1>a. /\ bc \in BootControls /\ bc.wdg = 0 /\ iwdg = FALSE
      /\ bc.pending = SlotNone \/ Loaded.pending \in {SlotNone, bc.pending}
  BY DEF IInv, TypeOK, Relied, NoneHung, SameTrial
<1>b. UNCHANGED flash /\ pc \in OffPath \cup {"boot_select"}
  BY DEF SlotWrite, ForceStay, LoaderStep, SessionStep, BeginBootControl,
     EraseFails, EraseDone, BeginImageDone, WriteImageDataSaved, VerifyImage,
     MarkDoneBootControl, ResetAfterDone, BeginImage, HeaderRefused,
     ProgramFails, EndOfFile, SessionFails, EmptySession, FinalizeSession,
     OffPath
<1>c. bc.confirmed = Loaded.confirmed
  BY <1>b DEF Relied, SameConfirmed, OffPath, PCs, BlankPCs, SettlePCs
<1>d. OffPath \cap (AppPCs \cup {"boot_load"}) = {}
  BY DEF OffPath, AppPCs
<1>1. CASE ResetAfterDone /\ ResetCpu(FALSE)
  BY <1>1, <1>b, ResetRelied DEF flash
<1>2. CASE VerifyImage
  <2>1. bootctl = bc /\ bc.pending = SlotNone /\ bc # Unreadable
    BY <1>2, UnreadableAssumption DEF VerifyImage, IInv, TypeOK, OpenIsSaved,
       FileIsForSpare, Open, InFile
  <2>2. Loaded.pending = SlotNone
    BY <2>1 DEF Loaded, LoadBootControl
  <2>3. bc'.confirmed = bc.confirmed /\ bc'.wdg = bc.wdg
    BY <1>2, <1>a DEF VerifyImage, BootControls
  <2>4. pc' \in OffPath /\ iwdg' = iwdg
    BY <1>2 DEF VerifyImage, MarkFailed, OffPath
  <2> QED
    BY <1>a, <1>b, <1>c, <1>d, <2>2, <2>3, <2>4, ReliedStep
<1>3. ASSUME NEW h \in Images, NEW d \in Images, BeginImage(h, d)
      PROVE  Relied'
  <2>1. /\ bc'.pending = SlotNone /\ bc'.confirmed = bc.confirmed
        /\ bc'.wdg = 0 /\ iwdg' = iwdg /\ pc' = "begin_bootctl"
    BY <1>3, <1>a DEF BeginImage, BootControls
  <2> QED
    BY <1>a, <1>b, <1>c, <2>1, ReliedStep DEF AppPCs
<1>4. CASE \/ ForceStay \/ BeginBootControl \/ EraseFails \/ EraseDone
           \/ BeginImageDone \/ WriteImageDataSaved \/ MarkDoneBootControl
           \/ (ResetAfterDone /\ ~ResetCpu(FALSE))
           \/ HeaderRefused \/ ProgramFails \/ EndOfFile \/ SessionFails
           \/ EmptySession \/ FinalizeSession
  <2>1. UNCHANGED <<bc, iwdg>> /\ pc' \in OffPath
    BY <1>4 DEF ForceStay, BeginBootControl, EraseFails, EraseDone,
       BeginImageDone, WriteImageDataSaved, MarkDoneBootControl,
       ResetAfterDone, HeaderRefused, ProgramFails, EndOfFile, SessionFails,
       EmptySession, FinalizeSession, MarkFailed, OffPath
  <2> QED
    BY <1>a, <1>b, <1>c, <1>d, <2>1, ReliedStep
<1> QED
  BY <1>1, <1>2, <1>3, <1>4 DEF LoaderStep, SessionStep, SlotWrite

LEMMA AppRelied ==
    ASSUME IInv, Relied, ConfirmRunningSlot \/ RequestBootMode \/ AppStep
    PROVE  Relied'
<1> USE DEF At, GoTo, SaveThen
<1>a. /\ pc \in AppPCs /\ UNCHANGED flash /\ iwdg = FALSE /\ Intact(bootSlot)
      /\ bc.wdg = 0
      /\ bc.pending = SlotNone \/ Loaded.pending \in {SlotNone, bc.pending}
  BY DEF ConfirmRunningSlot, RequestBootMode, SettleOnRunningSlot, AppStep,
     ConfirmState, ConfirmDone, RequestState, RequestReset, AppPCs, Relied,
     ReliesOnWhole, NoneHung, SameTrial
<1>1. CASE ConfirmRunningSlot \/ RequestBootMode
  <2>1. bc'.pending = SlotNone /\ bc'.wdg = 0
    BY <1>1 DEF ConfirmRunningSlot, RequestBootMode, SettleOnRunningSlot,
       SettleOn
  <2>2. /\ pc' \in SettlePCs /\ UNCHANGED <<iwdg, bootSlot>>
    BY <1>1 DEF ConfirmRunningSlot, RequestBootMode, SettleOnRunningSlot,
       SettlePCs
  <2> QED
    BY <1>a, <2>1, <2>2, ReliedStep DEF SettlePCs
<1>b. ASSUME UNCHANGED <<iwdg, bootSlot>>,
             bc' = bc \/ (bc'.pending = SlotNone /\ bc'.wdg = 0),
             pc' \in {"app", "confirm_done", "request_reset"}
      PROVE  Relied'
  BY <1>a, <1>b, ReliedStep DEF BlankPCs
<1>2. CASE ConfirmState \/ ConfirmDone \/ RequestState
  BY <1>2, <1>b DEF ConfirmState, ConfirmDone, RequestState, InitBootControl
<1>3. CASE RequestReset
  <2>1. CASE ResetCpu(FALSE)
    BY <1>a, <2>1, ResetRelied DEF flash
  <2>2. CASE GoTo("app") /\ UNCHANGED <<iwdg, bc, bootSlot>>
    BY <1>b, <2>2
  <2> QED
    BY <1>3, <2>1, <2>2 DEF RequestReset
<1> QED
  BY <1>1, <1>2, <1>3 DEF AppStep

\* While the image that runs is healthy the watchdog does not fire, and a page
\* save that power loss interrupts leaves the old boot control.
LEMMA NextRelied ==
    ASSUME PowerFaultsOnly, IInv, Standing, Path, Relied, [Next]_vars
    PROVE  Relied'
<1>1. CASE FlashWrite
  BY <1>1, FlashWriteRelied
<1>2. CASE BootStep
  BY <1>2, BootStepRelied
<1>3. CASE ForceStay \/ LoaderStep \/ SessionStep
  BY <1>3, SlotWriteRelied, SessionRelied
<1>4. CASE ConfirmRunningSlot \/ RequestBootMode \/ AppStep
  BY <1>4, AppRelied
<1>5. ~WatchdogReset
  BY DEF WatchdogReset, At, PowerFaultsOnly, RunsHealthy, RunsImage, Relied,
     ReliesOnWhole, Intact, AppPCs
<1>6. CASE PowerLoss
  <2>1. bootctl' = bootctl /\ slots' = slots
    BY <1>6 DEF PowerLoss, Interrupted, PowerFaultsOnly
  <2>2. ResetCpu(FALSE)
    BY <1>6 DEF PowerLoss, Relied, NoneHung
  <2> QED
    BY <2>1, <2>2, ResetRelied
<1>7. CASE UNCHANGED vars
  BY <1>7 DEF vars, Relied, ReliesOnWhole, NoneHung, SameConfirmed, SameTrial,
     Intact, Loaded
<1> QED
  BY <1>1, <1>2, <1>3, <1>4, <1>5, <1>6, <1>7
     DEF Next, Program, FlashWriteFails, PowerFaultsOnly

LEMMA ReliedIsKept ==
    ASSUME PowerFaultsOnly
    PROVE  Spec => [](IInv /\ Standing /\ Path /\ Relied)
<1>1. IInv /\ Standing /\ Path /\ Relied /\ [Next]_vars => Relied'
  BY NextRelied
<1>2. Spec => []Path
  BY PathIsKept DEF PowerFaultsOnly
<1> QED
  BY <1>1, <1>2, InitRelied, Invariance, FallbackStands, PTL DEF Spec

\* The slot that every start falls back to holds a whole image, wherever the
\* power is lost, for any images that keep running.
THEOREM ConfirmedIsIntact ==
    ASSUME PowerFaultsOnly
    PROVE  Spec => []ConfirmedIntact
<1>1. Relied => ConfirmedIntact
  BY DEF Relied, ReliesOnWhole, Intact, Loaded, ConfirmedIntact
<1> QED
  BY <1>1, ReliedIsKept, PTL

(***************************************************************************)
(* The refinement.  Every step of ABBoot is a step of ABUpdate or changes  *)
(* nothing that ABUpdate speaks of: one save of the boot control page, or  *)
(* one page of a slot, at a time.                                          *)
(***************************************************************************)
Running == IF pc \in AppPCs THEN bootSlot ELSE SlotNone
Whole == [s \in Slots |-> WholeImage(slots, s)]

LEMMA WholeType ==
    ASSUME slots \in Contents
    PROVE  /\ Whole \in [Slots -> Images \cup {NoImage}]
           /\ \A s \in Slots : Intact(s) => Whole[s] # NoImage
<1> SUFFICES ASSUME NEW s \in Slots
             PROVE  /\ WholeImage(slots, s) \in Images \cup {NoImage}
                    /\ Intact(s) => WholeImage(slots, s) # NoImage
  BY DEF Whole
<1>1. 1 \in Pages
  BY MaxPagesAssumption
<1>2. slots[s][1] \in Images \cup {NoImage}
  BY <1>1 DEF Contents
<1>3. WholeImage(slots, s) \in Images \cup {NoImage}
  BY <1>2 DEF WholeImage
<1>4. Intact(s) => WholeImage(slots, s) = slots[s][1] /\ slots[s][1] \in Images
  BY DEF Intact, WholeImage, ValidateDigestsAndVector, IsSlotVectorValid
<1> QED
  BY <1>3, <1>4, ImagesAssumption

LEMMA AbstractInit == Init => Abstract!Init
<1> SUFFICES ASSUME Init PROVE Abstract!Init
  OBVIOUS
<1>1. Intact(Loaded.confirmed) /\ slots \in Contents
  BY InitRelied, InitIInv DEF Relied, ReliesOnWhole, IInv, TypeOK
<1>2. Loaded = InitBootControl /\ pc \notin AppPCs
  BY DEF Init, Loaded, LoadBootControl, AppPCs
<1>3. /\ Whole \in [Slots -> Images \cup {NoImage}]
      /\ Whole[Loaded.confirmed] # NoImage
      /\ Loaded.confirmed = SlotA /\ Loaded.pending = SlotNone
  BY <1>1, <1>2, WholeType DEF InitBootControl
<1> QED
  BY <1>2, <1>3 DEF Abstract!Init, Whole, Loaded

\* A step that keeps the page, the slots and who runs.
LEMMA AbstractStutter ==
    ASSUME UNCHANGED <<bootctl, slots>>, Running' = Running
    PROVE  UNCHANGED Abstract!abstract
<1>1. Whole' = Whole
  BY DEF Whole
<1> QED
  BY <1>1 DEF Abstract!abstract, Running, Whole

LEMMA SaveStep ==
    ASSUME IInv, Standing, Path, Relied, FlashWrite
    PROVE  [Abstract!Next]_(Abstract!abstract)
<1>1. /\ UNCHANGED <<slots, pc, bootSlot>>
      /\ bootctl' = IF wr = "bootctl" THEN bc ELSE bootctl
      /\ bc \in BootControls /\ bc # Unreadable
  BY UnreadableAssumption DEF FlashWrite, IInv, TypeOK
<1>2. Whole' = Whole /\ Running' = Running
  BY <1>1 DEF Whole, Running
<1>3. CASE wr # "bootctl"
  BY <1>1, <1>2, <1>3, AbstractStutter
<1>4. CASE wr = "bootctl"
  <2>1. Loaded' = bc
    BY <1>1, <1>4 DEF Loaded, LoadBootControl
  <2>2. CASE pc \in SettlePCs
    <3>1. bc.confirmed = bootSlot /\ bc.pending = SlotNone
      BY <1>4, <2>2 DEF Path, PageIsCopy, SettlePCs
    <3>2. Running = bootSlot /\ bootSlot # SlotNone
      BY <1>1, <2>2, <3>1 DEF Running, SettlePCs, AppPCs, BootControls
    <3>3. Abstract!Rely
      BY <1>2, <2>1, <3>1, <3>2 DEF Abstract!Rely, Running, Whole, Loaded
    <3> QED
      BY <3>3 DEF Abstract!Next
  <2>3. CASE pc \notin SettlePCs
    <3>1. pc \in PCs \ (BlankPCs \cup SettlePCs)
      BY <1>4, <2>3 DEF IInv, TypeOK, Path, PageIsCopy, Relied,
         SameConfirmed, BlankPCs
    <3>2. bc.confirmed = Loaded.confirmed
      BY <3>1 DEF Relied, SameConfirmed
    <3>3. Running = SlotNone
      BY <3>1 DEF Running, AppPCs, SettlePCs, BlankPCs
    <3>4. CASE bc.pending = SlotNone
      <4>1. Abstract!GiveUp
        BY <1>2, <2>1, <3>2, <3>3, <3>4
           DEF Abstract!GiveUp, Running, Whole, Loaded
      <4> QED
        BY <4>1 DEF Abstract!Next
    <3>5. CASE bc.pending = Loaded.pending
      BY <1>2, <2>1, <3>2, <3>5
         DEF Abstract!abstract, Running, Whole, Loaded
    <3>6. CASE bc.pending # SlotNone /\ Loaded.pending = SlotNone
      <4>1. bc.pending \in Slots /\ bc.pending # Loaded.confirmed
        BY <1>1, <3>2, <3>6 DEF BootControls, Standing, CopyStands
      <4>2. Intact(bc.pending) /\ slots \in Contents
        BY <3>6 DEF IInv, TypeOK, Verified, Intact, ValidateDigestsAndVector,
           DigestsMatch
      <4>3. Whole[bc.pending] # NoImage
        BY <4>1, <4>2, WholeType
      <4>4. Abstract!Stage(bc.pending)
        BY <1>2, <2>1, <3>2, <3>3, <3>6, <4>1, <4>3
           DEF Abstract!Stage, Running, Whole, Loaded
      <4> QED
        BY <4>1, <4>4 DEF Abstract!Next
    <3> QED
      BY <3>4, <3>5, <3>6 DEF Relied, SameTrial
  <2> QED
    BY <2>2, <2>3
<1> QED
  BY <1>3, <1>4

LEMMA ReplaceStep ==
    ASSUME IInv, Relied, SlotWrite
    PROVE  Abstract!Next
<1>1. /\ xfer \in Slots /\ slots' \in Contents
      /\ \A s \in Slots \ {xfer} : slots'[s] = slots[s]
      /\ Loaded = bc /\ bc.pending = SlotNone /\ bc.confirmed # xfer
      /\ Loaded' = Loaded
      /\ pc \in OffPath /\ pc' \in {"begin_erase", "wrote"}
  BY SlotWriteChanges
<1>2. Running = SlotNone /\ Running' = SlotNone
  BY <1>1 DEF Running, OffPath, AppPCs
<1>3. \A s \in Slots \ {xfer} : WholeImage(slots', s) = WholeImage(slots, s)
  BY <1>1 DEF WholeImage, ValidateDigestsAndVector, DigestsMatch,
     IsSlotVectorValid
<1>4. WholeImage(slots', xfer) \in Images \cup {NoImage}
  <2>1. slots'[xfer][1] \in Images \cup {NoImage}
    BY <1>1, MaxPagesAssumption DEF Contents
  <2> QED
    BY <2>1 DEF WholeImage
<1>5. Whole' = [Whole EXCEPT ![xfer] = WholeImage(slots', xfer)]
  BY <1>1, <1>3 DEF Whole
<1>6. Abstract!Replace(xfer)
  BY <1>1, <1>2, <1>4, <1>5 DEF Abstract!Replace, Running, Whole, Loaded
<1> QED
  BY <1>1, <1>6 DEF Abstract!Next

LEMMA StartStep ==
    ASSUME IInv, Path, Jump
    PROVE  Abstract!Next
<1>1. /\ pc = "jump" /\ pc' = "app" /\ UNCHANGED <<bootctl, slots, bootSlot>>
      /\ bc = Loaded /\ bootSlot = Target(bc)
  BY DEF Jump, At, GoTo, SaveThen, flash, Path, PageIsCopy, SlotIsChosen,
     BootPCs
<1>2. bc \in BootControls
  BY DEF IInv, TypeOK
<1>3. /\ bootSlot \in {Loaded.confirmed, Loaded.pending} \ {SlotNone}
      /\ bootSlot \in Slots
  BY <1>1, <1>2 DEF Target, BootControls
<1>4. Running = SlotNone /\ Running' = bootSlot /\ Whole' = Whole
      /\ Loaded' = Loaded
  BY <1>1 DEF Running, Whole, Loaded, AppPCs
<1>5. Abstract!Start(bootSlot)
  BY <1>3, <1>4 DEF Abstract!Start, Running, Whole, Loaded
<1> QED
  BY <1>3, <1>5 DEF Abstract!Next

\* A reset stops what runs.
LEMMA StopStep ==
    ASSUME NEW b, ResetCpu(b), UNCHANGED <<bootctl, slots>>
    PROVE  Abstract!Next
<1>1. Running' = SlotNone /\ Whole' = Whole /\ Loaded' = Loaded
  BY DEF ResetCpu, Running, AppPCs, Whole, Loaded
<1>2. Abstract!Stop
  BY <1>1 DEF Abstract!Stop, Running, Whole, Loaded
<1> QED
  BY <1>2 DEF Abstract!Next

LEMMA AbstractStep ==
    ASSUME PowerFaultsOnly, IInv, Standing, Path, Relied, [Next]_vars
    PROVE  [Abstract!Next]_(Abstract!abstract)
<1> USE DEF At, GoTo, SaveThen
<1>1. CASE FlashWrite
  BY <1>1, SaveStep
<1>2. CASE SlotWrite
  BY <1>2, ReplaceStep
<1>3. CASE Jump
  BY <1>3, StartStep
<1>4. CASE WatchdogReset \/ PowerLoss
  <2>1. UNCHANGED <<bootctl, slots>>
    BY <1>4 DEF WatchdogReset, PowerLoss, Interrupted, PowerFaultsOnly, flash
  <2> QED
    BY <1>4, <2>1, StopStep DEF WatchdogReset, PowerLoss
<1>5. CASE BootStep /\ ~Jump
  <2>1. UNCHANGED flash /\ pc \notin AppPCs /\ pc' \notin AppPCs
    BY <1>5 DEF BootStep, BootLoad, BootWatchdogCount, BootUpgradeActive,
       BootUpgradeNotActive, BootTimeout, BootRecovery, MarkUpgradeFailed,
       PendingRejected, PendingTrial, PendingTrialSaved, BootBestSlot,
       RollbackToSlot, AppPCs
  <2> QED
    BY <2>1, AbstractStutter DEF Running, flash
<1>6. CASE (ForceStay \/ LoaderStep \/ SessionStep) /\ ~SlotWrite
  <2>1. UNCHANGED flash /\ pc \notin AppPCs /\ pc' \notin AppPCs
    BY <1>6 DEF ForceStay, LoaderStep, SessionStep, SlotWrite,
       BeginBootControl, EraseFails, EraseDone, BeginImageDone,
       WriteImageDataSaved, VerifyImage, MarkDoneBootControl, ResetAfterDone,
       BeginImage, HeaderRefused, ProgramFails, EndOfFile, SessionFails,
       EmptySession, FinalizeSession, MarkFailed, ResetCpu, AppPCs
  <2> QED
    BY <2>1, AbstractStutter DEF Running, flash
<1>7. CASE ConfirmRunningSlot \/ RequestBootMode \/ AppStep
  <2>1. CASE RequestReset /\ ResetCpu(FALSE)
    BY <2>1, StopStep DEF RequestReset, flash
  <2>2. CASE ~(RequestReset /\ ResetCpu(FALSE))
    <3>1. /\ UNCHANGED <<bootctl, slots, bootSlot>>
          /\ pc \in AppPCs /\ pc' \in AppPCs
      BY <1>7, <2>2 DEF ConfirmRunningSlot, RequestBootMode,
         SettleOnRunningSlot, AppStep, ConfirmState, ConfirmDone,
         RequestState, RequestReset, AppPCs, flash
    <3> QED
      BY <3>1, AbstractStutter DEF Running
  <2> QED
    BY <2>1, <2>2
<1>8. CASE UNCHANGED vars
  BY <1>8, AbstractStutter DEF vars, Running
<1> QED
  BY <1>1, <1>2, <1>3, <1>4, <1>5, <1>6, <1>7, <1>8
     DEF Next, Program, FlashWriteFails, PowerFaultsOnly

\* Wherever the power is lost, the device relies on a slot only after an image
\* has run there, and changes only the slot it does not rely on: the pages and
\* saves of the loader and of the application implement ABUpdate.
THEOREM Implements ==
    ASSUME PowerFaultsOnly
    PROVE  Spec => ImplementsABUpdate
<1>1. IInv /\ Standing /\ Path /\ Relied /\ [Next]_vars
          => [Abstract!Next]_(Abstract!abstract)
  BY AbstractStep
<1> QED
  BY <1>1, AbstractInit, ReliedIsKept, PTL
     DEF Spec, ImplementsABUpdate, Abstract!Spec
=============================================================================
