------------------------ MODULE ABBootHistory_proofs ------------------------
(***************************************************************************)
(* Proofs about the properties of ABBootHistory that span several starts.  *)
(* The history variables only observe: every behaviour of HSpec is one of  *)
(* Spec, so that the invariants of ABBoot_proofs hold in it.               *)
(***************************************************************************)
EXTENDS ABBootHistory, ABUpdate_proofs

USE DEF SlotA, SlotB, SlotNone, Slots, Pages

LEMMA StepObserved == [HNext]_hvars => [Next]_vars
BY DEF HNext, Next, hvars, vars, history

\* What holds of ABBoot holds of it with its history.
THEOREM Observed == HSpec => Spec
<1>1. HInit => Init
  BY DEF HInit
<1> QED
  BY <1>1, StepObserved, PTL DEF HSpec, Spec

(***************************************************************************)
(* TrialBound.  The count of trials never exceeds the count on the boot    *)
(* control page, which the loader raises before it starts the slot.        *)
(***************************************************************************)
AttemptsBounded ==
    /\ bc.attempts <= PendingBootLimit
    /\ bootctl # Unreadable => bootctl.attempts <= PendingBootLimit

TrialsOnPage ==
    /\ trials \in 0..HistoryMax
    /\ IF bootctl = Unreadable \/ bootctl.pending = SlotNone
       THEN trials = 0
       ELSE trials <= bootctl.attempts

\* Until the loader decides, its copy and the page have the same trial.
DecidingPCs == {"boot_watchdog", "boot_active", "boot_timeout",
                "boot_recovery", "boot_select"}

CopyAgrees ==
    pc \in DecidingPCs /\ bootctl # Unreadable =>
        /\ bc.pending = bootctl.pending /\ bc.confirmed = bootctl.confirmed
        /\ bc.attempts = bootctl.attempts

\* A save adds to what has been counted, or ends the trial.
SaveCounts ==
    /\ wr = "bootctl" => bc.pending = SlotNone \/ trials <= bc.attempts
    /\ pc \in {"done_bootctl", "done_reset"} => trials = 0
    /\ pc = "trial" => /\ bc.pending # SlotNone
                       /\ wr # "state"
                       /\ trials < bc.attempts
                       /\ wr = "none" /\ wrOk => bootctl = bc

\* A slot that is started other than after a counted trial is not on trial.
StartCounted ==
    /\ pc \in DecidingPCs \cup {"boot_load", "trial"} => bootSlot = SlotNone
    /\ pc = "mark_failed" /\ bootSlot # SlotNone =>
          /\ bc.pending = SlotNone
          /\ bootctl # Unreadable => bootSlot # bootctl.pending
    /\ pc = "jump" =>
          /\ bootSlot \in Slots
          /\ wr = "bootctl" => bc.pending = SlotNone
          /\ bootctl # Unreadable /\ bootSlot = bootctl.pending =>
                trials < bootctl.attempts

TrialInv ==
    AttemptsBounded /\ TrialsOnPage /\ CopyAgrees /\ SaveCounts /\ StartCounted

USE DEF PendingBootLimit, HistoryMax

\* A step that leaves the page alone and starts nothing counts nothing.
LEMMA NoTrial ==
    ASSUME TrialInv, CountTrials, bootctl' = bootctl,
           ~(pc = "jump" /\ pc' = "app")
    PROVE  trials' = trials
BY DEF TrialInv, TrialsOnPage, CountTrials

\* A step that leaves the page alone and goes where no start is decided.
LEMMA TrialOff ==
    ASSUME TrialInv, CountTrials, bootctl' = bootctl, pc # "jump",
           pc' \notin DecidingPCs \cup {"boot_load", "trial", "mark_failed", "jump",
                                        "done_bootctl", "done_reset"},
           wr' = "bootctl" => bc'.pending = SlotNone,
           bc'.attempts <= PendingBootLimit
    PROVE  TrialInv'
<1>1. trials' = trials
  BY NoTrial
<1> QED
  BY <1>1 DEF TrialInv, AttemptsBounded, TrialsOnPage, CopyAgrees, SaveCounts,
     StartCounted

LEMMA ResetTrial ==
    ASSUME TrialInv, CountTrials, NEW b, ResetCpu(b),
           bootctl' \in {bootctl, Unreadable}
    PROVE  TrialInv'
<1>1. IF bootctl' = Unreadable THEN trials' = 0 ELSE trials' = trials
  BY DEF TrialInv, TrialsOnPage, CountTrials, ResetCpu
<1> QED
  BY <1>1 DEF ResetCpu, InitBootControl, TrialInv, AttemptsBounded,
     TrialsOnPage, CopyAgrees, SaveCounts, StartCounted, DecidingPCs

LEMMA FlashWriteTrial ==
    ASSUME IInv, TrialInv, CountTrials, FlashWrite \/ FlashWriteFails
    PROVE  TrialInv'
<1>1. /\ UNCHANGED <<pc, bc, bootSlot>> /\ wr' = "none"
      /\ wr \in {"state", "bootctl"}
      /\ \/ bootctl' = bootctl /\ (wr # "bootctl" \/ wrOk' = FALSE)
         \/ bootctl' = Unreadable /\ wrOk' = FALSE
         \/ bootctl' = bc /\ wr = "bootctl"
  BY DEF FlashWrite, FlashWriteFails, Interrupted, IInv, TypeOK
<1>2. /\ bc \in BootControls /\ bc # Unreadable /\ bc.attempts \in Nat
      /\ bc.pending \in Slots \cup {SlotNone}
  BY UnreadableAssumption DEF IInv, TypeOK, BootControls
<1>3. CASE bootctl' = bootctl /\ (wr # "bootctl" \/ wrOk' = FALSE)
  <2>1. trials' = trials
    BY <1>1, <1>3, NoTrial
  <2>2. AttemptsBounded' /\ TrialsOnPage' /\ CopyAgrees'
    BY <1>1, <1>3, <2>1 DEF TrialInv, AttemptsBounded, TrialsOnPage,
       CopyAgrees
  <2>3. SaveCounts'
    BY <1>1, <1>3, <2>1 DEF TrialInv, SaveCounts
  <2>4. StartCounted'
    BY <1>1, <1>3, <2>1 DEF TrialInv, StartCounted, DecidingPCs
  <2> QED
    BY <2>2, <2>3, <2>4 DEF TrialInv
<1>4. CASE bootctl' = Unreadable /\ wrOk' = FALSE
  <2>1. trials' = 0 /\ trials \in Nat
    BY <1>4 DEF CountTrials, TrialInv, TrialsOnPage
  <2> QED
    BY <1>1, <1>2, <1>4, <2>1 DEF TrialInv, AttemptsBounded, TrialsOnPage,
       CopyAgrees, SaveCounts, StartCounted, DecidingPCs
<1>5. CASE bootctl' = bc /\ wr = "bootctl"
  <2>1. trials' = IF bc.pending = SlotNone THEN 0 ELSE trials
    BY <1>1, <1>2, <1>5 DEF CountTrials
  <2>2. trials' \in 0..HistoryMax /\ trials' <= trials
    BY <2>1 DEF TrialInv, TrialsOnPage
  <2>3. AttemptsBounded' /\ CopyAgrees'
    BY <1>1, <1>2, <1>5 DEF TrialInv, AttemptsBounded, CopyAgrees
  <2>4. TrialsOnPage'
    BY <1>1, <1>2, <1>5, <2>1, <2>2 DEF TrialInv, TrialsOnPage, SaveCounts
  <2>5. SaveCounts'
    BY <1>1, <1>2, <1>5, <2>1, <2>2 DEF TrialInv, SaveCounts
  <2>6. StartCounted'
    BY <1>1, <1>2, <1>5 DEF TrialInv, StartCounted, DecidingPCs
  <2> QED
    BY <2>3, <2>4, <2>5, <2>6 DEF TrialInv
<1> QED
  BY <1>1, <1>3, <1>4, <1>5

LEMMA BootStepTrial ==
    ASSUME IInv, Standing, TrialInv, CountTrials, BootStep
    PROVE  TrialInv'
<1> USE DEF At, GoTo, SaveThen, DecidingPCs
<1>a. /\ bc \in BootControls /\ bc.attempts \in Nat
      /\ bc.pending \in Slots \cup {SlotNone} /\ bc.confirmed \in Slots
      /\ bc.pending # bc.confirmed
  BY DEF IInv, TypeOK, BootControls, Standing, CopyStands
<1>b. pc # "jump" => UNCHANGED flash /\ trials' = trials
  BY NoTrial DEF BootStep, BootLoad, BootWatchdogCount, BootUpgradeActive,
     BootUpgradeNotActive, BootTimeout, BootRecovery, MarkUpgradeFailed,
     PendingRejected, PendingTrial, PendingTrialSaved, BootBestSlot, Jump,
     flash
<1>1. CASE BootLoad
  <2> DEFINE loaded == LoadBootControl(bootctl)
  <2>1. loaded \in BootControls
    BY LoadBootControlType DEF IInv, TypeOK
  <2>2. PICK s \in Slots : IsSlotVectorValid(slots, s)
    BY DEF Standing, SomeStartable, Startable
  <2>3. bc' = NormalizeBootControl(loaded, slots)
    BY <1>1 DEF BootLoad
  <2>4. bootctl # Unreadable =>
            loaded = bootctl /\ IsSlotVectorValid(slots, loaded.confirmed)
    BY DEF Standing, PageStands, LoadBootControl, Startable
  <2>5. bootctl = Unreadable => loaded.attempts = 0 /\ loaded.pending = SlotNone
    BY DEF LoadBootControl, InitBootControl
  <2> HIDE DEF loaded
  <2>6. /\ bc'.attempts = loaded.attempts /\ bc'.pending = loaded.pending
        /\ bootctl # Unreadable => bc'.confirmed = loaded.confirmed
    BY <2>1, <2>2, <2>3, <2>4, NormalizeStands, NormalizeType
  <2> QED
    BY <1>1, <1>b, <2>4, <2>5, <2>6 DEF BootLoad, TrialInv, AttemptsBounded,
       TrialsOnPage, CopyAgrees, SaveCounts, StartCounted, flash
<1>c. ASSUME pc \in DecidingPCs, pc' \in DecidingPCs, bc'.pending = bc.pending,
             bc'.confirmed = bc.confirmed, bc'.attempts = bc.attempts,
             bootSlot' = bootSlot
      PROVE  TrialInv'
  BY <1>a, <1>b, <1>c DEF TrialInv, AttemptsBounded, TrialsOnPage, CopyAgrees,
     SaveCounts, StartCounted, flash
<1>2. CASE BootWatchdogCount
  <2>1. /\ bc'.pending = bc.pending /\ bc'.confirmed = bc.confirmed
        /\ bc'.attempts = bc.attempts
    BY <1>2, <1>a DEF BootWatchdogCount, BootControls
  <2> QED
    BY <1>2, <1>c, <2>1 DEF BootWatchdogCount
<1>3. CASE BootUpgradeActive \/ BootUpgradeNotActive
  BY <1>3, <1>c DEF BootUpgradeActive, BootUpgradeNotActive
<1>d. ASSUME NEW x, RollbackToSlot(FindBestSlot(bc, slots, x)),
             FindBestSlot(bc, slots, x) # SlotNone, pc \in DecidingPCs,
             x # bc.confirmed \/ bc.pending = SlotNone
      PROVE  TrialInv'
  <2> DEFINE s == FindBestSlot(bc, slots, x)
  <2>1. s \in Slots /\ RollbackToSlot(s)
    BY <1>a, <1>d, BestIsFit
  <2>2. Startable(bc.confirmed)
    BY <1>d DEF Standing, CopyStands, PCs, BlankPCs
  <2>3. s = bc.confirmed \/ bc.pending = SlotNone
    BY <1>a, <1>d, <2>2, BestIsConfirmed DEF Startable
  <2> HIDE DEF s
  <2>4. bc'.attempts = 0 /\ bc'.pending = SlotNone
    BY <1>a, <2>1 DEF RollbackToSlot, BootControls
  <2>5. bootctl # Unreadable => s # bootctl.pending
    BY <1>a, <1>d, <2>1, <2>3 DEF TrialInv, CopyAgrees
  <2> QED
    BY <1>b, <1>d, <2>1, <2>4, <2>5 DEF RollbackToSlot, TrialInv,
       AttemptsBounded, TrialsOnPage, CopyAgrees, SaveCounts, StartCounted,
       flash
<1>5. CASE BootTimeout
  <2>1. CASE RollbackToSlot(FindBestSlot(bc, slots, SlotNone))
             /\ FindBestSlot(bc, slots, SlotNone) # SlotNone
    BY <1>5, <1>a, <1>d, <2>1 DEF BootTimeout
  <2>2. CASE GoTo("loader") /\ UNCHANGED bc
    BY <1>5, <2>2, TrialOff DEF BootTimeout, TrialInv, AttemptsBounded, flash
  <2> QED
    BY <1>5, <2>1, <2>2 DEF BootTimeout
<1>6. CASE BootRecovery
  <2> DEFINE suspect == IF bc.pending # SlotNone THEN bc.pending ELSE bc.active
  <2>1. CASE RollbackToSlot(FindBestSlot(bc, slots, suspect))
             /\ FindBestSlot(bc, slots, suspect) # SlotNone
    BY <1>6, <1>a, <1>d, <2>1 DEF BootRecovery
  <2>2. CASE GoTo("boot_select") /\ UNCHANGED <<bc, bootSlot>>
    BY <1>6, <1>c, <2>2 DEF BootRecovery
  <2>3. CASE /\ bc' = [bc EXCEPT !.pending = SlotNone, !.attempts = 0,
                                 !.wdg = 0]
             /\ SaveThen("bootctl", "mark_failed") /\ UNCHANGED bootSlot
    <3>1. bc'.attempts = 0 /\ bc'.pending = SlotNone
      BY <1>a, <2>3 DEF BootControls
    <3>2. bootSlot' = SlotNone \/ bootSlot' # SlotNone
      OBVIOUS
    <3> QED
      BY <1>6, <1>b, <2>3, <3>1 DEF BootRecovery, TrialInv, AttemptsBounded,
         TrialsOnPage, CopyAgrees, SaveCounts, StartCounted, flash
  <2> QED
    BY <1>6, <2>1, <2>2, <2>3 DEF BootRecovery
<1>7. CASE MarkUpgradeFailed
  <2>1. bootSlot \in Slots \cup {SlotNone}
    BY DEF IInv, TypeOK
  <2> QED
    BY <1>7, <1>b, <2>1 DEF MarkUpgradeFailed, TrialInv, AttemptsBounded,
       TrialsOnPage, CopyAgrees, SaveCounts, StartCounted, flash
<1>8. CASE PendingRejected
  <2>1. CASE RollbackToSlot(FindBestSlot(bc, slots, bc.pending))
             /\ FindBestSlot(bc, slots, bc.pending) # SlotNone
    BY <1>8, <1>a, <1>d, <2>1 DEF PendingRejected
  <2>2. CASE GoTo("mark_failed") /\ UNCHANGED <<bc, bootSlot>>
    BY <1>8, <1>b, <2>2 DEF PendingRejected, TrialInv, AttemptsBounded,
       TrialsOnPage, CopyAgrees, SaveCounts, StartCounted, flash
  <2> QED
    BY <1>8, <2>1, <2>2 DEF PendingRejected
<1>9. CASE PendingTrial
  <2>1. bc.attempts < PendingBootLimit
        /\ bc' = [bc EXCEPT !.active = bc.pending, !.attempts = Saturate(@)]
    BY <1>9 DEF PendingTrial
  <2>2. bc'.attempts = bc.attempts + 1 /\ bc'.pending = bc.pending
    BY <1>a, <2>1, CounterMaxAssumption DEF BootControls, Saturate
  <2>3. trials <= bc.attempts /\ trials \in Nat
    BY <1>9, <1>a DEF PendingTrial, TrialInv, TrialsOnPage, CopyAgrees
  <2> QED
    BY <1>9, <1>a, <1>b, <2>1, <2>2, <2>3 DEF PendingTrial, TrialInv,
       AttemptsBounded, TrialsOnPage, CopyAgrees, SaveCounts, StartCounted,
       flash
<1>10. CASE PendingTrialSaved
  BY <1>10, <1>a, <1>b DEF PendingTrialSaved, TrialInv, AttemptsBounded,
     TrialsOnPage, CopyAgrees, SaveCounts, StartCounted, flash
<1>11. CASE BootBestSlot
  <2> DEFINE best == FindBestSlot(bc, slots, SlotNone)
  <2>0. Startable(bc.confirmed)
    BY <1>11 DEF BootBestSlot, Standing, CopyStands, PCs, BlankPCs
  <2>1. best = bc.confirmed
    BY <1>a, <2>0, BestIsConfirmed DEF Startable
  <2>2. /\ bc.pending = SlotNone /\ bc'.pending = SlotNone
        /\ bc'.attempts <= PendingBootLimit
    <3>1. bc.pending = SlotNone /\ bc.attempts <= PendingBootLimit
      BY <1>11 DEF BootBestSlot, TrialInv, AttemptsBounded
    <3>2. bc' = bc \/ bc' = [bc EXCEPT !.active = best, !.confirmed = best,
                                       !.attempts = 0]
      BY <1>11 DEF BootBestSlot
    <3> HIDE DEF best
    <3>3. CASE bc' = bc
      BY <3>1, <3>3
    <3>4. CASE bc' = [bc EXCEPT !.active = best, !.confirmed = best,
                                !.attempts = 0]
      <4>1. bc'.pending = bc.pending /\ bc'.attempts = 0
        BY <1>a, <3>4 DEF BootControls
      <4> QED
        BY <3>1, <4>1
    <3> QED
      BY <3>2, <3>3, <3>4
  <2>3. bootSlot' \in Slots /\ pc' = "jump" /\ pc = "boot_select"
    BY <1>11, <1>a, <2>1 DEF BootBestSlot
  <2>4. bootctl # Unreadable => bootctl.pending = SlotNone
    BY <2>2, <2>3 DEF TrialInv, CopyAgrees
  <2>5. wr' \in {"none", "bootctl"} /\ bootctl' = bootctl /\ trials' = trials
    BY <1>11, <1>b, <2>3 DEF BootBestSlot, flash
  <2> QED
    BY <2>2, <2>3, <2>4, <2>5 DEF TrialInv, AttemptsBounded,
       TrialsOnPage, CopyAgrees, SaveCounts, StartCounted
<1>12. CASE Jump
  <2>1. bootctl # Unreadable => bootctl.attempts \in Nat
    BY DEF IInv, TypeOK, BootControls
  <2>2. bc'.attempts = 0 /\ bc'.pending = SlotNone
    BY <1>12 DEF Jump, InitBootControl
  <2>3. TrialsOnPage'
    BY <1>12, <2>1 DEF Jump, TrialInv, TrialsOnPage, CountTrials, StartCounted,
       Bump, AttemptsBounded, flash
  <2> QED
    BY <1>12, <2>2, <2>3 DEF Jump, TrialInv, AttemptsBounded, CopyAgrees,
       SaveCounts, StartCounted, flash
<1> QED
  BY <1>1, <1>2, <1>3, <1>5, <1>6, <1>7, <1>8, <1>9, <1>10, <1>11, <1>12
     DEF BootStep

LEMMA SessionTrial ==
    ASSUME IInv, TrialInv, CountTrials, ForceStay \/ LoaderStep \/ SessionStep
    PROVE  TrialInv'
<1> USE DEF At, GoTo, SaveThen, DecidingPCs
<1>a. bc \in BootControls /\ bc.attempts <= PendingBootLimit
  BY DEF IInv, TypeOK, TrialInv, AttemptsBounded
<1>1. CASE \/ ForceStay \/ EraseSlotPage \/ EraseFails \/ EraseDone
           \/ BeginImageDone \/ WriteImageDataSaved
  BY <1>1, <1>a, TrialOff DEF ForceStay, EraseSlotPage, EraseFails, EraseDone,
     BeginImageDone, WriteImageDataSaved, MarkFailed, flash
<1>2. CASE BeginBootControl
  <2>1. bc.pending = SlotNone
    BY <1>2 DEF BeginBootControl, IInv, FileIsForSpare, InFile
  <2> QED
    BY <1>2, <1>a, <2>1, TrialOff DEF BeginBootControl, MarkFailed, flash
<1>3. CASE VerifyImage
  <2>0. bootctl = bc /\ bc.pending = SlotNone
    BY <1>3 DEF VerifyImage, IInv, OpenIsSaved, FileIsForSpare, Open, InFile
  <2>1. CASE MarkFailed /\ UNCHANGED bc
    BY <1>3, <1>a, <2>1, TrialOff DEF VerifyImage, MarkFailed, flash
  <2>2. CASE SaveThen("state", "done_bootctl") /\ bc'.attempts = 0
    <3>1. trials' = trials /\ trials = 0
      BY <1>3, <2>0, <2>2, NoTrial DEF VerifyImage, flash, TrialInv,
         TrialsOnPage
    <3> QED
      BY <1>3, <2>2, <3>1 DEF VerifyImage, flash, TrialInv, AttemptsBounded,
         TrialsOnPage, CopyAgrees, SaveCounts, StartCounted
  <2>3. bc' = [bc EXCEPT !.pending = xfer, !.attempts = 0,
                         !.rec[xfer] = [img |-> want, present |-> TRUE]]
            => bc'.attempts = 0
    BY <1>a DEF BootControls
  <2> QED
    BY <1>3, <2>1, <2>2, <2>3 DEF VerifyImage
<1>4. CASE MarkDoneBootControl
  <2>1. CASE MarkFailed
    BY <1>4, <1>a, <2>1, TrialOff DEF MarkDoneBootControl, MarkFailed, flash
  <2>2. CASE SaveThen("bootctl", "done_reset")
    <3>1. trials' = trials
      BY <1>4, <2>2, NoTrial DEF MarkDoneBootControl, flash
    <3>2. trials = 0 /\ bc.attempts \in Nat
      BY <1>4, <1>a DEF MarkDoneBootControl, TrialInv, SaveCounts, BootControls
    <3> QED
      BY <1>4, <2>2, <3>1, <3>2 DEF MarkDoneBootControl, flash, TrialInv,
         AttemptsBounded, TrialsOnPage, CopyAgrees, SaveCounts, StartCounted
  <2> QED
    BY <1>4, <2>1, <2>2 DEF MarkDoneBootControl
<1>5. CASE ResetAfterDone
  <2>1. CASE ResetCpu(FALSE)
    BY <1>5, <2>1, ResetTrial DEF ResetAfterDone, flash
  <2>2. CASE MarkFailed /\ UNCHANGED bc
    BY <1>5, <1>a, <2>2, TrialOff DEF ResetAfterDone, MarkFailed, flash
  <2> QED
    BY <1>5, <2>1, <2>2 DEF ResetAfterDone
<1>6. ASSUME NEW h \in Images, NEW d \in Images, BeginImage(h, d)
      PROVE  TrialInv'
  <2>1. bc'.attempts = 0
    BY <1>6, <1>a DEF BeginImage, BootControls
  <2> QED
    BY <1>6, <2>1, TrialOff DEF BeginImage, flash
<1>7. CASE \/ HeaderRefused \/ WriteImageData \/ ProgramFails \/ EndOfFile
           \/ SessionFails \/ EmptySession \/ FinalizeSession
  BY <1>7, <1>a, TrialOff DEF HeaderRefused, WriteImageData, ProgramFails,
     EndOfFile, SessionFails, EmptySession, FinalizeSession, MarkFailed, flash
<1> QED
  BY <1>1, <1>2, <1>3, <1>4, <1>5, <1>6, <1>7 DEF LoaderStep, SessionStep

LEMMA AppTrial ==
    ASSUME IInv, TrialInv, CountTrials,
           ConfirmRunningSlot \/ RequestBootMode \/ AppStep
    PROVE  TrialInv'
<1> USE DEF At, GoTo, SaveThen, DecidingPCs
<1>1. CASE ConfirmRunningSlot \/ RequestBootMode
  <2>1. bc'.attempts = 0 /\ bc'.pending = SlotNone
    BY <1>1 DEF ConfirmRunningSlot, RequestBootMode, SettleOnRunningSlot,
       SettleOn
  <2> QED
    BY <1>1, <2>1, TrialOff DEF ConfirmRunningSlot, RequestBootMode,
       SettleOnRunningSlot, flash
<1>2. CASE ConfirmState \/ RequestState
  BY <1>2, TrialOff DEF ConfirmState, RequestState, InitBootControl, flash
<1>3. CASE ConfirmDone
  BY <1>3, TrialOff DEF ConfirmDone, TrialInv, AttemptsBounded, flash
<1>4. CASE RequestReset
  <2>1. CASE ResetCpu(FALSE)
    BY <1>4, <2>1, ResetTrial DEF RequestReset, flash
  <2>2. CASE GoTo("app") /\ UNCHANGED bc
    BY <1>4, <2>2, TrialOff DEF RequestReset, TrialInv, AttemptsBounded, flash
  <2> QED
    BY <1>4, <2>1, <2>2 DEF RequestReset
<1> QED
  BY <1>1, <1>2, <1>3, <1>4 DEF AppStep

LEMMA NextTrialInv ==
    ASSUME IInv, Standing, TrialInv, [HNext]_hvars
    PROVE  TrialInv'
<1>1. CASE HNext
  <2>1. CountTrials /\ Next
    BY <1>1 DEF HNext, Next
  <2>2. CASE WatchdogReset \/ PowerLoss
    BY <2>1, <2>2, ResetTrial DEF WatchdogReset, PowerLoss, Interrupted, flash
  <2> QED
    BY <2>1, <2>2, FlashWriteTrial, BootStepTrial, SessionTrial, AppTrial
       DEF Next, Program
<1>2. CASE UNCHANGED hvars
  BY <1>2 DEF hvars, vars, history, TrialInv, AttemptsBounded, TrialsOnPage,
     CopyAgrees, SaveCounts, StartCounted
<1> QED
  BY <1>1, <1>2

\* A pending slot that is never confirmed is started at most
\* UPGRADE_PENDING_BOOT_LIMIT times, through power losses, torn pages, failed
\* saves and hangs: BootMain_HandlePendingSlot counts on flash first.
THEOREM TrialsAreBounded == HSpec => []TrialBound
<1>1. HInit => TrialInv
  BY UnreadableAssumption DEF HInit, Init, RamCleared, InitBootControl,
     TrialInv, AttemptsBounded, TrialsOnPage, CopyAgrees, SaveCounts,
     StartCounted, DecidingPCs
<1>2. IInv /\ Standing /\ TrialInv /\ [HNext]_hvars => TrialInv'
  BY NextTrialInv
<1>3. IInv /\ TrialInv => TrialBound
  BY DEF IInv, TypeOK, BootControls, TrialInv, AttemptsBounded, TrialsOnPage,
     TrialBound
<1> QED
  BY <1>1, <1>2, <1>3, Observed, Invariance, FallbackStands, PTL DEF HSpec

(***************************************************************************)
(* StayBound.  The starts that stayed in the loader are on the state page, *)
(* which a start counts before it looks at the limit.  With three on it, a *)
(* slot is rolled back to, for there is one.                               *)
(***************************************************************************)
IsUpgradeActive == IsUpgradeActiveState(LoadState(statePage).state)

InSession ==
    \/ pc \in {"begin_bootctl", "begin_erase", "begun", "wrote", "verify",
               "done_bootctl", "done_reset"}
    \/ pc = "loader" /\ want # NoImage

StayCounted(s) == IsUpgradeActiveState(s.state) => stays <= s.boots

StayInv ==
    /\ stays \in 0..(ActiveStateBootLimit - 1)
    /\ InSession \/ pc \in AppPCs => stays = 0
    /\ StayCounted(LoadState(statePage))
    /\ wr = "state" => StayCounted(st)
    /\ pc = "boot_timeout" =>
          /\ IsUpgradeActiveState(st.state) /\ stays < st.boots
          /\ wr = "state" \/ st = LoadState(statePage)

USE DEF ActiveStateBootLimit, WdgResetLimit

\* Of the steps of the program only a start that stays counts.
LEMMA StaysChange ==
    ASSUME StayInv, ProgramRan, ~(pc = "boot_timeout" /\ pc' = "loader")
    PROVE  /\ stays' \in {0, stays}
           /\ pc' \in {"app", "begin_bootctl"} => stays' = 0
BY DEF ProgramRan

LEMMA StayStep ==
    ASSUME IInv', StayInv, stays' \in {0, stays},
           statePage' \in {statePage, Unreadable}, pc' # "boot_timeout",
           wr' = "state" => st'.state = "failed" \/ stays' = 0,
           InSession' \/ pc' \in AppPCs => stays' = 0
    PROVE  StayInv'
<1>1. st'.boots \in Nat /\ LoadState(statePage').boots \in Nat
  BY LoadStateType DEF IInv, TypeOK, StateImages
<1>2. StayCounted(LoadState(statePage))'
  BY <1>1 DEF StayInv, StayCounted, LoadState, InitStateImage,
     IsUpgradeActiveState
<1>3. wr' = "state" => StayCounted(st)'
  BY <1>1 DEF StayCounted, IsUpgradeActiveState
<1>4. stays' \in 0..(ActiveStateBootLimit - 1)
  BY DEF StayInv
<1> QED
  BY <1>2, <1>3, <1>4 DEF StayInv

LEMMA FlashWriteStay ==
    ASSUME IInv, StayInv, ProgramRan, FlashWrite
    PROVE  StayInv'
<1>1. /\ UNCHANGED <<pc, st, want>> /\ wr' = "none"
      /\ statePage' = IF wr = "state" THEN st ELSE statePage
      /\ st # Unreadable /\ st.boots \in Nat
  BY UnreadableAssumption DEF FlashWrite, session, IInv, TypeOK, StateImages
<1>2. stays' = stays
  BY <1>1 DEF StayInv, ProgramRan, InSession, AppPCs
<1>3. LoadState(statePage)' = IF wr = "state" THEN st ELSE LoadState(statePage)
  BY <1>1 DEF LoadState
<1> QED
  BY <1>1, <1>2, <1>3 DEF StayInv, StayCounted, InSession

LEMMA BootStepStay ==
    ASSUME IInv, IInv', Standing, Path, StayInv, ProgramRan, BootStep
    PROVE  StayInv'
<1> USE DEF At, GoTo, SaveThen
<1>1. CASE BootUpgradeActive
  <2>1. /\ st = LoadState(statePage) /\ st \in StateImages
        /\ statePage' = statePage
    BY <1>1 DEF BootUpgradeActive, Path, CalmOnTheWay, IInv, TypeOK, flash
  <2>2. /\ st'.state = st.state /\ st'.boots = Saturate(st.boots)
        /\ st.boots \in 0..CounterMax
        /\ st'.boots = st.boots => st' = st
    BY <1>1, <2>1 DEF BootUpgradeActive, StateImages
  <2>3. stays' = stays /\ stays <= st.boots /\ stays \in 0..2
    BY <1>1, <2>1 DEF BootUpgradeActive, ProgramRan, StayInv, StayCounted
  <2>4. stays < st'.boots /\ stays \in Nat /\ st'.boots \in Nat
    BY <2>2, <2>3, CounterMaxAssumption DEF Saturate
  <2>5. pc' = "boot_timeout" /\ (wr' = "state" \/ st' = st)
    BY <1>1, <2>2 DEF BootUpgradeActive
  <2> QED
    BY <1>1, <2>1, <2>2, <2>3, <2>4, <2>5
       DEF BootUpgradeActive, StayInv, StayCounted, InSession, AppPCs
<1>2. CASE BootTimeout
  <2>1. PICK s \in Slots : IsSlotVectorValid(slots, s)
    BY DEF Standing, SomeStartable, Startable
  <2>2. bc \in BootControls
    BY DEF IInv, TypeOK
  <2>3. FindBestSlot(bc, slots, SlotNone) # SlotNone
    BY <2>1, <2>2, BestExists
  <2>4. CASE st.boots >= ActiveStateBootLimit
    <3>1. pc' = "mark_failed" /\ wr' = "bootctl" /\ UNCHANGED statePage
      BY <1>2, <2>4, <2>3 DEF BootTimeout, RollbackToSlot, flash, IInv,
         TypeOK, StateImages
    <3> QED
      BY <3>1, StaysChange, StayStep DEF InSession, AppPCs
  <2>5. CASE st.boots < ActiveStateBootLimit
    <3>1. /\ pc = "boot_timeout" /\ pc' = "loader" /\ want' = NoImage
          /\ wr' = "none" /\ UNCHANGED <<statePage, st>>
      <4>1. want = NoImage
        BY <1>2 DEF BootTimeout, IInv, NoFileOutsideSession, BootPCs
      <4>2. ~(st.boots >= ActiveStateBootLimit)
        BY <2>5 DEF IInv, TypeOK, StateImages
      <4> QED
        BY <1>2, <4>1, <4>2 DEF BootTimeout, flash, session
    <3>2. /\ st = LoadState(statePage) /\ stays < st.boots
          /\ stays \in Nat /\ st.boots \in Nat
      BY <1>2, <3>1 DEF StayInv, BootTimeout, IInv, TypeOK, StateImages
    <3>3. stays' = stays + 1
      BY <3>1, <3>2, <2>5 DEF ProgramRan, Bump
    <3> QED
      BY <2>5, <3>1, <3>2, <3>3 DEF StayInv, StayCounted, InSession, AppPCs
  <2> QED
    BY <2>4, <2>5 DEF IInv, TypeOK, StateImages
<1>3. CASE \/ BootLoad \/ BootWatchdogCount \/ BootUpgradeNotActive
           \/ BootRecovery \/ PendingRejected \/ PendingTrial
           \/ PendingTrialSaved \/ BootBestSlot
  <2>0. pc \in BootPCs /\ want = NoImage /\ UNCHANGED <<flash, session>>
    BY <1>3 DEF BootLoad, BootWatchdogCount, BootUpgradeNotActive,
       BootRecovery, PendingRejected, PendingTrial, PendingTrialSaved,
       BootBestSlot, BootPCs, IInv, NoFileOutsideSession
  <2>1. /\ pc' \in {"boot_watchdog", "boot_active", "boot_recovery",
                    "boot_select", "mark_failed", "trial", "jump", "loader"}
        /\ wr' \in {"none", "bootctl"} /\ pc # "boot_timeout"
    BY <1>3 DEF BootLoad, BootWatchdogCount, BootUpgradeNotActive,
       BootRecovery, PendingRejected, PendingTrial, PendingTrialSaved,
       BootBestSlot, RollbackToSlot
  <2> QED
    BY <2>0, <2>1, StaysChange, StayStep
       DEF InSession, AppPCs, flash, session
<1>4. CASE MarkUpgradeFailed
  <2>1. want' = NoImage
    BY <1>4 DEF MarkUpgradeFailed, IInv, NoFileOutsideSession, BootPCs, session
  <2> QED
    BY <1>4, <2>1, StaysChange, StayStep
       DEF MarkUpgradeFailed, InSession, AppPCs, flash
<1>5. CASE Jump
  BY <1>5, StaysChange, StayStep DEF Jump, InSession, flash
<1> QED
  BY <1>1, <1>2, <1>3, <1>4, <1>5 DEF BootStep

LEMMA SessionStay ==
    ASSUME IInv, IInv', StayInv, ProgramRan,
           ForceStay \/ LoaderStep \/ SessionStep
    PROVE  StayInv'
<1> USE DEF At, GoTo, SaveThen
<1>1. pc \in PCs \ BootPCs \/ pc = "boot_select"
  BY DEF ForceStay, LoaderStep, SessionStep, BeginBootControl, EraseSlotPage,
     EraseFails, EraseDone, BeginImageDone, WriteImageDataSaved, VerifyImage,
     MarkDoneBootControl, ResetAfterDone, BeginImage, HeaderRefused,
     WriteImageData, ProgramFails, EndOfFile, SessionFails, EmptySession,
     FinalizeSession, PCs, BootPCs
<1>2. /\ stays' \in {0, stays}
      /\ pc' \in {"app", "begin_bootctl"} => stays' = 0
      /\ InSession => stays' = 0
  BY <1>1, StaysChange DEF BootPCs, StayInv
<1>3. CASE LoaderStep
  <2>1. /\ InSession /\ statePage' = statePage
        /\ pc' \in {"begin_erase", "begun", "loader", "done_bootctl",
                    "done_reset", "boot_load"}
    BY <1>3 DEF LoaderStep, BeginBootControl, EraseSlotPage, EraseFails,
       EraseDone, BeginImageDone, WriteImageDataSaved, VerifyImage,
       MarkDoneBootControl, ResetAfterDone, MarkFailed, ResetCpu, InSession,
       flash
  <2> QED
    BY <1>2, <2>1, StayStep
<1>4. CASE \/ ForceStay \/ EndOfFile \/ EmptySession
           \/ (SessionFails /\ UNCHANGED wr)
  <2>1. /\ statePage' = statePage /\ pc' = "loader" /\ wr' = "none"
        /\ want' # NoImage => InSession
    BY <1>4 DEF ForceStay, EndOfFile, EmptySession, SessionFails, InSession,
       flash, session, IInv, NoFileOutsideSession, BootPCs, MarkFailed
  <2> QED
    BY <1>2, <2>1, StayStep DEF InSession, AppPCs
<1>5. CASE \/ (HeaderRefused \/ ProgramFails \/ SessionFails
               \/ FinalizeSession) /\ MarkFailed
  <2>1. pc' = "loader" /\ want' = NoImage /\ st'.state = "failed"
    BY <1>5 DEF MarkFailed
  <2>2. statePage' = statePage
    BY <1>5 DEF HeaderRefused, ProgramFails, SessionFails, FinalizeSession,
       flash
  <2> QED
    BY <1>2, <2>1, <2>2, StayStep DEF InSession, AppPCs
<1>6. CASE WriteImageData \/ (FinalizeSession /\ pc' = "verify")
  <2>1. InSession
    BY <1>6 DEF WriteImageData, FinalizeSession, InSession, IInv,
       NoFileOutsideSession
  <2> QED
    BY <1>2, <1>6, <2>1, StayStep
       DEF WriteImageData, FinalizeSession, flash
<1>7. CASE \E h \in Images, d \in Images : BeginImage(h, d)
  BY <1>2, <1>7, StayStep DEF BeginImage, flash
<1> QED
  BY <1>3, <1>4, <1>5, <1>6, <1>7 DEF SessionStep, HeaderRefused,
     ProgramFails, SessionFails, FinalizeSession

LEMMA AppStay ==
    ASSUME IInv', StayInv, ProgramRan,
           ConfirmRunningSlot \/ RequestBootMode \/ AppStep
    PROVE  StayInv'
<1>1. /\ pc \in AppPCs /\ statePage' = statePage
      /\ pc' \in AppPCs \cup {"boot_load"}
  BY DEF ConfirmRunningSlot, RequestBootMode, SettleOnRunningSlot, AppStep,
     ConfirmState, ConfirmDone, RequestState, RequestReset, ResetCpu, AppPCs,
     At, GoTo, SaveThen, flash
<1>2. stays' = 0
  BY <1>1, StaysChange DEF StayInv, AppPCs
<1> QED
  BY <1>1, <1>2, StayStep DEF AppPCs

LEMMA NextStay ==
    ASSUME "flash" \notin Faults, IInv, Standing, Path, StayInv, [HNext]_hvars
    PROVE  StayInv'
<1>1. IInv'
  BY StepObserved, NextIInv
<1>2. CASE Program /\ ProgramRan
  BY <1>1, <1>2, FlashWriteStay, BootStepStay, SessionStay, AppStay
     DEF Program, FlashWriteFails
<1>3. CASE (WatchdogReset \/ PowerLoss) /\ stays' = stays
  BY <1>1, <1>3, StayStep DEF WatchdogReset, PowerLoss, Interrupted,
     ResetCpu, InSession, AppPCs, flash
<1>4. CASE UNCHANGED hvars
  BY <1>4 DEF hvars, vars, history, StayInv, StayCounted, InSession
<1> QED
  BY <1>2, <1>3, <1>4 DEF HNext, WatchdogFired, PowerLost

\* Unless an erase or a program call fails, an upgrade in progress keeps the
\* device in the loader for less than UPGRADE_ACTIVE_STATE_BOOT_LIMIT starts
\* in a row, wherever the power is lost and whichever page is torn.
THEOREM StaysAreBounded ==
    ASSUME "flash" \notin Faults
    PROVE  HSpec => []StayBound
<1>1. HInit => StayInv
  BY DEF HInit, Init, RamCleared, StayInv, StayCounted, InSession, AppPCs,
     LoadState, InitStateImage, IsUpgradeActiveState
<1>2. IInv /\ Standing /\ Path /\ StayInv /\ [HNext]_hvars => StayInv'
  BY NextStay
<1>3. StayInv => StayBound
  BY DEF StayInv, StayBound
<1> QED
  BY <1>1, <1>2, <1>3, Observed, Invariance, FallbackStands, PathIsKept, PTL
     DEF HSpec

(***************************************************************************)
(* HangBound.  The hangs of a slot are on the watchdog counter of the page *)
(* when the application runs, and up to one more after its reset.          *)
(***************************************************************************)
\* The hangs of slot s so far are on the counter of c.
Covered(s, c) == hangs = 0 \/ hung # s \/ hangs <= c.wdg

\* The hangs are those of the slot c starts, or c does not count them.
Charged(c) ==
    \/ hangs = 0
    \/ c.wdg > 0 /\ hung = Target(c) /\ Level(c) /\ hangs <= c.wdg
    \/ c.wdg = 0 /\ hung # Target(c)

\* The same, before the last reset has been counted.
Due(c) ==
    \/ hangs = 0
    \/ iwdg /\ hung = Target(c) /\ Level(c) /\ hangs <= c.wdg + 1
    \/ ~iwdg /\ hung # Target(c)

Spared(s) == hangs = 0 \/ hung # s

TrialHangs(c) == c.pending # SlotNone => hangs = 0 \/ hung = c.pending

\* Who hangs while a slot is on trial is that slot.
HangsOnTrial == TrialHangs(Loaded) /\ TrialHangs(bc)

\* What an upgrade in progress falls back to does not hang.
PageSpared == hangs = 0 \/ (bootctl # Unreadable /\ hung # bootctl.confirmed)

UpgradeSpares ==
    /\ IsUpgradeActive => PageSpared
    /\ wr = "state" /\ IsUpgradeActiveState(st.state) => PageSpared
    /\ wr = "bootctl" /\ IsUpgradeActive => Spared(bc.confirmed)
    /\ pc = "boot_timeout" => Spared(bc.confirmed)
    /\ InSession => hangs = 0

StartCharged ==
    /\ iwdg => /\ pc \in {"boot_load", "boot_watchdog"}
               /\ Loaded.wdg < WdgResetLimit
    /\ pc = "boot_load" => /\ wr = "none" /\ Due(Loaded)
                           /\ hangs = 0 \/ Startable(Target(Loaded))
    /\ pc = "boot_watchdog" => /\ Due(bc)
                               /\ iwdg => bc.wdg < WdgResetLimit
    /\ pc \in DecidingPCs \ {"boot_watchdog"} =>
          Charged(bc) /\ bc.wdg <= WdgResetLimit
    /\ pc \in {"boot_select", "trial", "jump"} => bc.wdg < WdgResetLimit
    /\ pc = "trial" => Covered(bc.pending, bc)
    /\ pc = "mark_failed" /\ bootSlot # SlotNone =>
          bc.wdg = 0 /\ Spared(bootSlot)
    /\ pc = "jump" => Covered(bootSlot, bc)

AppCharged ==
    /\ pc \in AppPCs => /\ Loaded.wdg < WdgResetLimit
                        /\ Covered(bootSlot, Loaded)
                        /\ Startable(bootSlot)
    /\ pc \in {"confirm_state", "request_state"} /\ wr = "bootctl" =>
          bc.wdg = 0
    /\ pc = "request_state" /\ wr = "none" =>
          PageSpared /\ (hangs = 0 \/ bootctl.confirmed = bootSlot)
    /\ pc = "request_reset" => Spared(bootSlot)

HangInv ==
    /\ hangs \in 0..WdgResetLimit
    /\ HangsOnTrial
    /\ UpgradeSpares
    /\ StartCharged
    /\ AppCharged

LEMMA InitHang == HInit => HangInv
BY DEF HInit, Init, RamCleared, HangInv, HangsOnTrial, TrialHangs,
   UpgradeSpares, PageSpared, Spared, InSession, StartCharged, Due, Covered,
   Charged, AppCharged, AppPCs, DecidingPCs, InitBootControl

\* Of the steps of the program only a settled page and a new download end a
\* row of hangs.
LEMMA HangsChange ==
    ASSUME ProgramRan
    PROVE  /\ hangs' \in {0, hangs} /\ hung' = hung
           /\ ~Settled /\ pc' # "begin_bootctl" => hangs' = hangs
BY DEF ProgramRan

LEMMA HangStep ==
    ASSUME HangInv, UNCHANGED <<statePage, bootctl>>, hangs' \in {0, hangs},
           hung' = hung, TrialHangs(bc)',
           wr' = "state" => \/ ~IsUpgradeActiveState(st'.state)
                            \/ PageSpared \/ hangs' = 0,
           wr' = "bootctl" => ~IsUpgradeActive \/ Spared(bc.confirmed)',
           pc' = "boot_timeout" => Spared(bc.confirmed)',
           InSession' => hangs' = 0,
           StartCharged', AppCharged'
    PROVE  HangInv'
<1>1. PageSpared => PageSpared'
  BY DEF PageSpared
<1>2. hangs' = 0 => PageSpared'
  BY DEF PageSpared
<1>3. IsUpgradeActive' = IsUpgradeActive
  BY DEF IsUpgradeActive
<1>4. UpgradeSpares'
  BY <1>1, <1>2, <1>3 DEF HangInv, UpgradeSpares
<1>5. HangsOnTrial'
  BY DEF HangInv, HangsOnTrial, TrialHangs, Loaded
<1>6. hangs' \in 0..WdgResetLimit
  BY DEF HangInv
<1> QED
  BY <1>4, <1>5, <1>6 DEF HangInv

\* The repair of a boot control keeps the slot it starts, if that can start.
LEMMA NormalizeKeeps ==
    ASSUME NEW c \in BootControls, NEW f, NEW s \in Slots,
           IsSlotVectorValid(f, s)
    PROVE  LET n == NormalizeBootControl(c, f)
           IN /\ n.wdg = c.wdg /\ n.pending = c.pending
              /\ Level(c) => Level(n)
              /\ IsSlotVectorValid(f, Target(c)) => Target(n) = Target(c)
<1> DEFINE best == FindBestSlot(c, f, SlotNone)
           n == NormalizeBootControl(c, f)
<1>1. /\ n.wdg = c.wdg /\ n.pending = c.pending
      /\ IsSlotVectorValid(f, c.confirmed) => n.confirmed = c.confirmed
  BY NormalizeStands, NormalizeType
<1> HIDE DEF best
<1>2. c.active = c.confirmed => n.active = n.confirmed
  BY DEF NormalizeBootControl, BootControls, best
<1> HIDE DEF n
<1>3. Level(c) => Level(n)
  BY <1>1, <1>2 DEF Level
<1>4. IsSlotVectorValid(f, Target(c)) => Target(n) = Target(c)
  BY <1>1 DEF Target
<1> QED
  BY <1>1, <1>3, <1>4 DEF n

LEMMA BootStepHang ==
    ASSUME IInv, Standing, Path, HangInv, ProgramRan, BootStep
    PROVE  HangInv'
<1> USE DEF At, GoTo, SaveThen, DecidingPCs
<1>a. /\ bc \in BootControls /\ bc.wdg \in Nat
      /\ bc.pending \in Slots \cup {SlotNone} /\ bc.confirmed \in Slots
      /\ hangs \in 0..3
  BY DEF IInv, TypeOK, BootControls, HangInv
<1>b. /\ UNCHANGED <<flash, session>> /\ pc \in BootPCs \cup {"jump"}
      /\ pc' \in (BootPCs \cup {"jump", "loader", "app"}) \ {"boot_load"}
      /\ wr = "none"
  BY DEF BootStep, BootLoad, BootWatchdogCount, BootUpgradeActive,
     BootUpgradeNotActive, BootTimeout, BootRecovery, MarkUpgradeFailed,
     PendingRejected, PendingTrial, PendingTrialSaved, BootBestSlot, Jump,
     RollbackToSlot, BootPCs
<1>c. hangs' = hangs /\ hung' = hung
  BY <1>b, HangsChange DEF Settled, BootPCs
<1>d. UNCHANGED <<statePage, bootctl, slots, want>> /\ Loaded' = Loaded
  BY <1>b DEF flash, session, Loaded
<1>e. ~InSession'
  <2>1. CASE pc = "jump"
    BY <2>1 DEF BootStep, BootLoad, BootWatchdogCount, BootUpgradeActive,
       BootUpgradeNotActive, BootTimeout, BootRecovery, MarkUpgradeFailed,
       PendingRejected, PendingTrial, PendingTrialSaved, BootBestSlot, Jump,
       InSession
  <2>2. CASE pc # "jump"
    BY <1>b, <1>d, <2>2 DEF InSession, IInv, NoFileOutsideSession, BootPCs
  <2> QED
    BY <2>1, <2>2
<1>f. pc \notin {"boot_load", "boot_watchdog"} => iwdg = FALSE
  BY DEF HangInv, StartCharged, IInv, TypeOK
<1>g. pc' # "app" => AppCharged'
  BY <1>b DEF AppCharged, AppPCs, BootPCs
<1>h. pc # "boot_load" => bc = Loaded /\ TrialHangs(bc)
  BY <1>b DEF Path, PageIsCopy, HangInv, HangsOnTrial
<1>i. pc # "boot_load" /\ IsUpgradeActive => Spared(bc.confirmed)
  BY <1>h DEF HangInv, UpgradeSpares, PageSpared, Spared, Loaded,
     LoadBootControl
<1>j. ASSUME TrialHangs(bc)', StartCharged', pc' # "app",
             wr' = "state" => \/ ~IsUpgradeActiveState(st'.state)
                              \/ PageSpared,
             wr' = "bootctl" => ~IsUpgradeActive \/ Spared(bc'.confirmed),
             pc' = "boot_timeout" => Spared(bc'.confirmed)
      PROVE  HangInv'
  BY <1>c, <1>d, <1>e, <1>g, <1>j, HangStep DEF Spared
<1>1. CASE BootLoad
  <2> DEFINE loaded == LoadBootControl(bootctl)
  <2>1. loaded \in BootControls
    BY LoadBootControlType DEF IInv, TypeOK
  <2>2. PICK s \in Slots : IsSlotVectorValid(slots, s)
    BY DEF Standing, SomeStartable, Startable
  <2>3. bc' = NormalizeBootControl(loaded, slots)
    BY <1>1 DEF BootLoad
  <2>4. bootctl # Unreadable =>
            loaded = bootctl /\ IsSlotVectorValid(slots, loaded.confirmed)
    BY DEF Standing, PageStands, LoadBootControl, Startable
  <2>5. loaded = Loaded
    BY DEF Loaded
  <2> HIDE DEF loaded
  <2>6. /\ bc'.wdg = loaded.wdg /\ bc'.pending = loaded.pending
        /\ Level(loaded) => Level(bc')
        /\ IsSlotVectorValid(slots, Target(loaded)) =>
              Target(bc') = Target(loaded)
        /\ bootctl # Unreadable => bc'.confirmed = loaded.confirmed
    BY <2>1, <2>2, <2>3, <2>4, NormalizeKeeps, NormalizeStands
  <2>7. TrialHangs(bc)'
    BY <1>c, <2>5, <2>6 DEF HangInv, HangsOnTrial, TrialHangs
  <2>8. IsUpgradeActive => Spared(bc'.confirmed)
    BY <2>4, <2>6 DEF HangInv, UpgradeSpares, PageSpared, Spared
  <2>9. /\ pc' = "boot_watchdog" /\ iwdg' = iwdg
        /\ Due(Loaded) /\ (hangs = 0 \/ Startable(Target(Loaded)))
        /\ iwdg => Loaded.wdg < WdgResetLimit
    BY <1>1 DEF BootLoad, HangInv, StartCharged
  <2>10. Due(bc)'
    BY <1>c, <2>5, <2>6, <2>9 DEF Due, Startable, Level, Target
  <2>11. StartCharged'
    BY <1>d, <2>5, <2>6, <2>9, <2>10 DEF StartCharged
  <2> QED
    BY <1>1, <1>j, <2>7, <2>8, <2>11 DEF BootLoad
<1>2. CASE BootWatchdogCount
  <2>1. /\ bc'.pending = bc.pending /\ bc'.confirmed = bc.confirmed
        /\ bc'.active = bc.active
        /\ bc'.wdg = IF iwdg THEN Saturate(bc.wdg) ELSE 0
        /\ pc' = "boot_active" /\ wr' # "state" /\ iwdg' = FALSE
    BY <1>2, <1>a DEF BootWatchdogCount, BootControls
  <2>2. Due(bc) /\ (iwdg => bc.wdg < WdgResetLimit) /\ iwdg \in BOOLEAN
    BY <1>2 DEF BootWatchdogCount, HangInv, StartCharged, IInv, TypeOK
  <2>3. bc'.wdg = IF iwdg THEN bc.wdg + 1 ELSE 0
    BY <1>a, <2>1, <2>2, CounterMaxAssumption DEF Saturate
  <2>4. Target(bc') = Target(bc) /\ (Level(bc) => Level(bc'))
    BY <2>1 DEF Target, Level
  <2>5. Charged(bc)' /\ bc'.wdg <= WdgResetLimit
    BY <1>a, <1>c, <2>2, <2>3, <2>4 DEF Due, Charged, Target, Level
  <2>6. StartCharged'
    BY <2>1, <2>5 DEF StartCharged
  <2>7. TrialHangs(bc)'
    BY <1>2, <1>c, <1>h, <2>1 DEF TrialHangs, BootWatchdogCount
  <2> QED
    BY <1>2, <1>i, <1>j, <2>1, <2>6, <2>7 DEF BootWatchdogCount
<1>k. ASSUME UNCHANGED bc, TrialHangs(bc)
      PROVE  TrialHangs(bc)'
  BY <1>c, <1>k DEF TrialHangs
<1>l. ASSUME pc \in DecidingPCs \ {"boot_watchdog"},
             pc' \in {"boot_timeout", "boot_recovery", "boot_select"},
             pc' = "boot_select" => bc.wdg < WdgResetLimit,
             UNCHANGED <<bc, iwdg>>
      PROVE  StartCharged'
  <2>1. Charged(bc) /\ bc.wdg <= WdgResetLimit
    BY <1>l DEF HangInv, StartCharged
  <2>2. Charged(bc)'
    BY <1>c, <1>l, <2>1 DEF Charged, Target, Level
  <2> QED
    BY <1>f, <1>l, <2>1, <2>2 DEF StartCharged
<1>3. CASE BootUpgradeActive
  <2>1. IsUpgradeActive
    BY <1>3 DEF BootUpgradeActive, Path, CalmOnTheWay, IsUpgradeActive
  <2>2. PageSpared
    BY <2>1 DEF HangInv, UpgradeSpares
  <2> QED
    BY <1>3, <1>h, <1>i, <1>j, <1>k, <1>l, <2>1, <2>2 DEF BootUpgradeActive
<1>4. CASE BootUpgradeNotActive
  BY <1>4, <1>h, <1>j, <1>k, <1>l DEF BootUpgradeNotActive
<1>m. ASSUME NEW s \in Slots, RollbackToSlot(s), Spared(s),
             pc \notin {"boot_load", "boot_watchdog"}, UNCHANGED iwdg
      PROVE  HangInv'
  <2>1. /\ bc'.confirmed = s /\ bc'.pending = SlotNone /\ bc'.wdg = 0
        /\ bootSlot' = s /\ pc' = "mark_failed" /\ wr' = "bootctl"
    BY <1>a, <1>m DEF RollbackToSlot, BootControls
  <2>2. StartCharged'
    BY <1>c, <1>f, <1>m, <2>1 DEF StartCharged, Spared
  <2> QED
    BY <1>j, <1>m, <2>1, <2>2 DEF TrialHangs
<1>n. ASSUME pc \notin {"boot_load", "boot_watchdog"}, pc' = "loader",
             UNCHANGED <<bc, iwdg>>, wr' = "none"
      PROVE  HangInv'
  BY <1>f, <1>h, <1>j, <1>k, <1>n DEF StartCharged
<1>o. ASSUME NEW x, FindBestSlot(bc, slots, x) # SlotNone
      PROVE  FindBestSlot(bc, slots, x) \in Slots
             /\ FindBestSlot(bc, slots, x) # x
  BY <1>o, <1>a, BestIsFit
<1>p. pc \in DecidingPCs =>
          FindBestSlot(bc, slots, SlotNone) = bc.confirmed
  <2>1. pc \in DecidingPCs => Startable(bc.confirmed)
    BY DEF Standing, CopyStands, PCs, BlankPCs
  <2> QED
    BY <1>a, <2>1, BestIsConfirmed DEF Startable
<1>5. CASE BootTimeout
  <2>1. pc = "boot_timeout" /\ Spared(bc.confirmed)
    BY <1>5 DEF BootTimeout, HangInv, UpgradeSpares
  <2>2. FindBestSlot(bc, slots, SlotNone) = bc.confirmed
    BY <1>p, <2>1
  <2>3. RollbackToSlot(bc.confirmed) \/ (GoTo("loader") /\ UNCHANGED bc)
    BY <1>5, <2>2 DEF BootTimeout
  <2> QED
    BY <1>5, <1>a, <1>m, <1>n, <2>1, <2>3 DEF BootTimeout
<1>6. CASE BootRecovery
  <2> DEFINE suspect == IF bc.pending # SlotNone THEN bc.pending ELSE bc.active
             fallback == FindBestSlot(bc, slots, suspect)
  <2>1. CASE bc.wdg < WdgResetLimit /\ GoTo("boot_select") /\ UNCHANGED bc
    BY <1>6, <1>h, <1>j, <1>k, <1>l, <2>1 DEF BootRecovery
  <2>2. CASE /\ bc.wdg >= WdgResetLimit /\ fallback # SlotNone
             /\ RollbackToSlot(fallback)
    <3>1. Charged(bc) /\ bc.wdg > 0
      BY <1>6, <1>a, <2>2 DEF BootRecovery, HangInv, StartCharged
    <3>2. hangs = 0 \/ hung = suspect
      BY <1>a, <3>1 DEF Charged, Target, Level
    <3>3. fallback \in Slots /\ fallback # suspect
      BY <1>o, <2>2
    <3> HIDE DEF fallback, suspect
    <3>4. Spared(fallback)
      BY <3>2, <3>3 DEF Spared
    <3> QED
      BY <1>6, <1>m, <2>2, <3>3, <3>4 DEF BootRecovery
  <2>3. CASE /\ bc' = [bc EXCEPT !.pending = SlotNone, !.attempts = 0,
                                 !.wdg = 0]
             /\ SaveThen("bootctl", "mark_failed") /\ UNCHANGED bootSlot
    <3>1. bc'.pending = SlotNone /\ bc'.confirmed = bc.confirmed
      BY <1>a, <2>3 DEF BootControls
    <3>2. bootSlot' = SlotNone /\ iwdg' = FALSE
      BY <1>6, <1>f, <2>3 DEF BootRecovery, Path, SlotIsChosen, BootPCs
    <3>3. StartCharged'
      BY <2>3, <3>2 DEF StartCharged
    <3> QED
      BY <1>6, <1>i, <1>j, <2>3, <3>1, <3>3 DEF BootRecovery, TrialHangs
  <2> QED
    BY <1>6, <2>1, <2>2, <2>3 DEF BootRecovery
<1>7. CASE MarkUpgradeFailed
  <2>1. bootSlot # SlotNone => bc.wdg = 0 /\ Spared(bootSlot)
    BY <1>7 DEF MarkUpgradeFailed, HangInv, StartCharged
  <2>2. StartCharged'
    BY <1>7, <1>c, <1>f, <2>1
       DEF MarkUpgradeFailed, StartCharged, Covered, Spared
  <2>3. ~IsUpgradeActiveState(st'.state) /\ wr' = "state" /\ pc' # "app"
        /\ pc' # "boot_timeout" /\ bc' = bc /\ pc # "boot_load"
    BY <1>7 DEF MarkUpgradeFailed, IsUpgradeActiveState
  <2> QED
    BY <1>h, <1>j, <1>k, <2>2, <2>3
<1>8. CASE PendingRejected
  <2> DEFINE fallback == FindBestSlot(bc, slots, bc.pending)
  <2>1. CASE fallback # SlotNone /\ RollbackToSlot(fallback)
    <3>1. fallback \in Slots /\ fallback # bc.pending
      BY <1>o, <2>1
    <3>2. pc = "boot_select" /\ bc.pending # SlotNone /\ UNCHANGED iwdg
      BY <1>8 DEF PendingRejected
    <3>3. hangs = 0 \/ hung = bc.pending
      BY <1>h, <3>2 DEF TrialHangs
    <3> HIDE DEF fallback
    <3>4. Spared(fallback)
      BY <3>1, <3>3 DEF Spared
    <3> QED
      BY <1>m, <2>1, <3>1, <3>2, <3>4
  <2>2. CASE GoTo("mark_failed") /\ UNCHANGED <<bc, bootSlot>>
    <3>1. bootSlot' = SlotNone /\ iwdg' = FALSE
      BY <1>8, <1>f, <2>2 DEF PendingRejected, Path, SlotIsChosen, BootPCs
    <3>2. StartCharged'
      BY <2>2, <3>1 DEF StartCharged
    <3> QED
      BY <1>8, <1>h, <1>j, <1>k, <2>2, <3>2 DEF PendingRejected
  <2> QED
    BY <1>8, <2>1, <2>2 DEF PendingRejected
<1>q. pc = "boot_select" =>
          ~IsUpgradeActive /\ Charged(bc) /\ bc.wdg < WdgResetLimit
  BY DEF Path, CalmOnTheWay, Calm, IsUpgradeActive, HangInv, StartCharged
<1>9. CASE PendingTrial
  <2>1. /\ bc'.pending = bc.pending /\ bc'.wdg = bc.wdg
        /\ pc = "boot_select" /\ pc' = "trial" /\ wr' = "bootctl"
        /\ bc.pending # SlotNone /\ iwdg' = iwdg
    BY <1>9, <1>a DEF PendingTrial, BootControls
  <2>2. Covered(bc.pending, bc)'
    BY <1>a, <1>c, <1>q, <2>1 DEF Covered, Charged, Target
  <2>3. StartCharged'
    BY <1>f, <1>q, <2>1, <2>2 DEF StartCharged
  <2>4. TrialHangs(bc)'
    BY <1>c, <1>h, <2>1 DEF TrialHangs
  <2> QED
    BY <1>j, <1>q, <2>1, <2>3, <2>4
<1>10. CASE PendingTrialSaved
  <2>1. /\ pc = "trial" /\ pc' = "jump" /\ bootSlot' = bc.pending
        /\ bc' = bc /\ iwdg' = iwdg /\ wr' = "none"
    BY <1>10 DEF PendingTrialSaved, Path, SavesDone
  <2>2. Covered(bc.pending, bc) /\ bc.wdg < WdgResetLimit
    BY <2>1 DEF HangInv, StartCharged
  <2>3. StartCharged'
    BY <1>c, <1>f, <2>1, <2>2 DEF StartCharged, Covered
  <2> QED
    BY <1>h, <1>j, <1>k, <2>1, <2>3
<1>11. CASE BootBestSlot
  <2>0. pc = "boot_select" /\ iwdg' = iwdg /\ bc.pending = SlotNone
    BY <1>11 DEF BootBestSlot
  <2>1. FindBestSlot(bc, slots, SlotNone) = bc.confirmed
    BY <1>p, <2>0
  <2>2. /\ bootSlot' = bc.confirmed /\ pc' = "jump"
        /\ wr' \in {"none", "bootctl"}
        /\ \/ bc' = bc
           \/ bc' = [bc EXCEPT !.active = bc.confirmed,
                               !.confirmed = bc.confirmed, !.attempts = 0]
    BY <1>11, <1>a, <2>1 DEF BootBestSlot
  <2>3. bc'.pending = SlotNone /\ bc'.wdg = bc.wdg
    BY <1>a, <2>0, <2>2 DEF BootControls
  <2>4. Covered(bootSlot, bc)'
    BY <1>a, <1>c, <1>q, <2>0, <2>2, <2>3 DEF Covered, Charged, Target
  <2>5. StartCharged'
    BY <1>f, <1>q, <2>0, <2>2, <2>3, <2>4 DEF StartCharged
  <2> QED
    BY <1>j, <1>q, <2>0, <2>2, <2>3, <2>5 DEF TrialHangs
<1>12. CASE Jump
  <2>1. /\ pc = "jump" /\ pc' = "app" /\ wr' = "none" /\ iwdg' = iwdg
        /\ bootSlot' = bootSlot /\ bc' = InitBootControl
    BY <1>12 DEF Jump
  <2>2. Covered(bootSlot, Loaded) /\ Loaded.wdg < WdgResetLimit
    BY <1>h, <2>1 DEF HangInv, StartCharged
  <2>3. bootSlot = Target(bc)
    BY <2>1 DEF Path, SlotIsChosen
  <2>4. Startable(bc.confirmed)
    BY <2>1 DEF Standing, CopyStands, PCs, BlankPCs
  <2>5. Startable(bootSlot)
    BY <2>3, <2>4 DEF Target, IInv, Verified, ValidateDigestsAndVector,
       Startable
  <2>6. AppCharged'
    BY <1>c, <1>d, <2>1, <2>2, <2>5 DEF AppCharged, AppPCs, Covered, Startable
  <2>7. StartCharged'
    BY <1>f, <2>1 DEF StartCharged
  <2>8. TrialHangs(bc)'
    BY <2>1 DEF TrialHangs, InitBootControl
  <2> QED
    BY <1>c, <1>d, <1>e, <2>1, <2>6, <2>7, <2>8, HangStep
<1> QED
  BY <1>1, <1>2, <1>3, <1>4, <1>5, <1>6, <1>7, <1>8, <1>9, <1>10, <1>11,
     <1>12 DEF BootStep

LEMMA FlashWriteHang ==
    ASSUME IInv, Path, HangInv, ProgramRan, FlashWrite
    PROVE  HangInv'
<1>1. /\ UNCHANGED <<slots, pc, iwdg, st, bc, bootSlot, want>>
      /\ wr \in {"state", "bootctl"} /\ wr' = "none"
      /\ statePage' = IF wr = "state" THEN st ELSE statePage
      /\ bootctl' = IF wr = "bootctl" THEN bc ELSE bootctl
      /\ bc # Unreadable /\ st # Unreadable /\ bc.wdg \in Nat
  BY UnreadableAssumption DEF FlashWrite, session, IInv, TypeOK, BootControls
<1>2. hangs' \in {0, hangs} /\ hung' = hung /\ hangs \in 0..WdgResetLimit
  BY HangsChange DEF HangInv
<1>3. Loaded' = IF wr = "bootctl" THEN bc ELSE Loaded
  BY <1>1 DEF Loaded, LoadBootControl
<1>4. HangsOnTrial'
  BY <1>1, <1>2, <1>3 DEF HangInv, HangsOnTrial, TrialHangs
<1>5. UpgradeSpares'
  <2>1. CASE wr = "state"
    <3>1. IsUpgradeActive' = IsUpgradeActiveState(st.state)
      BY <1>1, <2>1 DEF IsUpgradeActive, LoadState
    <3>2. PageSpared => PageSpared'
      BY <1>1, <1>2, <2>1 DEF PageSpared
    <3> QED
      BY <1>1, <1>2, <2>1, <3>1, <3>2
         DEF HangInv, UpgradeSpares, Spared, InSession
  <2>2. CASE wr = "bootctl"
    <3>1. IsUpgradeActive' = IsUpgradeActive
      BY <1>1, <2>2 DEF IsUpgradeActive
    <3>2. IsUpgradeActive => PageSpared'
      BY <1>1, <1>2, <2>2 DEF PageSpared, HangInv, UpgradeSpares, Spared
    <3> QED
      BY <1>1, <1>2, <3>1, <3>2 DEF HangInv, UpgradeSpares, Spared, InSession
  <2> QED
    BY <1>1, <2>1, <2>2
<1>6. StartCharged'
  <2>1. \A c : (Due(c) => Due(c)') /\ (Charged(c) => Charged(c)')
    BY <1>1, <1>2 DEF Due, Charged, Target, Level
  <2> QED
    BY <1>1, <1>2, <1>3 DEF HangInv, StartCharged, Due, Charged, Covered,
       Spared, Target, Level, DecidingPCs
<1>7. AppCharged'
  <2>1. CASE wr = "bootctl" /\ pc \in AppPCs
    <3>1. pc \in {"confirm_state", "request_state"}
      BY <2>1 DEF AppPCs, Path, PageIsCopy
    <3>2. bc.wdg = 0 /\ bc.confirmed = bootSlot /\ Startable(bootSlot)
      BY <2>1, <3>1 DEF HangInv, AppCharged, Path, PageIsCopy
    <3>3. Settled
      BY <1>1, <2>1, <3>1, <3>2 DEF Settled
    <3>4. hangs' = 0
      BY <3>3 DEF ProgramRan
    <3> QED
      BY <1>1, <1>3, <2>1, <3>1, <3>2, <3>4
         DEF AppCharged, Covered, PageSpared, Startable
  <2>2. CASE pc \notin AppPCs
    BY <1>1, <2>2 DEF AppCharged, AppPCs
  <2>3. CASE wr = "state" /\ pc \in AppPCs
    <3>1. pc # "request_state"
      BY <2>3 DEF Path, SavesDone
    <3> QED
      BY <1>1, <1>2, <1>3, <2>3, <3>1
         DEF HangInv, AppCharged, AppPCs, Covered, Startable, Spared
  <2> QED
    BY <1>1, <2>1, <2>2, <2>3
<1> QED
  BY <1>2, <1>4, <1>5, <1>6, <1>7 DEF HangInv

\* During a download nothing has hung since the last reset.
LEMMA SessionHang ==
    ASSUME IInv, Path, HangInv, ProgramRan,
           ForceStay \/ LoaderStep \/ SessionStep
    PROVE  HangInv'
<1> USE DEF At, GoTo, SaveThen
<1>1. pc \in OffPath \cup {"boot_select"} /\ UNCHANGED <<statePage, bootctl>>
  BY DEF ForceStay, LoaderStep, SessionStep, BeginBootControl, EraseSlotPage,
     EraseFails, EraseDone, BeginImageDone, WriteImageDataSaved, VerifyImage,
     MarkDoneBootControl, ResetAfterDone, BeginImage, HeaderRefused,
     WriteImageData, ProgramFails, EndOfFile, SessionFails, EmptySession,
     FinalizeSession, OffPath, flash
<1>2. /\ hangs' \in {0, hangs} /\ hung' = hung
      /\ pc' = "begin_bootctl" => hangs' = 0
      /\ InSession => hangs' = 0
  BY DEF ProgramRan, HangInv, UpgradeSpares
<1>3. iwdg = FALSE
  BY <1>1 DEF OffPath, HangInv, StartCharged, IInv, TypeOK
<1>4. ASSUME UNCHANGED iwdg, pc' \in OffPath, bc'.pending = SlotNone \/ bc' = bc,
             wr' = "state" => st'.state = "failed" \/ hangs' = 0,
             wr' = "bootctl" => hangs' = 0,
             InSession' => hangs' = 0
      PROVE  HangInv'
  <2>1. StartCharged' /\ AppCharged' /\ pc' # "boot_timeout"
    BY <1>3, <1>4 DEF StartCharged, AppCharged, OffPath, AppPCs, DecidingPCs
  <2>2. TrialHangs(bc)'
    BY <1>2, <1>4 DEF TrialHangs, HangInv, HangsOnTrial
  <2>3. st'.state = "failed" => ~IsUpgradeActiveState(st'.state)
    BY DEF IsUpgradeActiveState
  <2> QED
    BY <1>1, <1>2, <1>4, <2>1, <2>2, <2>3, HangStep DEF Spared
<1>5. CASE LoaderStep
  <2>1. InSession
    BY <1>5 DEF LoaderStep, BeginBootControl, EraseSlotPage, EraseFails,
       EraseDone, BeginImageDone, WriteImageDataSaved, VerifyImage,
       MarkDoneBootControl, ResetAfterDone, InSession
  <2>2. CASE ResetCpu(FALSE)
    <3>1. StartCharged' /\ AppCharged'
      BY <1>2, <2>1, <2>2 DEF ResetCpu, StartCharged, AppCharged, AppPCs, Due,
         DecidingPCs
    <3> QED
      BY <1>1, <1>2, <2>1, <2>2, <3>1, HangStep
         DEF ResetCpu, TrialHangs, InitBootControl
  <2>3. CASE ~ResetCpu(FALSE) /\ ~VerifyImage
    BY <1>2, <1>4, <1>5, <2>1, <2>3 DEF LoaderStep, BeginBootControl,
       EraseSlotPage, EraseFails, EraseDone, BeginImageDone,
       WriteImageDataSaved, MarkDoneBootControl, ResetAfterDone,
       MarkFailed, OffPath
  <2>4. CASE VerifyImage
    <3>1. hangs' = 0 /\ pc' \in OffPath /\ UNCHANGED iwdg
      BY <1>2, <2>1, <2>4 DEF VerifyImage, MarkFailed, OffPath
    <3>2. StartCharged' /\ AppCharged' /\ pc' # "boot_timeout"
      BY <1>3, <3>1
         DEF StartCharged, AppCharged, OffPath, AppPCs, DecidingPCs
    <3> QED
      BY <1>1, <1>2, <3>1, <3>2, HangStep DEF Spared, TrialHangs
  <2> QED
    BY <1>5, <2>2, <2>3, <2>4
<1>6. CASE \/ ForceStay \/ EndOfFile \/ EmptySession
           \/ (SessionFails /\ UNCHANGED wr)
  <2>1. /\ pc' = "loader" /\ wr' = "none" /\ bc' = bc /\ UNCHANGED iwdg
        /\ want' # NoImage => InSession
    BY <1>6 DEF ForceStay, EndOfFile, EmptySession, SessionFails, InSession,
       session, IInv, NoFileOutsideSession, BootPCs, MarkFailed
  <2> QED
    BY <1>2, <1>4, <2>1 DEF InSession, OffPath
<1>7. CASE \/ (HeaderRefused \/ ProgramFails \/ SessionFails
               \/ FinalizeSession) /\ MarkFailed
  <2>1. /\ pc' = "loader" /\ want' = NoImage /\ st'.state = "failed"
        /\ wr' = "state"
    BY <1>7 DEF MarkFailed
  <2>2. bc' = bc /\ UNCHANGED iwdg
    BY <1>7 DEF HeaderRefused, ProgramFails, SessionFails, FinalizeSession
  <2> QED
    BY <1>2, <1>4, <2>1, <2>2 DEF InSession, OffPath
<1>8. CASE WriteImageData \/ (FinalizeSession /\ pc' = "verify")
  <2>1. InSession
    BY <1>8 DEF WriteImageData, FinalizeSession, InSession, IInv,
       NoFileOutsideSession
  <2> QED
    BY <1>2, <1>4, <1>8, <2>1 DEF WriteImageData, FinalizeSession, OffPath
<1>9. ASSUME NEW h \in Images, NEW d \in Images, BeginImage(h, d)
      PROVE  HangInv'
  <2>1. bc'.pending = SlotNone
    BY <1>9 DEF BeginImage, IInv, TypeOK, BootControls
  <2> QED
    BY <1>2, <1>4, <1>9, <2>1 DEF BeginImage, OffPath
<1> QED
  BY <1>5, <1>6, <1>7, <1>8, <1>9 DEF SessionStep, HeaderRefused,
     ProgramFails, SessionFails, FinalizeSession

LEMMA AppHang ==
    ASSUME IInv, Path, HangInv, ProgramRan,
           ConfirmRunningSlot \/ RequestBootMode \/ AppStep
    PROVE  HangInv'
<1> USE DEF At, GoTo, SaveThen
<1>1. /\ pc \in AppPCs /\ UNCHANGED flash
      /\ pc' \in AppPCs \cup {"boot_load"} /\ wr = "none"
  BY DEF ConfirmRunningSlot, RequestBootMode, SettleOnRunningSlot, AppStep,
     ConfirmState, ConfirmDone, RequestState, RequestReset, ResetCpu, AppPCs
<1>2. /\ hangs' \in {0, hangs} /\ hung' = hung /\ hangs \in 0..WdgResetLimit
      /\ UNCHANGED <<statePage, bootctl, slots>> /\ Loaded' = Loaded
  BY <1>1, HangsChange DEF HangInv, flash, Loaded
<1>3. /\ iwdg = FALSE /\ Loaded.wdg < WdgResetLimit
      /\ Covered(bootSlot, Loaded) /\ Startable(bootSlot)
      /\ bootSlot = Target(Loaded) /\ wrOk = TRUE
  BY <1>1 DEF HangInv, StartCharged, AppCharged, AppPCs, IInv, TypeOK, Path,
     SlotIsChosen, SavesDone
<1>4. pc' \in AppPCs /\ UNCHANGED iwdg => StartCharged'
  BY <1>3 DEF StartCharged, AppPCs, DecidingPCs
<1>5. pc' \in AppPCs => ~InSession' /\ pc' # "boot_timeout"
  BY DEF AppPCs, InSession
<1>6. ASSUME pc' \in AppPCs, UNCHANGED <<bootSlot, iwdg>>,
             TrialHangs(bc)', AppCharged',
             wr' = "state" => ~IsUpgradeActiveState(st'.state) \/ PageSpared,
             wr' = "bootctl" => ~IsUpgradeActive
      PROVE  HangInv'
  BY <1>2, <1>4, <1>5, <1>6, HangStep
<1>7. UNCHANGED bootSlot => Covered(bootSlot, Loaded)' /\ Startable(bootSlot)'
  BY <1>2, <1>3 DEF Covered, Startable
<1>8. CASE ConfirmRunningSlot \/ RequestBootMode
  <2>1. /\ bc' = SettleOn(Loaded, slots, bootSlot) /\ pc = "app"
        /\ pc' \in {"confirm_state", "request_state"}
        /\ wr' = IF bc' = bootctl THEN "none" ELSE "bootctl"
        /\ UNCHANGED <<iwdg, bootSlot>>
    BY <1>8 DEF ConfirmRunningSlot, RequestBootMode, SettleOnRunningSlot,
       Loaded
  <2>2. /\ bc'.pending = SlotNone /\ bc'.confirmed = bootSlot /\ bc'.wdg = 0
    BY <2>1 DEF SettleOn
  <2>3. wr' = "none" => /\ bootctl = bc' /\ bootctl # Unreadable
                        /\ Loaded = bootctl
    <3>1. Loaded \in BootControls
      BY LoadBootControlType DEF Loaded, IInv, TypeOK
    <3>2. bootSlot \in Slots
      BY <1>3, <3>1 DEF Target, BootControls
    <3>3. bc' \in BootControls
      BY <2>1, <3>1, <3>2, SettleOnType
    <3> QED
      BY <2>1, <3>3, UnreadableAssumption DEF Loaded, LoadBootControl
  <2>4. wr' = "none" => PageSpared' /\ bootctl'.confirmed = bootSlot'
    BY <1>2, <1>3, <2>1, <2>2, <2>3 DEF Covered, PageSpared
  <2>5. AppCharged'
    BY <1>2, <1>3, <1>7, <2>1, <2>2, <2>4 DEF AppCharged, AppPCs
  <2>6. ~IsUpgradeActive
    BY <2>1 DEF Path, CalmOnTheWay, Calm, IsUpgradeActive
  <2> QED
    BY <1>6, <2>1, <2>2, <2>5, <2>6 DEF TrialHangs, AppPCs
<1>9. CASE ConfirmState \/ ConfirmDone
  <2>1. /\ pc \in {"confirm_state", "confirm_done"}
        /\ pc' \in {"app", "confirm_done"} /\ wr' \in {"none", "state"}
        /\ bc' = bc \/ bc' = InitBootControl
        /\ st' = st /\ UNCHANGED <<iwdg, bootSlot>>
    BY <1>9 DEF ConfirmState, ConfirmDone
  <2>2. AppCharged'
    BY <1>2, <1>3, <1>7, <2>1 DEF AppCharged, AppPCs
  <2>3. ~IsUpgradeActiveState(st'.state)
    BY <2>1 DEF Path, CalmOnTheWay, InitStateImage, IsUpgradeActiveState
  <2>4. TrialHangs(bc)'
    BY <1>2, <2>1 DEF HangInv, HangsOnTrial, TrialHangs, InitBootControl
  <2> QED
    BY <1>6, <2>1, <2>2, <2>3, <2>4 DEF AppPCs
<1>10. CASE RequestState
  <2>1. /\ pc = "request_state" /\ pc' = "request_reset" /\ wr' = "state"
        /\ bc' = InitBootControl /\ UNCHANGED <<iwdg, bootSlot>>
    BY <1>3, <1>10 DEF RequestState
  <2>2. PageSpared /\ (hangs = 0 \/ bootctl.confirmed = bootSlot)
    BY <1>1, <2>1 DEF HangInv, AppCharged
  <2>3. Spared(bootSlot)'
    BY <1>2, <2>1, <2>2 DEF Spared, PageSpared
  <2>4. AppCharged'
    BY <1>2, <1>3, <1>7, <2>1, <2>3 DEF AppCharged, AppPCs
  <2> QED
    BY <1>6, <2>1, <2>2, <2>4 DEF TrialHangs, InitBootControl, AppPCs
<1>11. CASE RequestReset
  <2>1. pc = "request_reset" /\ ResetCpu(FALSE)
    BY <1>3, <1>11 DEF RequestReset
  <2>2. Spared(bootSlot)
    BY <2>1 DEF HangInv, AppCharged
  <2>3. Due(Loaded)' /\ Startable(Target(Loaded))'
    BY <1>2, <1>3, <2>1, <2>2
       DEF Due, Spared, ResetCpu, Target, Startable
  <2>4. StartCharged' /\ AppCharged'
    BY <2>1, <2>3 DEF ResetCpu, StartCharged, AppCharged, AppPCs, DecidingPCs
  <2> QED
    BY <1>2, <2>1, <2>4, HangStep
       DEF ResetCpu, TrialHangs, InitBootControl, InSession
<1> QED
  BY <1>8, <1>9, <1>10, <1>11 DEF AppStep

LEMMA WatchdogHang ==
    ASSUME IInv, Path, HangInv, WatchdogReset, WatchdogFired
    PROVE  HangInv'
<1>1. /\ pc = "app" /\ wr = "none" /\ ResetCpu(TRUE)
      /\ UNCHANGED <<statePage, bootctl, slots>> /\ Loaded' = Loaded
  BY DEF WatchdogReset, At, flash, Loaded
<1>2. /\ Loaded.wdg < WdgResetLimit /\ Covered(bootSlot, Loaded)
      /\ Startable(bootSlot) /\ bootSlot = Target(Loaded) /\ Level(Loaded)
      /\ ~IsUpgradeActive /\ hangs \in 0..WdgResetLimit
  BY <1>1 DEF HangInv, AppCharged, AppPCs, Path, SlotIsChosen, CalmOnTheWay,
     Calm, IsUpgradeActive
<1>3. Loaded.wdg \in Nat
  BY LoadBootControlType DEF Loaded, IInv, TypeOK, BootControls
<1>4. hung' = bootSlot /\ hangs' \in 1..(Loaded.wdg + 1)
  BY <1>2, <1>3 DEF WatchdogFired, Bump, Covered
<1>5. StartCharged'
  <2>1. Due(Loaded)'
    BY <1>1, <1>2, <1>4 DEF Due, ResetCpu, Target, Level
  <2>2. Startable(Target(Loaded))'
    BY <1>1, <1>2 DEF Startable, Target
  <2> QED
    BY <1>1, <1>2, <2>1, <2>2 DEF ResetCpu, StartCharged, DecidingPCs
<1>6. HangsOnTrial'
  BY <1>1, <1>2, <1>4 DEF HangsOnTrial, TrialHangs, Target, ResetCpu,
     InitBootControl
<1>7. UpgradeSpares' /\ AppCharged'
  BY <1>1, <1>2 DEF UpgradeSpares, AppCharged, AppPCs, ResetCpu, InSession,
     IsUpgradeActive
<1>8. hangs' \in 0..WdgResetLimit
  BY <1>2, <1>3, <1>4
<1> QED
  BY <1>5, <1>6, <1>7, <1>8 DEF HangInv

LEMMA PowerHang ==
    ASSUME HangInv, PowerLoss, PowerLost
    PROVE  HangInv'
<1>a. PICK flag \in {FALSE, iwdg} : ResetCpu(flag)
  BY DEF PowerLoss
<1>b. iwdg' => iwdg
  BY <1>a, Zenon DEF ResetCpu
<1>1. /\ hangs' = 0 /\ pc' = "boot_load"
      /\ wr' = "none" /\ bc' = InitBootControl
      /\ bootctl' \in {bootctl, Unreadable}
  BY <1>a DEF PowerLoss, PowerLost, ResetCpu, Interrupted
<1>2. Loaded' = Loaded \/ Loaded'.wdg = 0
  BY <1>1 DEF Loaded, LoadBootControl, InitBootControl
<1>3. StartCharged'
  <2>1. iwdg' => Loaded'.wdg < WdgResetLimit
    BY <1>b, <1>1, <1>2 DEF HangInv, StartCharged
  <2>2. Due(Loaded)'
    BY <1>1 DEF Due
  <2> QED
    BY <1>1, <2>1, <2>2 DEF StartCharged, DecidingPCs
<1>4. HangsOnTrial' /\ UpgradeSpares' /\ AppCharged'
  BY <1>1 DEF HangsOnTrial, TrialHangs, InitBootControl, UpgradeSpares,
     PageSpared, Spared, InSession, AppCharged, AppPCs
<1> QED
  BY <1>1, <1>3, <1>4 DEF HangInv

LEMMA NextHang ==
    ASSUME "flash" \notin Faults, IInv, Standing, Path, HangInv, [HNext]_hvars
    PROVE  HangInv'
<1>1. CASE Program /\ ProgramRan
  BY <1>1, FlashWriteHang, BootStepHang, SessionHang, AppHang
     DEF Program, FlashWriteFails
<1>2. CASE WatchdogReset /\ WatchdogFired
  BY <1>2, WatchdogHang
<1>3. CASE PowerLoss /\ PowerLost
  BY <1>3, PowerHang
<1>4. CASE UNCHANGED hvars
  BY <1>4 DEF hvars, vars, history, HangInv, HangsOnTrial, TrialHangs,
     UpgradeSpares, PageSpared, Spared, InSession, StartCharged, Due, Covered,
     Charged, AppCharged, AppPCs, DecidingPCs, Loaded, IsUpgradeActive,
     Target, Level, Startable
<1> QED
  BY <1>1, <1>2, <1>3, <1>4 DEF HNext

\* Unless an erase or a program call fails, no slot hangs more than
\* UPGRADE_WDG_RESET_LIMIT times in a row, whichever images are installed:
\* BootMain_HandleWatchdogRecovery takes the other slot, or stays.
THEOREM HangsAreBounded ==
    ASSUME "flash" \notin Faults
    PROVE  HSpec => []HangBound
<1>1. IInv /\ Standing /\ Path /\ HangInv /\ [HNext]_hvars => HangInv'
  BY NextHang
<1>2. HangInv => HangBound
  BY DEF HangInv, HangBound
<1> QED
  BY <1>1, <1>2, InitHang, Observed, Invariance, FallbackStands, PathIsKept,
     PTL DEF HSpec

(***************************************************************************)
(* WritesSpareHome.  The boot control that flash loads as names the slot   *)
(* the application last settled on, until it settles on another.           *)
(***************************************************************************)
HomeIsConfirmed == home \in {SlotNone, Loaded.confirmed}

\* No other step changes the slot that flash names as confirmed.
LEMMA ConfirmedChanges ==
    ASSUME PowerFaultsOnly, IInv, Path, Relied, [Next]_vars, ~Settled
    PROVE  Loaded'.confirmed = Loaded.confirmed
<1>1. CASE bootctl' = bootctl
  BY <1>1 DEF Loaded
<1>2. CASE bootctl' # bootctl
  <2>1. FlashWrite /\ wr = "bootctl"
    BY <1>2 DEF Next, vars, Program, FlashWrite, FlashWriteFails, PowerLoss,
       Interrupted, WatchdogReset, ForceStay, BootStep, BootLoad,
       BootWatchdogCount, BootUpgradeActive, BootUpgradeNotActive, BootTimeout,
       BootRecovery, MarkUpgradeFailed, PendingRejected, PendingTrial,
       PendingTrialSaved, BootBestSlot, Jump, LoaderStep, BeginBootControl,
       EraseSlotPage, EraseFails, EraseDone, BeginImageDone,
       WriteImageDataSaved, VerifyImage, MarkDoneBootControl, ResetAfterDone,
       SessionStep, BeginImage, HeaderRefused, WriteImageData, ProgramFails,
       EndOfFile, SessionFails, EmptySession, FinalizeSession,
       ConfirmRunningSlot, RequestBootMode, SettleOnRunningSlot, AppStep,
       ConfirmState, ConfirmDone, RequestState, RequestReset, flash,
       PowerFaultsOnly
  <2>2. bootctl' = bc /\ wr' = "none" /\ bc # Unreadable
    BY <2>1, UnreadableAssumption DEF FlashWrite, IInv, TypeOK
  <2>3. pc \notin SettlePCs
    BY <2>1, <2>2 DEF Settled, SettlePCs, Path, PageIsCopy
  <2>4. bc.confirmed = Loaded.confirmed
    BY <2>1, <2>3 DEF Path, PageIsCopy, Relied, SameConfirmed, BlankPCs,
       IInv, TypeOK
  <2> QED
    BY <2>2, <2>4 DEF Loaded, LoadBootControl
<1> QED
  BY <1>1, <1>2

LEMMA NextHome ==
    ASSUME PowerFaultsOnly, IInv, Path, Relied, HomeIsConfirmed,
           [HNext]_hvars
    PROVE  HomeIsConfirmed'
<1>1. CASE HNext /\ ~Settled
  <2>1. home' = home
    BY <1>1 DEF HNext, ProgramRan, WatchdogFired, PowerLost
  <2>2. Loaded'.confirmed = Loaded.confirmed
    BY <1>1, ConfirmedChanges DEF HNext, Next
  <2> QED
    BY <2>1, <2>2 DEF HomeIsConfirmed
<1>2. CASE Program /\ ProgramRan /\ Settled
  <2>1. home' = bootSlot
    BY <1>2 DEF ProgramRan
  <2>2. Loaded'.confirmed = bootSlot
    BY <1>2 DEF Settled, Loaded, LoadBootControl
  <2> QED
    BY <2>1, <2>2 DEF HomeIsConfirmed
<1>3. CASE PowerLoss /\ PowerLost
  <2>1. home' = home /\ bootctl' = bootctl
    BY <1>3 DEF PowerLoss, PowerLost, Interrupted, PowerFaultsOnly
  <2> QED
    BY <2>1 DEF HomeIsConfirmed, Loaded
<1>4. ASSUME WatchdogReset PROVE ~Settled
  BY <1>4 DEF WatchdogReset, At, Settled
<1>5. CASE UNCHANGED hvars
  BY <1>5 DEF hvars, history, vars, HomeIsConfirmed, Loaded
<1> QED
  BY <1>1, <1>2, <1>3, <1>4, <1>5 DEF HNext

LEMMA StepWritesSpareHome ==
    IInv /\ HomeIsConfirmed /\ [HNext]_hvars =>
        [\A s \in Slots : slots'[s] # slots[s] => s # home]_hvars
<1> SUFFICES ASSUME IInv, HomeIsConfirmed, HNext, NEW s \in Slots,
                    slots'[s] # slots[s]
             PROVE  s # home
  BY DEF hvars
<1>1. bootctl # Unreadable /\ bootctl.confirmed # s
  BY StepObserved, StepWritesSpare DEF vars
<1> QED
  BY <1>1 DEF HomeIsConfirmed, Loaded, LoadBootControl

\* Wherever the power is lost, the loader writes only to the slot that the
\* application has not last settled on (BootFlash_BeginImage).
THEOREM SparesHome ==
    ASSUME PowerFaultsOnly
    PROVE  HSpec => WritesSpareHome
<1>1. HInit => HomeIsConfirmed
  BY DEF HInit, HomeIsConfirmed
<1>2. IInv /\ Path /\ Relied /\ HomeIsConfirmed /\ [HNext]_hvars =>
          HomeIsConfirmed'
  BY NextHome
<1> QED
  BY <1>1, <1>2, StepWritesSpareHome, Observed, ReliedIsKept,
     PTL DEF HSpec, WritesSpareHome
=============================================================================
