-------------------------------- MODULE ABBoot --------------------------------
(***************************************************************************)
(* The A/B upgrade of the STM32 Mill controller: the start-up decision and *)
(* the YMODEM download of the bootloader (boot_main.c, boot_flash.c,       *)
(* boot_verify.c) and the two upgrade calls of the application             *)
(* (Upgrade_RequestBootMode, Upgrade_ConfirmRunningSlot), over flash that  *)
(* may be cut off in the middle of any save.                               *)
(*                                                                         *)
(* pc names the next step of the one program the processor runs.  A page   *)
(* save is two steps: the program asks for it (wr names the page, whose    *)
(* new contents are the image kept in RAM), then the flash finishes it.    *)
(* Between the two, power loss leaves the old page or an unreadable one.   *)
(***************************************************************************)
EXTENDS UpgradeStore

CONSTANTS
    Healthy,   \* images that run well enough to confirm themselves
    Hanging,   \* images that sooner or later stop kicking the watchdog
    Faults     \* the faults of this instance, a subset of FaultKinds

FaultKinds == {"tear_state",    \* power loss tears the state page
               "tear_bootctl",  \* power loss tears the boot control page
               "flash",         \* an erase or a program call fails
               "hang"}          \* a healthy application hangs (IWDG)

\* The images in neither set are mute: they run and kick the watchdog, but never
\* get their healthy samples, because no sensor answers.
ASSUME HealthyAssumption == Healthy \subseteq Images
ASSUME HangingAssumption == Hanging \subseteq Images \ Healthy
ASSUME FaultsAssumption == Faults \subseteq FaultKinds

VARIABLES
    \* flash
    statePage, bootctl, slots,
    \* the processor: next step, page being saved, result of the last save
    pc, wr, wrOk,
    iwdg,        \* RCC_FLAG_IWDGRST: the last reset came from the watchdog
    \* BootloaderRuntime
    st,          \* .state
    bc,          \* .boot_control
    bootSlot,    \* .boot_slot; the slot in VTOR once the application runs
    xfer,        \* .transfer_slot
    lastErr,     \* .last_error # BOOT_ERR_NONE
    \* the YMODEM session
    phase,       \* what the receiver expects: "idle", "file" or "eot"
    want,        \* the image the header announced (.state.image_*)
    feed,        \* the image whose bytes the sender streams
    erased,      \* pages of the slot erased by Upgrade_EraseSlotRegion
    written,     \* pages programmed (.state.written_bytes)
    confirmed    \* App_MaintThreadEntry: confirmed

flash == <<statePage, bootctl, slots>>
session == <<xfer, phase, want, feed, erased, written>>
vars == <<statePage, bootctl, slots, pc, wr, wrOk, iwdg, st, bc, bootSlot,
          xfer, lastErr, phase, want, feed, erased, written, confirmed>>

PCs == {"boot_load", "boot_watchdog", "boot_active", "boot_timeout",
        "boot_recovery", "boot_select", "trial", "mark_failed", "jump",
        "loader", "begin_bootctl", "begin_erase", "begun", "wrote",
        "verify", "done_bootctl", "done_reset",
        "app", "confirm_state", "confirm_done",
        "request_state", "request_reset"}

\* Every variable has its type: counters saturate and page numbers stay in the
\* slot (the uint16_t counters and the bounds checks of Upgrade.c).
TypeOK ==
    /\ statePage \in StateImages \cup {Unreadable}
    /\ bootctl \in BootControls \cup {Unreadable}
    /\ slots \in Contents
    /\ pc \in PCs
    /\ wr \in {"none", "state", "bootctl"}
    /\ wrOk \in BOOLEAN
    /\ iwdg \in BOOLEAN
    /\ st \in StateImages
    /\ bc \in BootControls
    /\ bootSlot \in Slots \cup {SlotNone}
    /\ xfer \in Slots \cup {SlotNone}
    /\ lastErr \in BOOLEAN
    /\ phase \in {"idle", "file", "eot"}
    /\ want \in Images \cup {NoImage}
    /\ feed \in Images \cup {NoImage}
    /\ erased \in 0..MaxPages
    /\ written \in 0..MaxPages
    /\ confirmed \in BOOLEAN

(***************************************************************************)
(* The factory state: an application in slot A, everything else erased.    *)
(***************************************************************************)
RamCleared ==
    /\ st = InitStateImage /\ bc = InitBootControl
    /\ bootSlot = SlotNone /\ xfer = SlotNone /\ lastErr = FALSE
    /\ phase = "idle" /\ want = NoImage /\ feed = NoImage
    /\ erased = 0 /\ written = 0 /\ confirmed = FALSE

Init ==
    /\ statePage = Unreadable
    /\ bootctl = Unreadable
    /\ \E i \in {j \in Images : LinkSlot[j] = SlotA} :
          slots = [s \in Slots |-> [p \in Pages |->
                     IF s = SlotA /\ p <= Size[i] THEN i ELSE NoImage]]
    /\ pc = "boot_load" /\ wr = "none" /\ wrOk = TRUE /\ iwdg = FALSE
    /\ RamCleared

(***************************************************************************)
(* Resets and page saves.                                                  *)
(***************************************************************************)
\* Every reset restarts the bootloader with a cleared BootloaderRuntime.
ResetCpu(byWatchdog) ==
    /\ pc' = "boot_load" /\ wr' = "none" /\ wrOk' = TRUE
    /\ iwdg' = byWatchdog
    /\ st' = InitStateImage /\ bc' = InitBootControl
    /\ bootSlot' = SlotNone /\ xfer' = SlotNone /\ lastErr' = FALSE
    /\ phase' = "idle" /\ want' = NoImage /\ feed' = NoImage
    /\ erased' = 0 /\ written' = 0 /\ confirmed' = FALSE

\* At program point p, with no save outstanding.
At(p) == pc = p /\ wr = "none"

\* Ask for a save of page (or none), go on at p when it has ended.
SaveThen(page, p) == wr' = page /\ pc' = p /\ wrOk' = TRUE
GoTo(p) == SaveThen("none", p)

\* Upgrade_WriteStateImage, Upgrade_WriteBootControl: erase, program, compare.
FlashWrite ==
    /\ wr # "none"
    /\ statePage' = IF wr = "state" THEN st ELSE statePage
    /\ bootctl' = IF wr = "bootctl" THEN bc ELSE bootctl
    /\ wr' = "none" /\ wrOk' = TRUE
    /\ UNCHANGED <<slots, pc, iwdg, st, bc, bootSlot, lastErr, session,
                   confirmed>>

\* The page a save leaves behind when it does not complete.
Interrupted(mayTear) ==
    /\ statePage' \in {statePage} \cup
          (IF wr = "state" /\ mayTear["state"] THEN {Unreadable} ELSE {})
    /\ bootctl' \in {bootctl} \cup
          (IF wr = "bootctl" /\ mayTear["bootctl"] THEN {Unreadable} ELSE {})

\* HAL_FLASHEx_Erase or HAL_FLASH_Program fails, or the page reads back wrong.
FlashWriteFails ==
    /\ "flash" \in Faults /\ wr # "none"
    /\ Interrupted([page \in {"state", "bootctl"} |-> TRUE])
    /\ wr' = "none" /\ wrOk' = FALSE
    /\ UNCHANGED <<slots, pc, iwdg, st, bc, bootSlot, lastErr, session,
                   confirmed>>

\* Power loss, or the reset button, which leaves the reset flag as it is.
PowerLoss ==
    /\ Interrupted([page \in {"state", "bootctl"} |->
                      IF page = "state" THEN "tear_state" \in Faults
                                        ELSE "tear_bootctl" \in Faults])
    /\ UNCHANGED slots
    /\ \E flag \in {FALSE, iwdg} : ResetCpu(flag)

(***************************************************************************)
(* BootMain_ShouldStayInLoader.                                            *)
(***************************************************************************)
\* Load both pages; repair the boot control, saving it if the repair changed
\* it (the defaults of an unreadable page alone are not saved).
BootLoad ==
    /\ At("boot_load")
    /\ st' = LoadState(statePage)
    /\ LET loaded == LoadBootControl(bootctl)
           c == NormalizeBootControl(loaded, slots)
       IN /\ bc' = c
          /\ SaveThen(IF c = loaded THEN "none" ELSE "bootctl",
                      "boot_watchdog")
    /\ UNCHANGED <<flash, iwdg, bootSlot, lastErr, session, confirmed>>

\* Mutant: the count is kept in RAM only.
BootWatchdogCountUnsaved ==
    /\ At("boot_watchdog")
    /\ bc' = [bc EXCEPT !.wdg = IF iwdg THEN Saturate(@) ELSE 0]
    /\ iwdg' = FALSE
    /\ GoTo("boot_active")
    /\ UNCHANGED <<flash, st, bootSlot, lastErr, session, confirmed>>

\* BootMain_UpdateWatchdogResetCounter
BootWatchdogCount ==
    /\ At("boot_watchdog")
    /\ bc' = [bc EXCEPT !.wdg = IF iwdg THEN Saturate(@) ELSE 0]
    /\ iwdg' = FALSE
    /\ SaveThen(IF bc'.wdg = bc.wdg THEN "none" ELSE "bootctl", "boot_active")
    /\ UNCHANGED <<flash, st, bootSlot, lastErr, session, confirmed>>

\* Mutant: the start is not counted on flash.
BootUpgradeActiveUnsaved ==
    /\ At("boot_active") /\ IsUpgradeActiveState(st.state)
    /\ st' = [st EXCEPT !.boots = Saturate(@)]
    /\ GoTo("boot_timeout")
    /\ UNCHANGED <<flash, iwdg, bc, bootSlot, lastErr, session, confirmed>>

\* An upgrade is in progress: count this start.
BootUpgradeActive ==
    /\ At("boot_active") /\ IsUpgradeActiveState(st.state)
    /\ st' = [st EXCEPT !.boots = Saturate(@)]
    /\ SaveThen(IF st'.boots = st.boots THEN "none" ELSE "state",
                "boot_timeout")
    /\ UNCHANGED <<flash, iwdg, bc, bootSlot, lastErr, session, confirmed>>

\* Mutant: an upgrade in progress is not looked for.
BootUpgradeIgnored ==
    /\ At("boot_active")
    /\ GoTo("boot_recovery")
    /\ UNCHANGED <<flash, iwdg, st, bc, bootSlot, lastErr, session, confirmed>>

BootUpgradeNotActive ==
    /\ At("boot_active") /\ ~IsUpgradeActiveState(st.state)
    /\ GoTo("boot_recovery")
    /\ UNCHANGED <<flash, iwdg, st, bc, bootSlot, lastErr, session, confirmed>>

\* Mutants: the rollback is not saved; the pending slot stays pending.
RollbackToSlotUnsaved(s) ==
    /\ bc' = [bc EXCEPT !.active = s, !.confirmed = s, !.pending = SlotNone,
                        !.attempts = 0, !.wdg = 0]
    /\ bootSlot' = s
    /\ GoTo("mark_failed")
    /\ UNCHANGED st

RollbackToSlotKeepsPending(s) ==
    /\ bc' = [bc EXCEPT !.active = s, !.confirmed = s,
                        !.attempts = 0, !.wdg = 0]
    /\ bootSlot' = s
    /\ SaveThen("bootctl", "mark_failed")
    /\ UNCHANGED st

\* BootMain_RollbackToSlot: the boot control here, the state page at
\* "mark_failed".
RollbackToSlot(s) ==
    /\ bc' = [bc EXCEPT !.active = s, !.confirmed = s, !.pending = SlotNone,
                        !.attempts = 0, !.wdg = 0]
    /\ bootSlot' = s
    /\ SaveThen("bootctl", "mark_failed")
    /\ UNCHANGED st

\* The upgrade has been in progress for too many starts: give it up.
BootTimeout ==
    /\ At("boot_timeout")
    /\ LET best == FindBestSlot(bc, slots, SlotNone)
       IN \/ /\ best # SlotNone /\ st.boots >= ActiveStateBootLimit
             /\ RollbackToSlot(best)
          \/ /\ best = SlotNone \/ st.boots < ActiveStateBootLimit
             /\ GoTo("loader")
             /\ UNCHANGED <<st, bc, bootSlot>>
    /\ UNCHANGED <<flash, iwdg, lastErr, session, confirmed>>

\* BootMain_HandleWatchdogRecovery
BootRecovery ==
    /\ At("boot_recovery")
    /\ LET suspect == IF bc.pending # SlotNone THEN bc.pending ELSE bc.active
           fallback == FindBestSlot(bc, slots, suspect)
       IN \/ /\ bc.wdg < WdgResetLimit
             /\ GoTo("boot_select")
             /\ UNCHANGED <<st, bc, bootSlot>>
          \/ /\ bc.wdg >= WdgResetLimit /\ fallback # SlotNone
             /\ RollbackToSlot(fallback)
          \/ /\ bc.wdg >= WdgResetLimit /\ fallback = SlotNone
             /\ bc' = [bc EXCEPT !.pending = SlotNone, !.attempts = 0,
                                 !.wdg = 0]
             /\ SaveThen("bootctl", "mark_failed")
             /\ UNCHANGED <<st, bootSlot>>
    /\ UNCHANGED <<flash, iwdg, lastErr, session, confirmed>>

\* BootMain_MarkUpgradeFailed, then jump if the caller chose a slot.
MarkUpgradeFailed ==
    /\ At("mark_failed")
    /\ st' = [state |-> "failed", boots |-> 0]
    /\ SaveThen("state", IF bootSlot = SlotNone THEN "loader" ELSE "jump")
    /\ UNCHANGED <<flash, iwdg, bc, bootSlot, lastErr, session, confirmed>>

\* The key is held, or 'B' arrives within the force-stay window.
ForceStay ==
    /\ At("boot_select")
    /\ GoTo("loader")
    /\ UNCHANGED <<flash, iwdg, st, bc, bootSlot, lastErr, session, confirmed>>

\* BootMain_HandlePendingSlot: the slot fails its check or ran out of trials.
PendingRejected ==
    /\ At("boot_select") /\ bc.pending # SlotNone
    /\ \/ ~ValidateDigestsAndVector(slots, bc.pending, bc.rec[bc.pending].img)
       \/ bc.attempts >= PendingBootLimit
    /\ LET fallback == FindBestSlot(bc, slots, bc.pending)
       IN \/ /\ fallback # SlotNone
             /\ RollbackToSlot(fallback)
          \/ /\ fallback = SlotNone
             /\ GoTo("mark_failed")
             /\ UNCHANGED <<st, bc, bootSlot>>
    /\ UNCHANGED <<flash, iwdg, lastErr, session, confirmed>>

\* Mutants: the trial is not counted on flash; it commits to the slot.
PendingTrialUncounted ==
    /\ At("boot_select") /\ bc.pending # SlotNone
    /\ ValidateDigestsAndVector(slots, bc.pending, bc.rec[bc.pending].img)
    /\ bc.attempts < PendingBootLimit
    /\ bc' = [bc EXCEPT !.active = bc.pending, !.attempts = Saturate(@)]
    /\ GoTo("trial")
    /\ UNCHANGED <<flash, iwdg, st, bootSlot, lastErr, session, confirmed>>

PendingTrialCommits ==
    /\ At("boot_select") /\ bc.pending # SlotNone
    /\ ValidateDigestsAndVector(slots, bc.pending, bc.rec[bc.pending].img)
    /\ bc.attempts < PendingBootLimit
    /\ bc' = [bc EXCEPT !.active = bc.pending, !.confirmed = bc.pending,
                        !.attempts = Saturate(@)]
    /\ SaveThen("bootctl", "trial")
    /\ UNCHANGED <<flash, iwdg, st, bootSlot, lastErr, session, confirmed>>

\* BootMain_HandlePendingSlot: count the trial before it begins.
PendingTrial ==
    /\ At("boot_select") /\ bc.pending # SlotNone
    /\ ValidateDigestsAndVector(slots, bc.pending, bc.rec[bc.pending].img)
    /\ bc.attempts < PendingBootLimit
    /\ bc' = [bc EXCEPT !.active = bc.pending, !.attempts = Saturate(@)]
    /\ SaveThen("bootctl", "trial")
    /\ UNCHANGED <<flash, iwdg, st, bootSlot, lastErr, session, confirmed>>

\* The trial is not started when it could not be counted.
PendingTrialSaved ==
    /\ At("trial")
    /\ bootSlot' = IF wrOk THEN bc.pending ELSE bootSlot
    /\ GoTo(IF wrOk THEN "jump" ELSE "loader")
    /\ UNCHANGED <<flash, iwdg, st, bc, lastErr, session, confirmed>>

\* Nothing pending: boot the best slot, or stay when there is none.
BootBestSlot ==
    /\ At("boot_select") /\ bc.pending = SlotNone
    /\ LET best == FindBestSlot(bc, slots, SlotNone)
       IN \/ /\ best = SlotNone
             /\ GoTo("loader")
             /\ UNCHANGED <<bc, bootSlot>>
          \/ /\ best # SlotNone
             /\ bootSlot' = best
             /\ IF bc.active # best \/ bc.confirmed # best
                THEN /\ bc' = [bc EXCEPT !.active = best, !.confirmed = best,
                                         !.attempts = 0]
                     /\ SaveThen("bootctl", "jump")
                ELSE /\ UNCHANGED bc
                     /\ GoTo("jump")
    /\ UNCHANGED <<flash, iwdg, st, lastErr, session, confirmed>>

\* Upgrade_JumpToSlot: the RAM of the bootloader is lost, VTOR is bootSlot.
Jump ==
    /\ At("jump")
    /\ GoTo("app")
    /\ st' = InitStateImage /\ bc' = InitBootControl
    /\ UNCHANGED <<flash, iwdg, bootSlot, lastErr, session, confirmed>>

(***************************************************************************)
(* The download: BootMain_Run and the callbacks of Ymodem_Receive.         *)
(***************************************************************************)
\* BootFlash_MarkFailed, the session being over.
MarkFailed ==
    /\ st' = [state |-> "failed", boots |-> 0]
    /\ lastErr' = TRUE
    /\ phase' = "idle" /\ want' = NoImage /\ feed' = NoImage
    /\ erased' = 0 /\ written' = 0
    /\ SaveThen("state", "loader")

\* Mutant: a slot on trial stays on trial during the next download.
BeginImageKeepsPending(h, d) ==
    /\ At("loader") /\ phase \in {"idle", "eot"}
    /\ xfer' = SelectDownloadSlot(bc)
    /\ st' = [state |-> "erasing", boots |-> 0]
    /\ bc' = [bc EXCEPT !.attempts = 0, !.wdg = 0]
    /\ want' = h /\ feed' = d /\ erased' = 0 /\ written' = 0
    /\ SaveThen("state", "begin_bootctl")
    /\ UNCHANGED <<flash, iwdg, bootSlot, lastErr, phase, confirmed>>

\* BootFlash_BeginImage, up to its first save.  The header announces image h,
\* the sender will stream image d: the two agree unless the tool is confused.
BeginImage(h, d) ==
    /\ At("loader") /\ phase \in {"idle", "eot"}
    /\ xfer' = SelectDownloadSlot(bc)
    /\ st' = [state |-> "erasing", boots |-> 0]
    /\ bc' = [bc EXCEPT !.pending = SlotNone, !.attempts = 0, !.wdg = 0,
                        !.rec[xfer'] = ClearedRecord]
    /\ want' = h /\ feed' = d /\ erased' = 0 /\ written' = 0
    /\ SaveThen("state", "begin_bootctl")
    /\ UNCHANGED <<flash, iwdg, bootSlot, lastErr, phase, confirmed>>

\* BootFlash_BeginImage refuses a file that does not fit in a slot.
HeaderRefused ==
    /\ At("loader") /\ phase \in {"idle", "eot"}
    /\ MarkFailed
    /\ UNCHANGED <<flash, iwdg, bc, bootSlot, xfer, confirmed>>

\* Mutant: the slot is erased before the boot control page is saved.
BeginBootControlUnsaved ==
    /\ At("begin_bootctl") /\ wrOk
    /\ GoTo("begin_erase")
    /\ UNCHANGED <<st, lastErr, phase, want, feed, erased, written>>
    /\ UNCHANGED <<flash, iwdg, bc, bootSlot, xfer, confirmed>>

BeginBootControl ==
    /\ At("begin_bootctl")
    /\ \/ /\ wrOk
          /\ SaveThen("bootctl", "begin_erase")
          /\ UNCHANGED <<st, lastErr, phase, want, feed, erased, written>>
       \/ /\ ~wrOk
          /\ MarkFailed
    /\ UNCHANGED <<flash, iwdg, bc, bootSlot, xfer, confirmed>>

\* Upgrade_EraseSlotRegion: the pages the new image needs, first page first.
EraseSlotPage ==
    /\ At("begin_erase") /\ wrOk /\ erased < Size[want]
    /\ slots' = [slots EXCEPT ![xfer][erased + 1] = NoImage]
    /\ erased' = erased + 1
    /\ GoTo("begin_erase")
    /\ UNCHANGED <<statePage, bootctl, iwdg, st, bc, bootSlot, xfer, lastErr,
                   phase, want, feed, written, confirmed>>

EraseFails ==
    /\ At("begin_erase")
    /\ \/ ~wrOk
       \/ "flash" \in Faults /\ erased < Size[want]
    /\ MarkFailed
    /\ UNCHANGED <<flash, iwdg, bc, bootSlot, xfer, confirmed>>

EraseDone ==
    /\ At("begin_erase") /\ wrOk /\ erased = Size[want]
    /\ st' = [state |-> "programming", boots |-> 0]
    /\ SaveThen("state", "begun")
    /\ UNCHANGED <<flash, iwdg, bc, bootSlot, lastErr, session, confirmed>>

BeginImageDone ==
    /\ At("begun")
    /\ \/ /\ wrOk
          /\ lastErr' = FALSE /\ phase' = "file"
          /\ GoTo("loader")
          /\ UNCHANGED <<st, want, feed, erased, written>>
       \/ /\ ~wrOk
          /\ MarkFailed
    /\ UNCHANGED <<flash, iwdg, bc, bootSlot, xfer, confirmed>>

\* BootFlash_WriteImageData: the next page of the stream.
WriteImageData ==
    /\ At("loader") /\ phase = "file" /\ st.state = "programming"
    /\ written < Size[want] /\ written < Size[feed]
    /\ slots' = [slots EXCEPT ![xfer][written + 1] = feed]
    /\ written' = written + 1
    /\ st' = [st EXCEPT !.boots = 0]
    /\ SaveThen("state", "wrote")
    /\ UNCHANGED <<statePage, bootctl, iwdg, bc, bootSlot, xfer, lastErr,
                   phase, want, feed, erased, confirmed>>

\* Upgrade_ProgramSlotBytes fails.
ProgramFails ==
    /\ At("loader") /\ phase = "file" /\ "flash" \in Faults
    /\ written < Size[want] /\ written < Size[feed]
    /\ MarkFailed
    /\ UNCHANGED <<flash, iwdg, bc, bootSlot, xfer, confirmed>>

WriteImageDataSaved ==
    /\ At("wrote")
    /\ \/ /\ wrOk
          /\ lastErr' = FALSE
          /\ GoTo("loader")
          /\ UNCHANGED <<st, phase, want, feed, erased, written>>
       \/ /\ ~wrOk
          /\ MarkFailed
    /\ UNCHANGED <<flash, iwdg, bc, bootSlot, xfer, confirmed>>

\* EOT is acknowledged wherever it arrives; packet 0 is expected next.
EndOfFile ==
    /\ At("loader") /\ phase # "eot"
    /\ phase' = "eot"
    /\ UNCHANGED <<flash, pc, wr, wrOk, iwdg, st, bc, bootSlot, xfer, lastErr,
                   want, feed, erased, written, confirmed>>

\* The session is aborted, or runs into too many errors or too many bytes.
SessionFails ==
    /\ At("loader")
    /\ IF lastErr
       THEN /\ phase' = "idle" /\ want' = NoImage /\ feed' = NoImage
            /\ erased' = 0 /\ written' = 0
            /\ UNCHANGED <<st, lastErr, pc, wr, wrOk>>
       ELSE MarkFailed
    /\ UNCHANGED <<flash, iwdg, bc, bootSlot, xfer, confirmed>>

\* The closing empty header of a session that brought no file.
EmptySession ==
    /\ At("loader") /\ phase \in {"idle", "eot"} /\ want = NoImage
    /\ lastErr' = FALSE /\ phase' = "idle"
    /\ UNCHANGED <<flash, pc, wr, wrOk, iwdg, st, bc, bootSlot, xfer, want,
                   feed, erased, written, confirmed>>

\* The closing empty header after a file: BootMain_FinalizeSession.
FinalizeSession ==
    /\ At("loader") /\ phase = "eot" /\ want # NoImage
    /\ \/ /\ st.state = "programming" /\ written = Size[want]
          /\ st' = [state |-> "verifying", boots |-> 0]
          /\ SaveThen("state", "verify")
          /\ UNCHANGED <<lastErr, phase, want, feed, erased, written>>
       \/ /\ ~(st.state = "programming" /\ written = Size[want])
          /\ MarkFailed
    /\ UNCHANGED <<flash, iwdg, bc, bootSlot, xfer, confirmed>>

\* The digests and the vector of what was programmed, then BootFlash_MarkDone
\* up to its first save.
VerifyImage ==
    /\ At("verify")
    /\ \/ /\ wrOk /\ ValidateDigestsAndVector(slots, xfer, want)
          /\ st' = [state |-> "done", boots |-> 0]
          /\ bc' = [bc EXCEPT !.pending = xfer, !.attempts = 0,
                              !.rec[xfer] = [img |-> want, present |-> TRUE]]
          /\ lastErr' = FALSE
          /\ SaveThen("state", "done_bootctl")
          /\ UNCHANGED <<phase, want, feed, erased, written>>
       \/ /\ ~(wrOk /\ ValidateDigestsAndVector(slots, xfer, want))
          /\ MarkFailed
          /\ UNCHANGED bc
    /\ UNCHANGED <<flash, iwdg, bootSlot, xfer, confirmed>>

MarkDoneBootControl ==
    /\ At("done_bootctl")
    /\ \/ /\ wrOk
          /\ SaveThen("bootctl", "done_reset")
          /\ UNCHANGED <<st, lastErr, phase, want, feed, erased, written>>
       \/ /\ ~wrOk
          /\ MarkFailed
    /\ UNCHANGED <<flash, iwdg, bc, bootSlot, xfer, confirmed>>

ResetAfterDone ==
    /\ At("done_reset")
    /\ \/ /\ wrOk
          /\ ResetCpu(FALSE)
       \/ /\ ~wrOk
          /\ MarkFailed
          /\ UNCHANGED <<iwdg, bc, bootSlot, xfer, confirmed>>
    /\ UNCHANGED flash

(***************************************************************************)
(* The application in slot bootSlot.  bc and st are the local copies of    *)
(* the two Upgrade_ calls, both made by the maintenance thread.            *)
(***************************************************************************)
RunsImage(i) == ValidateDigestsAndVector(slots, bootSlot, i)
RunsHealthy == \E i \in Healthy : RunsImage(i)
RunsHanging == \E i \in Hanging : RunsImage(i)

\* Load the boot control, settle it on the running slot, save what changed.
SettleOnRunningSlot(p) ==
    /\ bc' = SettleOn(LoadBootControl(bootctl), slots, bootSlot)
    /\ SaveThen(IF bc' = bootctl THEN "none" ELSE "bootctl", p)
    /\ UNCHANGED <<flash, iwdg, st, bootSlot, lastErr, session, confirmed>>

\* Upgrade_ConfirmRunningSlot, once enough healthy samples have come in.
ConfirmRunningSlot ==
    /\ At("app") /\ ~confirmed /\ RunsHealthy
    /\ SettleOnRunningSlot("confirm_state")

\* The rest of it: an upgrade state left over is cleared.
ConfirmState ==
    /\ At("confirm_state")
    /\ bc' = InitBootControl
    /\ \/ /\ ~wrOk
          /\ GoTo("app")
          /\ UNCHANGED confirmed
       \/ /\ wrOk /\ LoadState(statePage).state # "idle"
          /\ SaveThen("state", "confirm_done")
          /\ UNCHANGED confirmed
       \/ /\ wrOk /\ LoadState(statePage).state = "idle"
          /\ confirmed' = TRUE
          /\ GoTo("app")
    /\ UNCHANGED <<flash, iwdg, st, bootSlot, lastErr, session>>

\* App_TryConfirmRunningSlot tries again later when a save failed.
ConfirmDone ==
    /\ At("confirm_done")
    /\ confirmed' = wrOk
    /\ GoTo("app")
    /\ UNCHANGED <<flash, iwdg, st, bc, bootSlot, lastErr, session>>

\* Upgrade_RequestBootMode: an upgrade command reaches any image that runs.
RequestBootMode ==
    /\ At("app") /\ \E i \in Images : RunsImage(i)
    /\ SettleOnRunningSlot("request_state")

RequestState ==
    /\ At("request_state")
    /\ bc' = InitBootControl
    /\ \/ /\ wrOk
          /\ st' = [state |-> "requested", boots |-> 0]
          /\ SaveThen("state", "request_reset")
       \/ /\ ~wrOk
          /\ GoTo("app")
          /\ UNCHANGED st
    /\ UNCHANGED <<flash, iwdg, bootSlot, lastErr, session, confirmed>>

\* App_HandlePendingUpgrade resets; a request that failed is reported only.
RequestReset ==
    /\ At("request_reset")
    /\ \/ /\ wrOk
          /\ ResetCpu(FALSE)
       \/ /\ ~wrOk
          /\ st' = InitStateImage
          /\ GoTo("app")
          /\ UNCHANGED <<iwdg, bc, bootSlot, lastErr, session, confirmed>>
    /\ UNCHANGED flash

\* The independent watchdog fires: neither loop of the application kicks it any
\* more.  This may happen to any image that is not healthy, and to a healthy one
\* if it is a fault of the instance.
WatchdogReset ==
    /\ At("app")
    /\ "hang" \in Faults \/ ~RunsHealthy
    /\ ResetCpu(TRUE)
    /\ UNCHANGED flash

(***************************************************************************)
(* The specification.                                                      *)
(***************************************************************************)
BootStep ==
    \/ BootLoad \/ BootWatchdogCount \/ BootUpgradeActive
    \/ BootUpgradeNotActive \/ BootTimeout \/ BootRecovery
    \/ MarkUpgradeFailed \/ PendingRejected \/ PendingTrial
    \/ PendingTrialSaved \/ BootBestSlot \/ Jump

LoaderStep ==
    \/ BeginBootControl \/ EraseSlotPage \/ EraseFails \/ EraseDone
    \/ BeginImageDone \/ WriteImageDataSaved \/ VerifyImage
    \/ MarkDoneBootControl \/ ResetAfterDone

\* What the sender, or noise on the line, makes the receiver do.
SessionStep ==
    \/ \E h \in Images, d \in Images : BeginImage(h, d)
    \/ HeaderRefused \/ WriteImageData \/ ProgramFails \/ EndOfFile
    \/ SessionFails \/ EmptySession \/ FinalizeSession

AppStep ==
    \/ ConfirmState \/ ConfirmDone \/ RequestState \/ RequestReset

\* Everything but a reset that the program did not ask for.
Program ==
    \/ FlashWrite \/ FlashWriteFails
    \/ BootStep \/ ForceStay \/ LoaderStep \/ SessionStep
    \/ ConfirmRunningSlot \/ RequestBootMode \/ AppStep

Next == Program \/ WatchdogReset \/ PowerLoss

Spec == Init /\ [][Next]_vars

(***************************************************************************)
(* Fairness.  The processor runs: a started save ends, and the program     *)
(* takes its next step whenever that step waits for nobody.  The           *)
(* maintenance thread confirms a healthy application, and a hanging one is *)
(* reset by the watchdog.  A mute one owes nothing: both of its loops kick *)
(* the watchdog, whatever they achieve, and its confirmation is put off as *)
(* long as the healthy samples do not come.  Nothing is assumed of the     *)
(* sender, the operator or the power supply.                               *)
(***************************************************************************)
Fairness ==
    /\ WF_vars(FlashWrite)
    /\ WF_vars(BootStep)
    /\ WF_vars(LoaderStep)
    /\ WF_vars(AppStep)
    /\ WF_vars(ConfirmRunningSlot)
    /\ WF_vars(WatchdogReset /\ RunsHanging)

FairSpec == Spec /\ Fairness

(***************************************************************************)
(* Properties.                                                             *)
(***************************************************************************)
\* Whatever fails, a slot the boot control page calls pending holds the whole
\* image its slot record describes, linked for that slot: the record is
\* written after the image and cleared before the slot is touched.
PendingVerified ==
    bootctl # Unreadable /\ bootctl.pending # SlotNone =>
        ValidateDigestsAndVector(slots, bootctl.pending,
                                 bootctl.rec[bootctl.pending].img)

\* A page of a slot is erased or programmed only while the boot control page
\* on flash is readable, names the other slot as confirmed and has no pending
\* slot: BootFlash_BeginImage persists its choice before it erases.
WritesSpareConfirmed ==
    [][\A s \in Slots : slots'[s] # slots[s] =>
          /\ bootctl # Unreadable
          /\ bootctl.confirmed # s
          /\ bootctl.pending = SlotNone]_vars

\* The slot the loader is about to start is the confirmed or the pending slot
\* of the boot control page on flash, so that the next start knows what ran.
JumpIsRecorded ==
    At("jump") /\ bootctl # Unreadable =>
        bootSlot \in {bootctl.confirmed, bootctl.pending}

\* Through every fault one of the slots can be started, and a readable boot
\* control page names one that can, and is not on trial, as confirmed: whatever
\* is torn or fails to be saved, the next start has something to fall back to.
FallbackStarts ==
    /\ \E s \in Slots : IsSlotVectorValid(slots, s)
    /\ bootctl # Unreadable =>
          /\ IsSlotVectorValid(slots, bootctl.confirmed)
          /\ bootctl.pending # bootctl.confirmed

\* The slot every start falls back to holds a whole image linked for it.
ConfirmedIntact ==
    LET c == LoadBootControl(bootctl).confirmed
    IN \E i \in Images : ValidateDigestsAndVector(slots, c, i)

\* The application never runs under an upgrade state that says a download is
\* in progress: its confirmation would clear a download that was cut off.
AppNotMidUpgrade ==
    pc \in {"app", "confirm_state"} =>
        ~IsUpgradeActiveState(LoadState(statePage).state)

(***************************************************************************)
(* ABBoot implements ABUpdate while the boot control page is never torn    *)
(* and every image, once it runs, keeps running.                           *)
(***************************************************************************)
AppPCs == {"app", "confirm_state", "confirm_done", "request_state",
           "request_reset"}

WholeImage(f, s) ==
    IF \E i \in Images : ValidateDigestsAndVector(f, s, i) THEN f[s][1]
    ELSE NoImage

Abstract == INSTANCE ABUpdate WITH
    None <- SlotNone,
    stable <- LoadBootControl(bootctl).confirmed,
    trial <- LoadBootControl(bootctl).pending,
    running <- IF pc \in AppPCs THEN bootSlot ELSE SlotNone,
    whole <- [s \in Slots |-> WholeImage(slots, s)]

\* The device relies on a slot only after its application has run there, and
\* changes only what it does not rely on, one promise per save and per page.
ImplementsABUpdate == Abstract!Spec

(* What the documents say and the code does not do.                        *)

\* boot_main.c:303 and README.md:73: the loader falls back to a valid slot,
\* and starts images it has verified.  FindBestSlot looks at the vector only.
StartsWholeImages ==
    At("jump") => \E i \in Images : ValidateDigestsAndVector(slots, bootSlot, i)

(***************************************************************************)
(* Liveness.                                                               *)
(***************************************************************************)
Pending == bootctl # Unreadable /\ bootctl.pending # SlotNone
PowerStays == <>[][~PowerLoss]_vars

\* If the power eventually stays on, a pending slot whose image gets well or
\* hangs does not stay pending: it is confirmed or rolled back, unless the
\* device is kept in the loader.  A mute image stays on trial for ever.
TrialResolves ==
    PowerStays =>
        (Pending /\ bootctl.rec[bootctl.pending].img \in Healthy \cup Hanging
            ~> ~Pending \/ pc = "loader")
=============================================================================
