# A verification of the STM32 industrial monitoring system

This directory holds TLA+ specifications of the controller, its bootloader, the
tool that upgrades it and the app that switches it, the TLC configurations that
model-check them, and TLAPS proofs of their main invariants.  `PROJECT.json`
lists the runs, the lines of code each definition stands for, the hazards and the
theorems.

## The system and its parts

| Part | Code | State it keeps | Operations |
|---|---|---|---|
| Bootloader: boot decision | `STM32/Bootloader/boot_main.c` | RAM copy of both flash pages, reset cause | load, watchdog count, continue or end an upgrade, roll back, trial, jump |
| Bootloader: image session | `boot_flash.c`, `boot_verify.c` | transfer slot, announced image, bytes written | begin, write, verify, mark done or failed |
| Upgrade store | `STM32/BSP/Upgrade.c` | *state page* (what the upgrade is doing), *boot control page* (confirmed, pending, active slot, trial and watchdog counts), slots A and B | load with defaults, save, erase, program, request, confirm |
| Bootloader: YMODEM receiver | `System/ymodem.c`, `boot_protocol.c` | expected packet, error count, bytes received | receive packet, poll, abort |
| Desktop tool: YMODEM sender | `OTA.Protocols/YModem/YModemProtocol.cs` | phase, packet, attempts | send file, wait for ready and for ACK |
| Desktop tool: orchestration | `OTA.Core/Services`, `OTA.ViewModels` | session, selected slot, serial gate | detect slot, pick image, upgrade, cancel |
| Application: maintenance and sensor threads | `STM32/User/app_threads.c` | health mailbox, confirmation timers, last relay registers | confirm the slot, take an upgrade request, relay commands, inputs, watchdog |
| Application: registers and JSON commands | `BSP/G780s.c`, `BSP/Modbus_Slave.c` | active and staged configuration, lock, one pending command | unlock, stage, commit, discard, enter the bootloader |
| Application: log service and data logger | `BSP/LogService.c`, `BSP/DataLogger.c` | queue of 16, CSV buffer, start count on flash | submit, buffer, flush, count a start |
| Application: relay board, sensors | `BSP/Relay.c`, `Temperature.c`, `Weight.c`, `Flowmeter.c` | outputs of the board, flow counter | bus transactions under one lock |
| Mobile app | `flutter/lib/data`, `flutter/lib/ui/control` | pending commands, wish and count of the switch page, socket and its timer, history cache | send command, acknowledge, supersede, time out, log out, reconnect |

They meet in four places.  The application and the bootloader share the two
flash pages and the reset: an upgrade request is a page save followed by a
reset, a confirmation is two page saves.  The desktop tool and the bootloader
talk over a serial line, one packet and one answer at a time.  The application's
threads share the relay board, the configuration and the log queue.  The mobile
app, the server (not in the repository) and the application exchange commands
and telemetry.

What is hard, and what makes each part correct:

* **Boot decision and store.**  A reset can come between any two saves and in
  the middle of one; there is one copy of each page, erased before it is
  rewritten.  Several starts together must respect the limits (three trials,
  three watchdog resets, three starts with an upgrade in progress).  Correct
  means: the device falls back to an image that is whole, never puts on trial
  what it has not verified, never writes to the slot it relies on, and always
  keeps a slot that the next start can take.
* **YMODEM.**  Packets and answers are lost, damaged or late, both sides have
  timeouts, and the receiver hears nothing while it erases.  Correct means: the
  slot gets the file in order and whole, the tool does not run ahead of the
  device, and the transfer ends.
* **Application threads.**  Two threads kick one watchdog, switch the same
  outputs and share mailboxes that drop.  Correct means: only a healthy image is
  confirmed, no switching undoes another unnoticed, an edge counts once.
* **Logging.**  Bounded queues, ignored write results, resets at any step.
  Correct means: what is stored is in order and stored once, starts can be told
  apart, and a reading does not stay in RAM for ever.
* **Commands.**  Lost frames, answers before their registration or in another
  order, one command slot that an interrupt overwrites, logouts with commands
  under way.  Correct means: every command ends, the device obeys none late, and
  the switches come to show the relays.
* **Desktop orchestration.**  Cancellation, one port for several operations.
  Correct means: one operation on a port at a time.

## Modules

| Module | What it is |
|---|---|
| `UpgradeStore` | the values of both pages and the functions on them: defaults, load, slot choice, validation, normalisation. No variables. |
| `ABBoot` | the program the processor runs, bootloader and application, over the flash pages and the slots. |
| `ABBootHistory` | `ABBoot` with history variables (trials, hangs and stays in a row, the slot the application settled on) for properties of several starts. |
| `ABUpdate` | what an A/B update promises, in six actions without pages, saves or sessions. `ABBoot!ImplementsABUpdate` is the refinement. |
| `ABBoot_proofs` | the inductive invariant of `ABBoot` and the theorems from it. |
| `ABUpdate_proofs` | that `ABBoot` implements `ABUpdate`, and that the slot it relies on is whole. Extends `ABBoot_proofs`. |
| `ABBootHistory_proofs` | the limits over several starts, and the slot that is never written. Extends `ABUpdate_proofs`. |
| `YmodemLink` | sender, receiver and the serial line between them. |
| `YmodemLink_proofs` | the inductive invariant of `YmodemLink` and the theorems from it. |
| `RemoteConfig` | the controller's configuration: maintenance window, staging, saving, and its takeover by the sensor thread. |
| `RemoteConfig_proofs` | the inductive invariant of `RemoteConfig` and the theorems from it. |
| `LogStore` | the log: senders, queue, logger thread, buffer and files. |
| `AppThreads` | the maintenance and the sensor thread on the relay board, and the health samples between them. |
| `CommandLink` | a command from the switch page through the server to the relays, and what comes back. |
| `LogStore_proofs`, `AppThreads_proofs`, `CommandLink_proofs` | their inductive invariants and theorems. |
| `MCABBootHistory`, `MCRemoteConfig` | the instances for TLC. |

### How ABBoot corresponds to the code

`statePage`, `bootctl` and `slots` are flash; everything else is the RAM of the
bootloader (`BootloaderRuntime`) or one variable of the application, and is
cleared by every reset.  `pc` names the next step of the one program that runs.
A save (`Upgrade_SaveState`, `Upgrade_SaveBootControl`) is two steps: the code
asks for it (`SaveThen`), then `FlashWrite` completes it, `FlashWriteFails`
reports an error, or `PowerLoss` interrupts it and leaves the old page or an
unreadable one.  An action is the code between two saves, so that every order
of saves and every reset between them is explored:

* `BootLoad` … `BootBestSlot` follow `BootMain_ShouldStayInLoader` and the
  functions it calls from top to bottom; `Jump` is `Upgrade_JumpToSlot`.
* `BeginImage` … `MarkDoneBootControl` are the callbacks of the YMODEM session;
  the slot is erased and programmed page by page.  `SessionFails`, `EndOfFile`,
  `EmptySession` are what the receiver can report.
* `ConfirmRunningSlot` and `RequestBootMode` are the two calls of the
  application; `WatchdogReset` is an application that stops kicking the IWDG.

There are three kinds of images.  One in `Healthy` gets its healthy samples and
confirms itself.  One in `Hanging` sooner or later stops kicking the watchdog.
One in neither is mute: no sensor answers it, so `App_TryConfirmRunningSlot`
returns each time (`app_threads.c`:520), while both of its loops go on kicking
(735, 874).  For safety any image that is not healthy may be reset by the
watchdog at any time, and a healthy one too where `"hang"` is among the faults.

An image is a model value with a link slot and a size; a page of a slot holds a
page of an image or nothing.  A vector is valid when the first page is that of
an image linked for the slot, a digest when all pages of the image are there.
The page magic, version and CRC16 are one value, `Unreadable`; a CRC collision
is left out.

### How YmodemLink corresponds to the code

`phase`, `next` and `tries` are where `SendFile` stands; `expected`, `begun`,
`errors`, `file` and `bytes` are the locals of `Ymodem_Receive` and its result,
and `slot` is what the callbacks have programmed.  `toDevice` and `toTool` are
the bytes under way, a packet or control character each.  The receiver polls its
UART without a buffer: while `mode = "erase"` it hears nothing and of what is
sent then a single byte remains (`Stale`), which the code reads as the start of
a packet.  The line can lose, damage and delay packets, lose answers, and let
the first byte of a packet disappear so that its data is read as an EOT or an
abort.  `astray` remembers that, and that an abort of the device was lost: the
sender then goes on with a session the receiver has left.  `Patience` is how the user's timeout compares
with the receiver's poll and the erasure.

### How RemoteConfig corresponds to the code

`page` is the flash page of the configuration; `active`, `staged` and the flags
are `g_active_config`, `g_staged_config` and three bits of `g_maint_status`;
`runtime` is the sensor thread's copy.  One request is handled in one turn of
`G780s_Process`, after the window has been closed if its deadline has come
(`Open`).  A save is several steps: `Save` enters it, `SaveDone` or `SaveFails`
ends it, `Recorded` stands for the snapshot of the save and the answer, and
`PowerLoss` can come before and after each.  `told` and `begun` remember what has
been answered.  `Tick` is any passing of time, modulo the width of the clock.

Registers are of four kinds: with a range and relations (`sensor`, `flow`,
`debounce`), with a range only (`temp`), and the two halves of a 32-bit value,
of which neither is checked.  The second 32-bit value and the control mode are
of these kinds and left out, as are error codes, the diagnosis page and reads.

### How LogStore corresponds to the code

`queue` is `s_log_queue`, `buf` and `len` the readings and bytes in `s_csv_buf`,
`data`, `errors` and `starts` what the files hold, `meta` the count in
`/meta.dat`.  `Logger` is `LogService_ThreadEntry`: it mounts, counts the start
(`CountStart`), notes it (`LogBoot`), then takes a message or times out (`recv`)
and looks at the flush period (`check`).  A message is the number of its
submission; a line has any length of `LineSizes`, so that a line may or may not
fit.  LittleFS is external: a file is replaced when it is closed, also one opened
to be truncated, so an interrupted or failed write leaves the old one.
`HandlePendingUpgrade` and `UpgradeReset` are both callers that ask for a flush
and reset soon after; the reset comes wherever the logger is by then.

### How AppThreads corresponds to the code

Each thread is a loop of steps named by `pc`; a thread that has channels to
toggle (`todo`) does so before its next step.  `holder` is the owner of
`s_modbus_master_mutex`: a single transaction needs it free and is one step,
`Relay_ToggleOutput` is `ToggleRead` (take it and read) and `ToggleWrite` (write
and release).  A transaction may fail, as may the lock after its second.
`stable` and `lastRaw` are `AppDiState`; any set of inputs that read as before
may be over its debounce time, so the model covers every period and debounce
time.  `good` and `bad` are the words in the health mailbox.  Both threads see
the mode of the shared configuration, which the sensor thread takes over at the
start of a sample.

### How CommandLink corresponds to the code

A request goes through the stages of `sendRelaySet`: `posting` (the await of the
POST), `waiting` (in `_pending`), `ended` (its completer has completed), `done`
(the rest of `setRelay` has run).  `measured`, `requested` and `pending` are
`_measurement`, `_requestedMask` and `_pendingCount` of the switch page,
`lastMeasurement` is what `MeasurementRepository` keeps for all pages, through a
logout too: a login shows it again.  The server numbers what it
receives and publishes in that order; frames keep their order and are lost.  A
POST that fails may have reached the server or reach it later.  `slot` is
`g_pending_json_command`: `HandleJsonFrame` runs in the interrupt and replaces
what is there, `TakeCommand` is `G780s_ConsumeJsonCommand` with the branch of
`App_HandleJsonCommands`, `ReportCommandAck` its acknowledgement.  `Sample` and
`SendTelemetry` are the sensor thread's preparation and the maintenance thread's
sending of a telemetry frame, any number of times.

## Runs

| Run | Question | Properties |
|---|---|---|
| `boot_faults` | every fault at once: torn pages, failing flash, hanging and unhealthy images | `TypeOK`, `PendingVerified`, `TrialBound`, `FallbackStarts`, `WritesSpareConfirmed` |
| `boot_power` | power losses at any step, torn state page, all images healthy | `ConfirmedIntact`, `AppNotMidUpgrade`, `StayBound`, `WritesSpareHome`, `ImplementsABUpdate` |
| `boot_hang` | hanging and mute images, torn boot control page, and liveness | `HangBound`, `JumpIsRecorded`, `TrialResolves` |
| `link_faults` | every fault of the line and of the flash, an impatient sender | `TypeOK`, `InOrder`, `WholeWhenGone`, `SenderNotAhead` |
| `link_ends` | lost and damaged packets with the tool's own timeouts, and none | `TransferEnds`, `TransferCompletes` |
| `config_faults` | power losses and flash failures at any step, every order of requests, clock wraps | `TypeOK`, `EffectiveValid`, `CleanMeansSame`, `NoticedBySensor`, `RestartKeeps`, `WithinWindow` |
| `log_faults` | full queue, failing files and mount, power losses, upgrade resets | `TypeOK`, `InOrder`, `StartsNumbered`, `ReadingsStored` |
| `threads_faults` | every interleaving of the two threads with failing transactions, keys, inputs, registers and changes of mode | `TypeOK`, `InputTogglesOnce`, `ConfirmedAfterHealth`, `ToggleInverts` |
| `command_faults` | lost frames, failed posts, failing relays, logout, reconnection, switching by others | `TypeOK`, `TakenInOrder`, `CommandsEnd`, `DisplaySettles` |
| `v_whole`, `v_header`, `v_newest` | the findings below | one each |

`SenderNotAhead` holds unless `astray`.  The receiver that gives up returns to a
new session.  A header repeated by a sender that did not hear the abort opens it,
and its answer, if the sender has gone on to the data by then, passes for that
of the first packet.  The tool then counts one packet more than the device has and is
refused until its retries run out; `InOrder` and `WholeWhenGone` hold all the same.

`ConfirmedIntact` and the refinement hold only while the boot control page is
not torn and no image hangs; in `boot_power` all images are healthy.  `v_whole`
and the torn page described below are what happens otherwise.  `PendingVerified`,
`TrialBound`, `FallbackStarts` and `WritesSpareConfirmed` are checked under all
faults.  `FallbackStarts` does not say that the fallback is whole, nor that it is
the slot settled on: it says that a torn page or a failed save never leaves a
start without a slot, and never with the slot on trial alone.

Bounds.  Two pages per slot tell an empty, a partial and a whole image apart,
and erasing from programming; two images, one per slot, give old and new.
`boot_hang` has three: a healthy one of two pages, `badB`, which hangs, and
`imgB`, which is mute, both of one page, shorter than the slot.  `CounterMax` 4 lies above every limit (3), so that saturation and
the limits are both reached.  History counts end at 4, above the limits they are
compared with.  `link_faults` has 3 packets (first, middle, last), 3 faults, 4
attempts and 1 miss instead of 10 and 5, `link_ends` 5 packets, 3 faults, 3
attempts and 2 misses: a packet can be repeated, refused and given up on either
side, and the lost abort described above comes up.  `ReplyMax` stops the
receiver from polling into a full queue.  `RemoteConfig` has two or three values
per register, all four pairs of halves of which two are legal, three sequence
numbers (two saves since the page was last lost: a save, and one that meets its
leftovers), and a clock of six ticks with a window of two, so that deadlines lie
before, at and after the wrap.

`LogStore` has a queue of two and a buffer that
takes one long line or four short ones, four messages and three starts: a
message can be dropped, a line can find the buffer full, and two restarts can
come in a row.  `AppThreads` has two channels, one with a key, so that both
threads can want the same relay and one of them two; a mailbox of one, to be
full, and two healthy samples, so that one is not enough; two events and two
faults.  `CommandLink` has two masks and two requests, enough for one to
supersede, overtake or equal the other; two frames on the way to the app; one
fault and one event of others.

Deadlock is checked in the runs of `ABBoot`, `RemoteConfig`, `AppThreads` and
`CommandLink`.  The runs of `YmodemLink` do not check it: a transfer that has
ended stops, and nobody listens after the reset.  Nor does that of `LogStore`,
where a device that is off need not come on again.

Fairness.  In `ABBoot` a started save ends and the program takes its next step
whenever the step waits for nobody: it is one thread of control on one
processor.  The maintenance thread confirms a healthy image
(`App_MaintThreadEntry` retries until it succeeds) and the watchdog resets a
hanging one.  A mute image is obliged to nothing, and `TrialResolves` is about
the other two kinds.  Nothing is assumed of the sender, the operator or the power
supply; `TrialResolves` assumes only that the power eventually stays on.
In `YmodemLink` both programs run and their timeouts expire.  The line is not
obliged to do anything.  In `LogStore` the logger, a thread of low priority, runs
because the threads above it sleep in every turn, and time passes; nothing obliges
the power or a sender.  `AppThreads` has only safety properties and assumes no
fairness.  In `CommandLink` a POST that does not fail is received and answered,
timers fire, the two threads have their turns and frames that are not lost
arrive; reconnection, the poll of the server, logins and what others switch are
never obliged to happen.  So `CommandsEnd` rests on the timer and on every POST
being answered or failing, and `DisplaySettles` on that and on telemetry.  The
assumption is on the network and the server: `http_api_service.dart`:28 sets no
timeout, so a POST that stays open keeps its command open too.

## Findings

* `v_whole`: `BootMain_FindBestSlot` accepts a slot whose vector is valid.  When
  the confirmed image hangs three times after an interrupted download, watchdog
  recovery confirms and starts a slot that holds part of an image.
* `v_header`: the tool restarts its timeout at every byte it skips, and the
  receiver polls every second, so a lost header is neither repeated nor given up.
* `v_newest`: relay commands are superseded when the answer of a POST comes in,
  not when it is sent.  If the answers of two posts change places, the older
  command ends the newer one as superseded and waits on.

Four more divergences came up while modelling; the models have the behaviour,
and no run is spent on them:

* The manual (`本地升级手册.md`:86) says that every start under state DONE verifies
  the digests again.  A power loss between the two saves of `BootFlash_MarkDone`
  leaves DONE with nothing pending: the old image starts, nothing is rechecked.
* `README.md`:162 says that the loader writes to the inactive slot.  A torn boot
  control page is replaced by defaults that call slot A confirmed; a device that
  has settled on slot B is then upgraded in slot B.  `WritesSpareHome` is checked
  without torn pages for this reason.
* `README.md`:166 says that the loader rolls back when boot confirmation fails.
  Confirmation does not fail, it waits: an image whose sensors never answer keeps
  kicking the watchdog and stays on trial, neither confirmed nor rolled back,
  until something resets the device three times.  Without the restriction to
  `Healthy \cup Hanging`, `TrialResolves` is violated in `boot_hang`.
* `G780s.h`:153 says that the status bit `SAVE_OK` means that the last save
  succeeded.  A save that fails in flash leaves the bit of an earlier one set.

## What is proved

The eight proof modules prove, for every value of the constants that the named
assumptions allow (images, sizes, packets, ranges, clock width, channels, masks,
bounds and sets of faults):

* `TypeCorrect`: the type invariants of `ABBoot`, `YmodemLink` and `RemoteConfig`.
* `PendingSlotVerified`: `Spec => []PendingVerified`, and `WritesSpare`:
  `Spec => WritesSpareConfirmed`.
* `ArrivesInOrder`: `Spec => []InOrder`, and `ResetsWhole`:
  `Spec => []WholeWhenGone`.

`PendingVerified` is not inductive.  A verified image is on flash when its record
is written because (1) the RAM copy of the boot control carries no pending slot
that is not verified either (`Verified(bc)`), (2) during a session the saved page
has no pending slot, so that what is programmed disturbs no record
(`FlashVerified`, `NoFileOutsideSession`), (3) the slot written is the one the
saved page does not name as confirmed (`FileIsForSpare`), and (4) a slot is
touched only after that choice is on flash (`OpenIsSaved`).  The inductive
invariant `IInv` is `TypeOK` with these; there is one proof step per action.

* `FallbackIsKept`: `Spec => []FallbackStarts`, under every fault.

It is inductive together with the same for the copy in RAM (`CopyStands`;
`FallbackStands` is the theorem about both), from which the page is saved:
`NormalizeBootControl` repairs what the defaults of a torn page name, and a
download erases only the slot that the copy does not name as confirmed.

* `RunsCalm` and `JumpsAreRecorded`: `AppNotMidUpgrade` and `JumpIsRecorded` are
  invariants if `"flash" \notin Faults`; tearing, hangs and resets are allowed.

They rest on `Path`: from the check for an upgrade in progress on, the state page
says what was read there (`CalmOnTheWay`); what the loader decides on is the boot
control that flash says or is about to say (`PageIsCopy`); what it starts, and
what the application then runs in, is the slot that page leads to
(`SlotIsChosen`).  The assumption is needed: a rollback and the jump go on when
their save fails.

* `TrialsAreBounded`: `HSpec => []TrialBound`, under every fault.
* `StaysAreBounded` and `HangsAreBounded`: `StayBound` and `HangBound` are
  invariants if `"flash" \notin Faults`.

`HSpec` only observes (`Observed`: `HSpec => Spec`), so the invariants of `ABBoot`
hold in it.  `TrialInv` ties the history to flash: the trials in a row are at most
the count on the page, or on the copy that is being saved, and a pending slot is
started only after a save that counts it.  `StayInv` does the same with the starts
on the state page, which are counted before the limit is looked at; that a slot
to roll back to exists is `FallbackStands`.  `HangInv` is larger: who hangs must
be the slot that the page leads to, with a watchdog count that is not behind
(`Due`, `Charged`), or else a slot that no upgrade in progress, no rollback and no
trial would start again (`UpgradeSpares`, `HangsOnTrial`); `Path` gives that what
ran is what the page says.  A failed save breaks both: the count stays on flash
as it was and the start goes on.

* `ConfirmedIsIntact`: `Spec => []ConfirmedIntact`, and `Implements`:
  `Spec => ImplementsABUpdate`, if `PowerFaultsOnly`.
* `SparesHome`: `HSpec => WritesSpareHome`, if `PowerFaultsOnly`.

`PowerFaultsOnly` says that only the state page is torn and that every image,
once it runs, keeps running; a power loss can come at any step.  The
other faults break these promises: a boot control that is torn falls
back to slot A whatever it holds, one that is not saved leaves the loader with a
choice that flash does not know, and a slot that hangs is left for any with a
vector.  The invariant is `Relied`: the slot that flash names as confirmed is
whole, as is the one that runs (`ReliesOnWhole`); the copy names the same one
until the application settles (`SameConfirmed`), and a trial is on the page
before another is begun (`SameTrial`).  Every action is then one of `ABUpdate`, or
changes nothing it shows: there is one lemma per group of steps, and a save is a
step of `ABUpdate` exactly when it makes the change known to flash.
`WritesSpareHome` adds that the slot settled on is the one flash names as
confirmed (`HomeIsConfirmed`).

`InOrder` rests on the packet numbers: `Counted` says that the bytes counted are
the packets in the slot, `Numbered` that a receiver expecting a data packet
expects the one after the last it has, `Erasing` that the slot is empty during
`on_start`.

* `SenderKeepsBehind`: `Spec => []SenderNotAhead`, for all parameters and faults.

What an answer stands for cannot be read off it: the queue holds `ACK`s without
numbers.  `InTurn` says that those ahead of the first abort can be numbered
upwards by packets that the sender has not yet counted and the slot already has
(`AnsweredInTurn`), that no header is under way once the slot holds data
(`SentInTurn`), and that a session without a header has acknowledged nothing
(`Unanswered`).  The first proof attempts failed for a good reason: a lost abort
makes the property false, and `astray` now remembers it (see the runs).

* `RunsValid`, `CleanReadsEffective`, `SensorNotices`: `EffectiveValid`,
  `CleanMeansSame` and `NoticedBySensor` are invariants of `RemoteConfig`.
* `SavedSurvives`: `Spec => RestartKeeps`, and `ClosesInTime`:
  `Spec => WithinWindow`.

`RestartKeeps` needs to know at every step what the page would be read as
(`Effective`): what was reported when no save is open (`PageKept`), before the
new image is written the earlier one or the defaults (`PageBefore`), afterwards
one of the three (`PageTried`).  `NoticedBySensor` rests on `Numbered`: the
sensor thread's number is never ahead, so a new one differs from it.
`WithinWindow` rests on `DeadlineNear`, which the wrap of the clock breaks.

* `LogTyped`, `FilesKeepOrder` and `StartsAreNumbered`: the three invariants of
  `LogStore`.

The order of a file is kept because everything on its way to it is younger: the
data file is before the buffer, the buffer before the readings in the queue, the
queue before the next number, and the same without the buffer for errors; the
logged starts are at most the count on flash, and below it between `CountStart`
and `LogBoot`.

* `ThreadsTyped`, `TogglesAreAtomic`, `InputsToggleOnce` and
  `ConfirmationIsEarned`: all four properties of `AppThreads`.

`TogglesAreAtomic` rests on `Locked`: a thread between its two transactions holds
the mutex, and what it read still holds, because every other writer needs the
mutex free.  `InputsToggleOnce` rests on `Credited`: an input that is on and not
yet taken as on has risen once more than it has toggled, whether it was last read
on or off.  `ConfirmationIsEarned` rests on `Counted`: what has been drained and
what is in the mailbox is not more than was posted.

* `CommandsTyped` and `CommandsInOrder`: `TypeOK` and `TakenInOrder` of
  `CommandLink`, the latter from `Ordered`: the numbers of the last command taken,
  the one in the slot and those on their way down increase in this order.

The assumptions on the constants are those named in `UpgradeStore`, `ABBoot`,
`YmodemLink`, `RemoteConfig`, `LogStore`, `AppThreads` and `CommandLink`; TLC
evaluates them in every run.  Every invariant, action property
and refinement that a passing run checks is proved.

Only model-checked are the liveness properties: `TrialResolves`, `TransferEnds`,
`TransferCompletes`, `ReadingsStored`, `CommandsEnd` and `DisplaySettles`.  They
rest on fairness, that is on `ENABLED`, which the prover does not handle.

## What is not modelled

Byte-level formats, digests and CRCs; pages of the older layout; the vendored
RT-Thread, HAL, LittleFS and nanomodbus; the user interfaces; the server, which is
not in the repository, but for its part in `CommandLink`; the sensors, whose
reading keeps no state that other parts rely on; the kicks of the watchdog.
On the controller's line: its split between JSON and Modbus
(`G780s_RxCallback`) and the acknowledgement of telemetry, which is sent again
until then (`CommandLink` lets any frame be sent any number of times).  In
`AppThreads` a request of the maintenance tool is only a change of mode.
`DataLogger_RollDay` and `DataLogger_CleanupOld` have no caller.  The app's socket
is connected whenever a user is logged in; its history, cache and alarms are left
out.  The tool's orchestration is planned.

## Plan

1. Extend.  `SerialSession`: the tool's gate, slot detection and cancellation.
   The composition of `YmodemLink` with `ABBoot`, for what the tool reports
   against what the device boots.  The line of the controller: JSON and Modbus
   from one interrupt, telemetry and its acknowledgement.  The app's reconnecting
   socket under `CommandLink`.
2. Prove.  That the slot which `WholeWhenGone` leaves is the one `ABBoot` verifies,
   once the two are composed; the safety properties of the modules of step 1.
