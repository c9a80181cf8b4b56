---------------------------- MODULE ABBootHistory ----------------------------
(***************************************************************************)
(* ABBoot with history variables, for the properties that speak of several *)
(* starts of the device.  They are written by every step and read by none. *)
(***************************************************************************)
EXTENDS ABBoot

VARIABLES
    trials,   \* starts of the slot now pending
    hangs,    \* watchdog resets in a row of slot hung
    hung,
    stays,    \* starts in a row that stayed in the loader for an upgrade
    home      \* the slot the application last settled on

history == <<trials, hangs, hung, stays, home>>
hvars == <<vars, history>>

HistoryMax == 4   \* counts end here, above every limit

Bump(n) == IF n < HistoryMax THEN n + 1 ELSE n

HInit ==
    /\ Init
    /\ trials = 0 /\ hangs = 0 /\ hung = SlotNone /\ stays = 0
    /\ home = SlotNone

PowerLost == hangs' = 0 /\ UNCHANGED <<hung, stays, home>>

WatchdogFired ==
    /\ hangs' = IF bootSlot = hung THEN Bump(hangs) ELSE 1
    /\ hung' = bootSlot
    /\ UNCHANGED <<stays, home>>

\* The boot control page on flash names the running slot as confirmed.
Settled ==
    /\ pc \in {"confirm_state", "request_state"} /\ wr' = "none"
    /\ bootctl' # Unreadable /\ bootctl'.confirmed = bootSlot

ProgramRan ==
    /\ hangs' = IF Settled \/ pc' = "begin_bootctl" THEN 0 ELSE hangs
    /\ home' = IF Settled THEN bootSlot ELSE home
    /\ stays' = CASE pc = "boot_timeout" /\ pc' = "loader" -> Bump(stays)
                  [] pc' \in {"app", "begin_bootctl"} -> 0
                  [] OTHER -> stays
    /\ UNCHANGED hung

CountTrials ==
    trials' = IF bootctl' = Unreadable \/ bootctl'.pending = SlotNone THEN 0
              ELSE IF /\ pc = "jump" /\ pc' = "app"
                      /\ bootSlot = bootctl.pending THEN Bump(trials)
              ELSE trials

HNext ==
    /\ \/ Program /\ ProgramRan
       \/ WatchdogReset /\ WatchdogFired
       \/ PowerLoss /\ PowerLost
    /\ CountTrials

HSpec == HInit /\ [][HNext]_hvars

HFairSpec == HSpec /\ Fairness

(***************************************************************************)
(* Properties.                                                             *)
(***************************************************************************)
\* A pending slot that never confirms is started UPGRADE_PENDING_BOOT_LIMIT
\* times at most, wherever the power is lost: a trial is counted on flash
\* before it starts (BootMain_HandlePendingSlot).
TrialBound == trials <= PendingBootLimit

\* No slot hangs more than UPGRADE_WDG_RESET_LIMIT times in a row: the next
\* start takes the other slot or stays (BootMain_HandleWatchdogRecovery).
HangBound == hangs <= WdgResetLimit

\* An upgrade that was requested or cut off keeps the device in the loader for
\* less than UPGRADE_ACTIVE_STATE_BOOT_LIMIT starts if a slot can be started.
StayBound ==
    (\E s \in Slots : IsSlotVectorValid(slots, s)) =>
        stays < ActiveStateBootLimit

\* README.md:162: the loader writes to the inactive slot, that is, never to
\* the slot the application last settled on.
WritesSpareHome ==
    [][\A s \in Slots : slots'[s] # slots[s] => s # home]_hvars
=============================================================================
