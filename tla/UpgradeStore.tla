---------------------------- MODULE UpgradeStore ----------------------------
(***************************************************************************)
(* The data that the bootloader and the application share in on-chip       *)
(* flash, and the pure helpers of STM32/BSP/Upgrade.c and                  *)
(* STM32/Bootloader/boot_*.c that read it.                                 *)
(*                                                                         *)
(* Three regions of flash matter to the upgrade:                           *)
(*   - the two application slots A and B, a few flash pages each;          *)
(*   - the boot control page (UpgradeBootControl);                         *)
(*   - the upgrade state page (UpgradeStateImage).                         *)
(* Either of the last two is Unreadable when it is blank, torn or has a    *)
(* wrong CRC16 (the load functions return 2, 3 or 4): every caller reacts  *)
(* to the three codes alike.                                               *)
(***************************************************************************)
EXTENDS Naturals

CONSTANTS
    Images,       \* the firmware images a tool may send
    NoImage,      \* a blank flash page, a cleared slot record
    Unreadable,   \* a control or state page that does not load
    MaxPages,     \* flash pages in one slot (UPGRADE_SLOT_MAX_SIZE)
    LinkSlot,     \* the slot an image is linked for (its reset vector)
    Size,         \* the flash pages an image occupies
    CounterMax    \* where a uint16_t counter saturates (0xFFFF in the code)

SlotA == "A"
SlotB == "B"
SlotNone == "none"
Slots == {SlotA, SlotB}
Pages == 1..MaxPages

\* UPGRADE_ACTIVE_STATE_BOOT_LIMIT, _PENDING_BOOT_LIMIT, _WDG_RESET_LIMIT
ActiveStateBootLimit == 3
PendingBootLimit == 3
WdgResetLimit == 3

ASSUME ImagesAssumption == NoImage \notin Images
ASSUME MaxPagesAssumption == MaxPages \in Nat \ {0}
ASSUME LinkSlotAssumption == LinkSlot \in [Images -> Slots]
ASSUME SizeAssumption == Size \in [Images -> Pages]
ASSUME CounterMaxAssumption == CounterMax \in Nat /\ CounterMax >= 3

(***************************************************************************)
(* Contents.  A slot page holds a page of an image or is blank.            *)
(***************************************************************************)
Contents == [Slots -> [Pages -> Images \cup {NoImage}]]

States == {"idle", "requested", "erasing", "programming", "verifying",
           "done", "failed"}

\* UpgradeStateImage: the fields some decision reads.
StateImages == [state : States, boots : 0..CounterMax]

SlotRecords == [img : Images \cup {NoImage}, present : BOOLEAN]

\* UpgradeBootControl.
BootControls == [active : Slots, confirmed : Slots,
                 pending : Slots \cup {SlotNone},
                 attempts : 0..CounterMax, wdg : 0..CounterMax,
                 rec : [Slots -> SlotRecords]]

ASSUME UnreadableAssumption == Unreadable \notin StateImages \cup BootControls

InitStateImage == [state |-> "idle", boots |-> 0]

\* Upgrade_ClearSlotRecord
ClearedRecord == [img |-> NoImage, present |-> FALSE]

InitBootControl ==
    [active |-> SlotA, confirmed |-> SlotA, pending |-> SlotNone,
     attempts |-> 0, wdg |-> 0, rec |-> [s \in Slots |-> ClearedRecord]]

\* A load that fails is followed, at every caller, by the default image.
LoadState(page) == IF page = Unreadable THEN InitStateImage ELSE page
LoadBootControl(page) == IF page = Unreadable THEN InitBootControl ELSE page

GetOtherSlot(s) == IF s = SlotA THEN SlotB ELSE SlotA

\* Mutant: the counter does not saturate.
SaturateUncapped(n) == n + 1

\* "if (x < 0xFFFF) x++"
Saturate(n) == IF n < CounterMax THEN n + 1 ELSE n

(***************************************************************************)
(* What the loader can tell about a slot.  The vector table lies in the    *)
(* first page: the stack pointer must be in SRAM and the reset vector in   *)
(* this slot, which an image linked for the other slot does not satisfy.   *)
(***************************************************************************)
IsSlotVectorValid(f, s) == f[s][1] \in {i \in Images : LinkSlot[i] = s}

\* Size, CRC32 and SHA-256 over the first image_size bytes match image i.
DigestsMatch(f, s, i) ==
    /\ i \in Images
    /\ \A p \in 1..Size[i] : f[s][p] = i

\* BootVerify_ValidateDigestsAndVector = BOOT_ERR_NONE
ValidateDigestsAndVector(f, s, i) ==
    DigestsMatch(f, s, i) /\ IsSlotVectorValid(f, s)

IsUpgradeActiveState(st) ==
    st \in {"requested", "erasing", "programming", "verifying"}

\* The first of confirmed, active, A, B that is not excluded and has a valid
\* vector: no digest and no slot record is consulted.
FindBestSlot(c, f, exclude) ==
    LET fit == {s \in Slots \ {exclude} : IsSlotVectorValid(f, s)}
    IN IF c.confirmed \in fit THEN c.confirmed
       ELSE IF c.active \in fit THEN c.active
       ELSE IF SlotA \in fit THEN SlotA
       ELSE IF SlotB \in fit THEN SlotB
       ELSE SlotNone

\* Mutant: the confirmed slot is not checked.
NormalizeActiveOnly(c, f) ==
    LET best == FindBestSlot(c, f, SlotNone)
    IN [c EXCEPT !.active = IF best # SlotNone /\ ~IsSlotVectorValid(f, @)
                            THEN best ELSE @]

\* Every slot number in memory is one of Slots, so that the three repairs of
\* an invalid number never apply: what is left is the vector check.
NormalizeBootControl(c, f) ==
    LET best == FindBestSlot(c, f, SlotNone)
        Repair(s) == IF best # SlotNone /\ ~IsSlotVectorValid(f, s)
                     THEN best ELSE s
    IN [c EXCEPT !.active = Repair(@), !.confirmed = Repair(@)]

\* Mutant: the slot that started last is taken for the stable one.
SelectDownloadSlotByActive(c) == GetOtherSlot(c.active)

\* The slot the next image goes to: the other one than the stable slot.
SelectDownloadSlot(c) == GetOtherSlot(c.confirmed)

\* What Upgrade_SnapshotRunningSlotForBootRequest and
\* Upgrade_ConfirmRunningSlot make of a boot control page for running slot s.
SettleOn(c, f, s) ==
    [active |-> s, confirmed |-> s, pending |-> SlotNone,
     attempts |-> 0, wdg |-> 0,
     rec |-> [c.rec EXCEPT
                ![s].present = @ \/ IsSlotVectorValid(f, s)]]
=============================================================================
