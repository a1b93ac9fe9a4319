------------------------------- MODULE Updater -------------------------------
(***************************************************************************)
(* The bootloader update of the recovery system: recovery/bootloader.c and *)
(* the updater functions write_bootloader and fs_size_fix of               *)
(* recovery/recovery_updater.c, run one after the other by an update       *)
(* script, with failing calls and losses of power in between.              *)
(*                                                                         *)
(* mem is what the storage reads as, disk what of it survives a loss of    *)
(* power: a write is durable after fsync() or when recovery ends, which    *)
(* syncs.  A write of several sectors may be cut short ("torn").           *)
(***************************************************************************)
EXTENDS Integers

CONSTANTS
    Devices,        \* [family, type, msv]: what the device says it is
    ImageSizes,     \* sizes of bootloader.img
    NumSectors,     \* sectors of the device (BLKGETSIZE)
    Blksize,        \* the sector userdata starts at
    OldBlklen,      \* its length in the partition table from the factory
    WORD,           \* unsigned int counts modulo WORD
    MaxTrouble      \* bound on failures and losses of power together

SECONDARY_GPT == 34                 \* NUM_SECONDARY_GPT_SECTORS
PIT_SIZE      == 4096               \* PIT_PARTITION_TABLE_SIZE
BOOT_PART_LEN == 131072
SBL_OFFSET    == PIT_SIZE + BOOT_PART_LEN * 4

\* fs_size_fix knows the two lengths of userdata that HSPA devices have.
BAD_SIZE  == OldBlklen
GOOD_SIZE == OldBlklen - 1

ASSUME SizesAreNumbers ==
    /\ ImageSizes \subseteq Nat
    /\ NumSectors \in Nat /\ Blksize \in Nat /\ OldBlklen \in Nat \ {0}
    /\ WORD \in Nat /\ MaxTrouble \in Nat

\* An HSPA device, which fs_size_fix is for: the new length is one less.
ASSUME OneSectorLess ==
    /\ NumSectors - Blksize - SECONDARY_GPT = GOOD_SIZE
    /\ NumSectors < WORD

VARIABLES
    device,         \* the device and
    image_size,     \* the image that this is about
    pc,             \* the next step of the script
    mem, disk,      \* see above
    trouble         \* failures and losses of power so far

vars == <<device, image_size, pc, mem, disk, trouble>>

OldLoader  == -1
TornLoader == -2
Storage == [gpt : {"magic", "zero"}, pit : {"old", "new", "torn"}, blklen : Nat,
            xloader : Int, sbl : {"old", "new", "torn"}, fs_size : Nat]

\* fs_size is that of the crypto footer; 0 if userdata is not encrypted.
Factory(size) == [gpt |-> "magic", pit |-> "old", blklen |-> OldBlklen,
                  xloader |-> OldLoader, sbl |-> "old", fs_size |-> size]

-----------------------------------------------------------------------------
(***************************************************************************)
(* The device and the image.                                               *)
(***************************************************************************)
\* get_specification() and get_xloader_offset(), for a device with known family
\* and type or not.  A device whose msv cannot be read counts as eng.
get_xloader_offset(d) ==
    CASE d.family = "OMAP4460" /\ d.type = "EMU" -> 0
      [] d.family = "OMAP4460" /\ d.type = "HS" /\ d.msv # "prod" -> BOOT_PART_LEN
      [] d.family = "OMAP4460" /\ d.type = "HS" /\ d.msv = "prod" -> BOOT_PART_LEN * 2
      [] d.family = "OMAP4430" /\ d.type = "HS" -> BOOT_PART_LEN * 3
      [] OTHER -> -1

\* Mutated xloader_offset: the partition table before the xloaders is forgotten.
xloader_offset_in_part(d) == get_xloader_offset(d)

\* Where write_xloader() takes the xloader from; negative if it takes none.
xloader_offset(d) ==
    IF get_xloader_offset(d) < 0 THEN -1 ELSE get_xloader_offset(d) + PIT_SIZE

\* "We subtract that number" of sectors.
NewBlklen == (NumSectors - Blksize - SECONDARY_GPT) % WORD

-----------------------------------------------------------------------------
(***************************************************************************)
(* The script.                                                             *)
(***************************************************************************)
Init ==
    /\ device \in Devices /\ image_size \in ImageSizes
    /\ pc = "start" /\ trouble = 0
    /\ disk \in {Factory(0), Factory(OldBlklen)}
    /\ mem = disk

Goto(l) == pc' = l /\ UNCHANGED <<device, image_size, trouble>>

\* A call fails and the script aborts.
Aborts ==
    /\ trouble < MaxTrouble
    /\ trouble' = trouble + 1 /\ pc' = "aborted"
    /\ UNCHANGED <<device, image_size>>

\* update_bootloader(): "image size is too small".
UpdateBootloader ==
    /\ pc = "start"
    /\ Goto(IF image_size < SBL_OFFSET THEN "rejected" ELSE "gpt")
    /\ UNCHANGED <<mem, disk>>

\* write_pit_partition_table() up to "zero out gpt magic field".
ZeroGptMagic ==
    /\ pc = "gpt"
    /\ \/ /\ Goto("pit")
          /\ mem' = [mem EXCEPT !.gpt = "zero"]
       \/ /\ Aborts
          /\ UNCHANGED mem
    /\ UNCHANGED disk

\* Mutated WritePit: the length as it was before the update.
WritePitFromImage ==
    /\ pc = "pit"
    /\ \/ /\ Goto("xloader")
          /\ mem' = [mem EXCEPT !.pit = "new", !.blklen = OldBlklen]
       \/ /\ Aborts
          /\ \/ UNCHANGED mem
             \/ mem' = [mem EXCEPT !.pit = "torn"]
             \/ mem' = [mem EXCEPT !.pit = "new", !.blklen = OldBlklen]
    /\ UNCHANGED disk

\* The rest of write_pit_partition_table().  It may fail before the write (the
\* image may have no userdata partition), in it, and when it closes the device.
WritePit ==
    /\ pc = "pit"
    /\ \/ /\ Goto("xloader")
          /\ mem' = [mem EXCEPT !.pit = "new", !.blklen = NewBlklen]
       \/ /\ Aborts
          /\ \/ UNCHANGED mem
             \/ mem' = [mem EXCEPT !.pit = "torn"]
             \/ mem' = [mem EXCEPT !.pit = "new", !.blklen = NewBlklen]
    /\ UNCHANGED disk

\* write_xloader(); an unsupported device is found out here.
WriteXloader ==
    /\ pc = "xloader"
    /\ LET offset == xloader_offset(device)
       IN  \/ /\ offset >= 0
              /\ Goto("sbl")
              /\ mem' = [mem EXCEPT !.xloader = offset]
           \/ /\ offset >= 0
              /\ Aborts
              /\ mem' = [mem EXCEPT !.xloader = TornLoader] \/ UNCHANGED mem
           \/ /\ offset < 0
              /\ Goto("rejected")
              /\ UNCHANGED mem
    /\ UNCHANGED disk

\* write_sbl(), the last step of update_bootloader().
WriteSbl ==
    /\ pc = "sbl"
    /\ \/ /\ Goto("footer")
          /\ mem' = [mem EXCEPT !.sbl = "new"]
       \/ /\ Aborts
          /\ mem' = [mem EXCEPT !.sbl = "torn"] \/ UNCHANGED mem
    /\ UNCHANGED disk

\* Mutated FsSizeFix: without fsync().
FsSizeFixNoSync ==
    /\ pc = "footer"
    /\ mem' = [mem EXCEPT !.fs_size = IF @ = BAD_SIZE THEN GOOD_SIZE ELSE @]
    /\ Goto("done")
    /\ UNCHANGED disk

\* FsSizeFixFn(): a footer with the bad size gets the good one, durably (the
\* result of fsync() is ignored; here it succeeds).
FsSizeFix ==
    /\ pc = "footer"
    /\ \/ /\ mem.fs_size = BAD_SIZE
          /\ Goto("done")
          /\ mem' = [mem EXCEPT !.fs_size = GOOD_SIZE]
          /\ disk' = [disk EXCEPT !.fs_size = GOOD_SIZE]
       \/ /\ mem.fs_size # BAD_SIZE
          /\ Goto("done")
          /\ UNCHANGED <<mem, disk>>
       \/ Aborts /\ UNCHANGED <<mem, disk>>

\* Recovery (external) ends: it syncs, forgets the script and reboots.
Finish ==
    /\ pc = "done"
    /\ Goto("finished")
    /\ disk' = mem /\ UNCHANGED mem

\* Recovery (external) is told to run the script again after a failure.
Restart ==
    /\ pc = "aborted"
    /\ Goto("start")
    /\ UNCHANGED <<mem, disk>>

-----------------------------------------------------------------------------
(***************************************************************************)
(* Loss of power: of each write since the last sync it is open what of it  *)
(* is on the disk.  Then the script starts again, if the device boots.     *)
(***************************************************************************)
Left(d, m, torn) == IF d = m THEN {d} ELSE {d, m, torn}

Survivors == {s \in
    [gpt : {disk.gpt, mem.gpt},
     pit : Left(disk.pit, mem.pit, "torn"),
     blklen : {disk.blklen, mem.blklen},
     xloader : Left(disk.xloader, mem.xloader, TornLoader),
     sbl : Left(disk.sbl, mem.sbl, "torn"),
     fs_size : {disk.fs_size, mem.fs_size}] :
        /\ s.pit = "old" => s.blklen = OldBlklen
        /\ s.pit = "new" => s.blklen = NewBlklen}

Boots(s) == s.pit # "torn" /\ s.xloader # TornLoader /\ s.sbl # "torn"

LosePower == \E s \in Survivors :
    /\ pc \notin {"finished", "bricked", "rejected"}
    /\ trouble < MaxTrouble
    /\ trouble' = trouble + 1
    /\ disk' = s /\ mem' = s
    /\ pc' = IF Boots(s) THEN "start" ELSE "bricked"
    /\ UNCHANGED <<device, image_size>>

Next ==
    \/ UpdateBootloader \/ ZeroGptMagic \/ WritePit \/ WriteXloader \/ WriteSbl
    \/ FsSizeFix \/ Finish \/ Restart \/ LosePower

Spec == Init /\ [][Next]_vars

-----------------------------------------------------------------------------
(***************************************************************************)
(* Properties.                                                             *)
(***************************************************************************)
\* The types of the storage's parts; a table and its length go together.
TypeOK ==
    /\ device \in Devices /\ image_size \in ImageSizes
    /\ pc \in {"start", "gpt", "pit", "xloader", "sbl", "footer", "done", "finished",
               "aborted", "rejected", "bricked"}
    /\ trouble \in 0..MaxTrouble
    /\ mem \in Storage /\ disk \in Storage
    /\ \A s \in {mem, disk} : /\ s.pit = "old" => s.blklen = OldBlklen
                              /\ s.pit = "new" => s.blklen = NewBlklen

\* "The layout of the bootloader.img is: PIT Partition table (4KB), 4460 EMU
\* xloader (128KB), 4460 HS (eng), 4460 HS (prod), 4430 HS, sbl (the rest)".
Layout == << "EMU_4460", "HS_4460_eng", "HS_4460_prod", "HS_4430" >>
LayoutName(d) ==
    CASE d.family = "OMAP4430" -> "HS_4430"
      [] d.type = "EMU" -> "EMU_4460"
      [] OTHER -> IF d.msv = "prod" THEN "HS_4460_prod" ELSE "HS_4460_eng"

\* When both functions have returned "t", everything has been written, and the
\* xloader is the one that the layout has for this device: also after failures
\* and losses of power at any step of earlier attempts.
DoneIsComplete == pc \in {"done", "finished"} =>
    /\ mem.gpt = "zero" /\ mem.pit = "new" /\ mem.sbl = "new"
    /\ image_size >= SBL_OFFSET
    /\ \E i \in DOMAIN Layout :
          /\ Layout[i] = LayoutName(device)
          /\ mem.xloader = PIT_SIZE + (i - 1) * BOOT_PART_LEN

\* "That size is too big to be mapped ... and the user can't decrypt and boot
\* the device", "make sure it gets to the disk": after fs_size_fix the footer
\* does not say more than the partition has, however often the update was
\* interrupted and run again before, and a loss of power does not bring the old
\* one back.
FooterFits == pc \in {"done", "finished"} =>
    /\ mem.fs_size <= mem.blklen
    /\ disk.fs_size = mem.fs_size
=============================================================================
