--------------------------- MODULE UpdaterProofs ---------------------------
(***************************************************************************)
(* Theorems about Updater, for every device, image and layout of userdata. *)
(***************************************************************************)
EXTENDS Updater, TLAPS

\* Where the script is once write_pit_partition_table(), write_xloader() and
\* write_sbl() have returned 0.
AfterPit     == {"xloader", "sbl", "footer", "done", "finished"}
AfterXloader == {"sbl", "footer", "done", "finished"}
AfterSbl     == {"footer", "done", "finished"}

\* What every step that has been done since the script began has left behind.
\* Nothing is said of the storage before those steps: earlier attempts may have
\* been cut short anywhere.
Progress ==
    /\ pc \in AfterPit \cup {"gpt", "pit"} => image_size >= SBL_OFFSET
    /\ pc \in AfterPit \cup {"pit"} => mem.gpt = "zero"
    /\ pc \in AfterPit => mem.pit = "new"
    /\ pc \in AfterXloader => /\ get_xloader_offset(device) >= 0
                              /\ mem.xloader = xloader_offset(device)
    /\ pc \in AfterSbl => mem.sbl = "new"
    /\ pc \in {"done", "finished"} => mem.fs_size # BAD_SIZE

\* Only these sizes are ever in the footer, and no change of it is in doubt.
FooterSizes == mem.fs_size \in {0, BAD_SIZE, GOOD_SIZE} /\ disk.fs_size = mem.fs_size

IInv == TypeOK /\ Progress /\ FooterSizes

-----------------------------------------------------------------------------
\* The length that write_pit_partition_table() writes is the good one.
LEMMA NewBlklenIsGood == NewBlklen = GOOD_SIZE /\ NewBlklen \in Nat
  <1>1. NumSectors - Blksize - SECONDARY_GPT = GOOD_SIZE
    BY OneSectorLess
  <1>2. GOOD_SIZE \in Nat /\ GOOD_SIZE < WORD /\ WORD \in Nat
    BY SizesAreNumbers, OneSectorLess, <1>1 DEF GOOD_SIZE, SECONDARY_GPT
  <1>3. GOOD_SIZE % WORD = GOOD_SIZE
    <2> DEFINE n == GOOD_SIZE
    <2>1. n \in Nat /\ WORD \in Nat /\ n < WORD
      BY <1>2
    <2> HIDE DEF n
    <2>2. n % WORD = n
      BY <2>1
    <2> QED
      BY <2>2 DEF n
  <1> QED
    BY <1>1, <1>2, <1>3 DEF NewBlklen

\* The layout's comment, part by part.
LEMMA LayoutParts ==
    /\ DOMAIN Layout = 1..4
    /\ Layout[1] = "EMU_4460" /\ Layout[2] = "HS_4460_eng"
    /\ Layout[3] = "HS_4460_prod" /\ Layout[4] = "HS_4430"
  BY DEF Layout

\* The sizes as numbers, which is all that the proofs need of them.
LEMMA PartSizes == PIT_SIZE \in Nat /\ BOOT_PART_LEN \in Nat /\ SBL_OFFSET \in Nat
  BY SMT DEF PIT_SIZE, BOOT_PART_LEN, SBL_OFFSET

LEMMA OffsetIsInt == ASSUME NEW d PROVE get_xloader_offset(d) \in Int
  BY PartSizes, SMT DEF get_xloader_offset

\* write_xloader() takes the part of the image that the layout's comment names.
LEMMA OffsetIsLayout ==
    ASSUME NEW d, get_xloader_offset(d) >= 0
    PROVE  /\ xloader_offset(d) \in Int
           /\ \E i \in DOMAIN Layout :
                 /\ Layout[i] = LayoutName(d)
                 /\ xloader_offset(d) = PIT_SIZE + (i - 1) * BOOT_PART_LEN
  <1>1. CASE d.family = "OMAP4460" /\ d.type = "EMU"
    <2>1. get_xloader_offset(d) = 0 /\ LayoutName(d) = "EMU_4460"
      BY <1>1 DEF get_xloader_offset, LayoutName
    <2>2. xloader_offset(d) = PIT_SIZE
      BY <2>1, PartSizes, SMT DEF xloader_offset
    <2>3. (1 - 1) * BOOT_PART_LEN = 0
      BY PartSizes, SMT
    <2>4. xloader_offset(d) = PIT_SIZE + (1 - 1) * BOOT_PART_LEN
      BY <2>2, <2>3, PartSizes, SMT
    <2>5. 1 \in DOMAIN Layout /\ Layout[1] = LayoutName(d)
      BY <2>1, LayoutParts
    <2> QED
      BY <2>2, <2>4, <2>5, PartSizes
  <1>2. CASE d.family = "OMAP4460" /\ d.type = "HS" /\ d.msv # "prod"
    <2>1. get_xloader_offset(d) = BOOT_PART_LEN /\ LayoutName(d) = "HS_4460_eng"
      BY <1>2 DEF get_xloader_offset, LayoutName
    <2>2. xloader_offset(d) = PIT_SIZE + (2 - 1) * BOOT_PART_LEN
      BY <2>1, PartSizes, SMT DEF xloader_offset
    <2> QED
      BY <2>1, <2>2, LayoutParts, PartSizes, SMT
  <1>3. CASE d.family = "OMAP4460" /\ d.type = "HS" /\ d.msv = "prod"
    <2>1. get_xloader_offset(d) = BOOT_PART_LEN * 2 /\ LayoutName(d) = "HS_4460_prod"
      BY <1>3 DEF get_xloader_offset, LayoutName
    <2>2. xloader_offset(d) = PIT_SIZE + (3 - 1) * BOOT_PART_LEN
      BY <2>1, PartSizes, SMT DEF xloader_offset
    <2> QED
      BY <2>1, <2>2, LayoutParts, PartSizes, SMT
  <1>4. CASE d.family = "OMAP4430" /\ d.type = "HS"
    <2>1. get_xloader_offset(d) = BOOT_PART_LEN * 3 /\ LayoutName(d) = "HS_4430"
      BY <1>4 DEF get_xloader_offset, LayoutName
    <2>2. xloader_offset(d) = PIT_SIZE + (4 - 1) * BOOT_PART_LEN
      BY <2>1, PartSizes, SMT DEF xloader_offset
    <2> QED
      BY <2>1, <2>2, LayoutParts, PartSizes, SMT
  <1>5. \/ d.family = "OMAP4460" /\ d.type = "EMU"
        \/ d.family = "OMAP4460" /\ d.type = "HS" /\ d.msv # "prod"
        \/ d.family = "OMAP4460" /\ d.type = "HS" /\ d.msv = "prod"
        \/ d.family = "OMAP4430" /\ d.type = "HS"
    BY SMT DEF get_xloader_offset
  <1> QED
    BY <1>1, <1>2, <1>3, <1>4, <1>5

-----------------------------------------------------------------------------
LEMMA InitIInv == Init => IInv
  BY SizesAreNumbers, OneSectorLess
     DEF Init, IInv, TypeOK, Progress, FooterSizes, Storage, Factory, AfterPit,
         AfterXloader, AfterSbl, OldLoader, BAD_SIZE, GOOD_SIZE

LEMMA NextIInv == IInv /\ [Next]_vars => IInv'
  <1> SUFFICES ASSUME IInv, [Next]_vars
               PROVE  IInv'
    OBVIOUS
  <1> USE SizesAreNumbers, NewBlklenIsGood
      DEF IInv, TypeOK, Progress, FooterSizes, Storage, AfterPit, AfterXloader, AfterSbl
  <1>0. BAD_SIZE \in Nat /\ GOOD_SIZE \in Nat /\ GOOD_SIZE # BAD_SIZE
    BY DEF BAD_SIZE, GOOD_SIZE
  <1>a. Aborts => /\ trouble' \in 0..MaxTrouble /\ pc' = "aborted"
                  /\ UNCHANGED <<device, image_size>>
    BY DEF Aborts
  <1>1. CASE UpdateBootloader
    <2>1. image_size \in Nat /\ SBL_OFFSET \in Nat
      BY PartSizes
    <2>2. CASE image_size < SBL_OFFSET
      BY <1>1, <2>2 DEF UpdateBootloader, Goto
    <2>3. CASE image_size >= SBL_OFFSET
      <3>1. ~(image_size < SBL_OFFSET)
        BY <2>1, <2>3, SMT
      <3> QED
        BY <1>1, <2>3, <3>1 DEF UpdateBootloader, Goto
    <2> QED
      BY <2>1, <2>2, <2>3, SMT
  <1>2. CASE ZeroGptMagic
    BY <1>2 DEF ZeroGptMagic, Goto, Aborts
  <1>3. CASE WritePit
    <2>1. CASE pc' = "xloader"
      <3>1. mem' = [mem EXCEPT !.pit = "new", !.blklen = NewBlklen]
        BY <1>3, <2>1 DEF WritePit, Aborts
      <3>2. mem' \in Storage /\ mem'.pit = "new" /\ mem'.blklen = NewBlklen
            /\ mem'.gpt = mem.gpt /\ mem'.fs_size = mem.fs_size
        BY <3>1
      <3>3. pc = "pit" /\ disk' = disk
            /\ UNCHANGED <<device, image_size, trouble>>
        BY <1>3, <2>1 DEF WritePit, Goto, Aborts
      <3> QED
        BY <2>1, <3>2, <3>3
    <2>2. CASE pc' = "aborted"
      <3>1. \/ UNCHANGED mem
            \/ mem' = [mem EXCEPT !.pit = "torn"]
            \/ mem' = [mem EXCEPT !.pit = "new", !.blklen = NewBlklen]
        BY <1>3, <2>2 DEF WritePit, Goto
      <3>2. /\ mem' \in Storage /\ mem'.fs_size = mem.fs_size
            /\ mem'.pit = "old" => mem'.blklen = OldBlklen
            /\ mem'.pit = "new" => mem'.blklen = NewBlklen
        BY <3>1
      <3>3. disk' = disk /\ trouble' \in 0..MaxTrouble
            /\ UNCHANGED <<device, image_size>>
        BY <1>3, <1>a, <2>2 DEF WritePit, Goto
      <3> QED
        BY <2>2, <3>2, <3>3
    <2> QED
      BY <1>3, <2>1, <2>2 DEF WritePit, Goto, Aborts
  <1>4. CASE WriteXloader
    <2>1. xloader_offset(device) >= 0 =>
              get_xloader_offset(device) >= 0 /\ xloader_offset(device) \in Int
      BY OffsetIsInt, OffsetIsLayout DEF xloader_offset
    <2>2. TornLoader \in Int
      BY DEF TornLoader
    <2> QED
      BY <1>4, <2>1, <2>2 DEF WriteXloader, Goto, Aborts
  <1>5. CASE WriteSbl
    BY <1>5 DEF WriteSbl, Goto, Aborts
  <1>6. CASE FsSizeFix
    <2>1. CASE mem.fs_size = BAD_SIZE /\ pc' = "done"
      <3>1. /\ mem' = [mem EXCEPT !.fs_size = GOOD_SIZE]
            /\ disk' = [disk EXCEPT !.fs_size = GOOD_SIZE]
            /\ pc = "footer" /\ UNCHANGED <<device, image_size, trouble>>
        BY <1>6, <1>a, <2>1 DEF FsSizeFix, Goto
      <3>2. /\ mem' \in Storage /\ mem'.pit = mem.pit /\ mem'.blklen = mem.blklen
            /\ mem'.gpt = mem.gpt /\ mem'.xloader = mem.xloader /\ mem'.sbl = mem.sbl
            /\ mem'.fs_size = GOOD_SIZE
        BY <1>0, <3>1
      <3>3. /\ disk' \in Storage /\ disk'.pit = disk.pit /\ disk'.blklen = disk.blklen
            /\ disk'.fs_size = GOOD_SIZE
        BY <1>0, <3>1
      <3> QED
        BY <1>0, <2>1, <3>1, <3>2, <3>3
    <2>2. CASE mem.fs_size # BAD_SIZE /\ pc' = "done"
      <3>1. UNCHANGED <<mem, disk, device, image_size, trouble>> /\ pc = "footer"
        BY <1>6, <1>a, <2>2 DEF FsSizeFix, Goto
      <3> QED
        BY <2>2, <3>1
    <2>3. CASE Aborts /\ UNCHANGED <<mem, disk>>
      BY <1>a, <2>3
    <2> QED
      BY <1>6, <2>1, <2>2, <2>3 DEF FsSizeFix, Goto
  <1>7. CASE Finish
    BY <1>7 DEF Finish, Goto
  <1>8. CASE Restart
    BY <1>8 DEF Restart, Goto
  <1>9. CASE LosePower
    <2> PICK s \in Survivors :
          /\ trouble < MaxTrouble
          /\ trouble' = trouble + 1
          /\ disk' = s /\ mem' = s
          /\ pc' = IF Boots(s) THEN "start" ELSE "bricked"
          /\ UNCHANGED <<device, image_size>>
      BY <1>9 DEF LosePower
    <2>1. s \in Storage
      BY DEF Survivors, Left, TornLoader
    <2>2. /\ s.pit = "old" => s.blklen = OldBlklen
          /\ s.pit = "new" => s.blklen = NewBlklen
          /\ s.fs_size \in {disk.fs_size, mem.fs_size}
      BY DEF Survivors
    <2>3. pc' \in {"start", "bricked"}
      OBVIOUS
    <2> QED
      BY <2>1, <2>2, <2>3
  <1>10. CASE UNCHANGED vars
    BY <1>10 DEF vars
  <1> QED
    BY <1>1, <1>2, <1>3, <1>4, <1>5, <1>6, <1>7, <1>8, <1>9, <1>10 DEF Next

\* IInv is an invariant of the update with its failures and losses of power.
THEOREM Invariant == Spec => []IInv
  BY InitIInv, NextIInv, PTL DEF Spec

-----------------------------------------------------------------------------
\* Every variable has its type, and a partition table the length it came with.
THEOREM TypeCorrect == Spec => []TypeOK
  <1>1. IInv => TypeOK
    BY DEF IInv
  <1> QED
    BY <1>1, Invariant, PTL

\* An update that has returned "t" is complete, whatever came before it.
THEOREM CompleteWhenDone == Spec => []DoneIsComplete
  <1>1. IInv => DoneIsComplete
    BY OffsetIsLayout
       DEF IInv, Progress, DoneIsComplete, AfterPit, AfterXloader, AfterSbl
  <1> QED
    BY <1>1, Invariant, PTL

\* An encrypted userdata can be mapped after fs_size_fix, also after a loss of
\* power.
THEOREM FooterFitsTable == Spec => []FooterFits
  <1>1. IInv => FooterFits
    BY NewBlklenIsGood, SizesAreNumbers, OneSectorLess
       DEF IInv, TypeOK, Progress, FooterSizes, FooterFits, AfterPit, Storage, GOOD_SIZE,
           BAD_SIZE
  <1> QED
    BY <1>1, Invariant, PTL

=============================================================================
