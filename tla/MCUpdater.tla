----------------------------- MODULE MCUpdater -----------------------------
(***************************************************************************)
(* Updater for TLC: a device of each specification and images at the       *)
(* limit of update_bootloader().                                           *)
(***************************************************************************)
EXTENDS Updater

MCDevices == [family : {"OMAP4460", "OMAP4430", "unknown"}, type : {"HS", "EMU"},
              msv : {"prod", "eng", "unreadable"}]

MCImageSizes == {SBL_OFFSET - 1, SBL_OFFSET, SBL_OFFSET + BOOT_PART_LEN}

=============================================================================
