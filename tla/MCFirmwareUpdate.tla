-------------------------- MODULE MCFirmwareUpdate --------------------------
(***************************************************************************)
(* Two images for FirmwareUpdate: Old fills three positions, New has a gap *)
(* and ends one position before a page does; pages of two positions.       *)
(***************************************************************************)
EXTENDS FirmwareUpdate, TLC

CONSTANTS Old, New

MCImages == {Old, New}
MCData == Old :> {0, 1, 2} @@ New :> {0, 2, 3, 4}
MCLen == Old :> 3 @@ New :> 5
=============================================================================
