---------------------------- MODULE UploadSession ----------------------------
(***************************************************************************)
(* The posts as firmware_update.c sees them, by the three calls that       *)
(* http_post.c makes: firmware_update_application_start, do_work with each *)
(* segment of the body, and firmware_update_application_finish.  It is the *)
(* order of calls that FirmwareUpdate and SrecUpload take for granted.     *)
(*                                                                         *)
(*   upload   "open" between start and finish; "left" when the connection  *)
(*            was reset in between, and nobody called finish;              *)
(*   rest     the segments of the body that are still to come.             *)
(***************************************************************************)
EXTENDS Integers

CONSTANTS MaxSegments, Resets

VARIABLES upload, rest

vars == <<upload, rest>>

Init == upload = "none" /\ rest = 0

(* A body is recognised as an upload, and n segments of it are to come. *)
Start(n) ==
  /\ upload # "open"
  /\ upload' = "open" /\ rest' = n

(* The recognised segment is the last one: start, do_work and finish.  *)
StartLast ==
  /\ upload # "open"
  /\ upload' = "none" /\ rest' = 0

(* do_work with at least one segment, which is not the last one. *)
Data ==
  /\ upload = "open"
  /\ rest' \in 1 .. rest - 1
  /\ UNCHANGED upload

(* finish, after the last segment or when the connection ends early. *)
Finish ==
  /\ upload = "open"
  /\ upload' = "none" /\ rest' = 0

(* The connection is reset. *)
Abort ==
  /\ Resets
  /\ upload = "open"
  /\ upload' = "left" /\ rest' = 0

Next ==
  \/ \E n \in 1 .. MaxSegments : Start(n)
  \/ StartLast
  \/ Data
  \/ Finish
  \/ Abort

Spec == Init /\ [][Next]_vars
=============================================================================
