----------------------------- MODULE TrialUpdate -----------------------------
(***************************************************************************)
(* What the firmware update promises (README.md of the repository, "Keep   *)
(* or reject the new firmware image as you like - if you don't press       *)
(* "Apply Settings" the previous firmware image will be automatically      *)
(* restored upon reset"), with nothing of how it is done:                  *)
(*                                                                         *)
(*   running   the image that runs, None between a reset and a start;      *)
(*   next      the image that the next start runs;                         *)
(*   after     the image that the start after the next one runs.           *)
(*                                                                         *)
(* next = after = running is a device with a confirmed image; after        *)
(* Stage(x) the next start is a trial of x; the start after it is back at  *)
(* the image that staged x, unless Keep confirms x while it runs.          *)
(***************************************************************************)
CONSTANTS Images, None

VARIABLES running, next, after

vars == <<running, next, after>>

Init ==
  /\ running = None
  /\ next \in Images
  /\ after = next

(* A complete file for x was received and the running image is backed up.  *)
Stage(x) ==
  /\ running \in Images
  /\ next = running /\ after = running
  /\ next' = x
  /\ UNCHANGED <<running, after>>

Keep ==
  /\ running \in Images
  /\ next' = running /\ after' = running
  /\ UNCHANGED running

Stop ==
  /\ running' = None
  /\ UNCHANGED <<next, after>>

Start ==
  /\ running = None
  /\ running' = next
  /\ next' = after
  /\ UNCHANGED after

Next ==
  \/ \E x \in Images : Stage(x)
  \/ Keep
  \/ Stop
  \/ Start

Spec == Init /\ [][Next]_vars
=============================================================================
