----------------------------- MODULE MCRegistry -----------------------------
(***************************************************************************)
(* Tables for TLC.  The layout of the kernel, made small: sector 0 has no  *)
(* key, u1 stands for the keys of the update, each alone in its sector;    *)
(* i1, i2 and i3 for "IP Address 1" to "4" (slots 80 to 83 of one sector); *)
(* t for "Task 1 Frequency".  i2 is given the home of i1, so that there is *)
(* a collision, as the keys an application adds may have one.              *)
(***************************************************************************)
EXTENDS Registry, TLC

CONSTANTS u1, i1, i2, i3, t

KernelHome == (u1 :> 6) @@ (i1 :> 8) @@ (i2 :> 8) @@ (i3 :> 11) @@ (t :> 13)
KernelDefault == [k \in Keys |-> IF k \in UpdateKeys THEN 0 ELSE 1]

Update == <<u1>>
Kernel == <<u1, i1, i2, i3>>
Task == <<t>>

(* Without the collision. *)
PlainHome == (u1 :> 6) @@ (i1 :> 8) @@ (i2 :> 9) @@ (i3 :> 10) @@ (t :> 13)
=============================================================================
