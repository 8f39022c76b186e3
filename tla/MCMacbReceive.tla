---- MODULE MCMacbReceive ----
(* A small ring for TLC: see README.md, Bounds. *)
EXTENDS MacbReceive
====
