---- MODULE MCMacbTransmit ----
(* A small ring for TLC: see README.md, Bounds. *)
EXTENDS MacbTransmit

(* One to three buffers, from one or two pbufs. *)
MCChains == {<<1>>, <<3>>, <<1, 4>>}
====
