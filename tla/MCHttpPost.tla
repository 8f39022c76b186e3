----------------------------- MODULE MCHttpPost -----------------------------
(***************************************************************************)
(* Clients for TLC: a browser posts on c1 and gets pages on c2.            *)
(***************************************************************************)
EXTENDS HttpPost, TLC

CONSTANTS c1, c2

OnePoster == (c1 :> Kind) @@ (c2 :> {})
=============================================================================
