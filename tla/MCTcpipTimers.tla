---- MODULE MCTcpipTimers ----
(* Three timers with short intervals for TLC: see README.md, Bounds. *)
EXTENDS TcpipTimers

(* The TCP timer is the shortest, as in the code; the others meet it and   *)
(* each other.                                                             *)
MCInterval == [t \in Timers |-> IF t = Tcp THEN 2 ELSE IF t = "arp" THEN 4 ELSE 3]
====
