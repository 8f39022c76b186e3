---------------------------- MODULE TcpipTimers -----------------------------
(***************************************************************************)
(* The TCP/IP thread of avr32webboot, in which the web server and the      *)
(* timers of the stack run: it waits for messages in its mailbox no longer *)
(* than until the next timer is due (timers.c, tcpip.c, sys_arch.c).       *)
(*                                                                         *)
(* The timers are a list of which each entry holds the time after the one  *)
(* before it.  Time passes by ticks of one millisecond (FreeRTOSConfig.h), *)
(* at any moment, and the thread learns of it only from what the wait for  *)
(* a message returns.  Handlers and messages may take time, and so may the *)
(* scheduler before the thread runs when it could.                         *)
(***************************************************************************)
EXTENDS Integers, Sequences, FiniteSets

CONSTANTS
  Tcp,        (* tcpip_tcp_timer, which runs while there are connections.  *)
  Periodic,   (* The timers that always run: arp_timer, ip_reass_timer ... *)
  Interval,   (* The time after which each is due.                         *)
  TickMax,    (* portMAX_DELAY: the tick counter wraps after it.           *)
  Timeouts,   (* MEMP_NUM_SYS_TIMEOUT                                      *)
  MboxSize,   (* TCPIP_MBOX_SIZE                                           *)
  MaxBusy     (* Bound: ticks that pass while a timer is in the list and   *)
              (* the thread is busy or kept from running.                  *)

Timers == Periodic \cup {Tcp}

ASSUME TimersAssumption ==
  /\ Tcp \notin Periodic /\ Periodic # {} /\ IsFiniteSet(Periodic)
  /\ Interval \in [Timers -> Nat \ {0}]
  /\ TickMax \in Nat /\ \A h \in Timers : Interval[h] <= TickMax
  /\ Timeouts \in Nat /\ Cardinality(Timers) <= Timeouts
  /\ MboxSize \in Nat \ {0} /\ MaxBusy \in Nat

VARIABLES
  tick,    (* The tick counter of FreeRTOS.                                *)
  list,    (* next_timeout and what follows it.                            *)
  mbox,    (* How many messages are in the mailbox.                        *)
  thread,  (* What the thread does: init, before it is made, then fetch,   *)
           (* wait, handler, message; the timer whose handler it runs,     *)
           (* when its wait began and how many ticks are left of it.       *)
  active,  (* tcpip_tcp_timer_active                                       *)
  pcbs,    (* Whether there are connections, open or in time-wait.         *)
  age,     (* History: ticks since each timer was set.                     *)
  late     (* History: those of them that the thread did not wait through, *)
           (* or was not told of.                                          *)

vars == <<tick, list, mbox, thread, active, pcbs, age, late>>

Doing(pc, h) == [pc |-> pc, h |-> h, start |-> 0, left |-> 0]

TypeOK ==
  /\ tick \in 0 .. TickMax
  /\ Len(list) <= Timeouts
  /\ \A i \in DOMAIN list : list[i].h \in Timers /\ list[i].time \in Nat
  /\ mbox \in 0 .. MboxSize
  /\ thread.pc \in {"init", "fetch", "wait", "handler", "message"} /\ thread.h \in Timers
  /\ thread.start \in 0 .. TickMax /\ thread.left \in 0 .. TickMax
  /\ thread.pc = "fetch" => list # << >>
  /\ active \in BOOLEAN /\ pcbs \in BOOLEAN
  /\ age \in [Timers -> Nat] /\ late \in [Timers -> Nat]

-----------------------------------------------------------------------------
(* The list *)

Listed(l) == {l[i].h : i \in DOMAIN l}

(* When the i-th timer of a list is due, from the time the list counts     *)
(* from; 0 for i = 0.                                                      *)
Due(l) ==
  LET due[i \in 0 .. Len(l)] == IF i = 0 THEN 0 ELSE due[i - 1] + l[i].time
  IN due

(* Mutant of Inserted: the next timer keeps its time after the one before. *)
Inserted_NextKept(l, h) ==
  LET due == Due(l)
      k == Cardinality({i \in DOMAIN l : due[i] <= Interval[h]})
      new == [h |-> h, time |-> Interval[h] - due[k]]
  IN SubSeq(l, 1, k) \o <<new>> \o SubSeq(l, k + 1, Len(l))

(* A timer goes behind those that are due no later than it is.             *)
Inserted(l, h) ==
  LET due == Due(l)
      k == Cardinality({i \in DOMAIN l : due[i] <= Interval[h]})
      new == [h |-> h, time |-> Interval[h] - due[k]]
      after == [i \in 1 .. Len(l) - k |->
                  IF i = 1 THEN [l[k + 1] EXCEPT !.time = @ - new.time] ELSE l[k + i]]
  IN SubSeq(l, 1, k) \o <<new>> \o after

(* sys_timeout: without an entry in the pool the timer is not set. *)
SysTimeout(h) ==
  IF Len(list) < Timeouts
  THEN /\ list' = Inserted(list, h)
       /\ age' = [age EXCEPT ![h] = 0]
       /\ late' = [late EXCEPT ![h] = 0]
  ELSE UNCHANGED <<list, age, late>>

NoTimeout == UNCHANGED <<list, age, late>>

(* sys_timeouts_init sets the timers that always run, in some order; then  *)
(* the mailbox and the thread are made.                                    *)
SysTimeoutsInit ==
  /\ thread.pc = "init"
  /\ \E h \in Periodic \ Listed(list) :
       /\ SysTimeout(h)
       /\ thread' = IF Periodic \ Listed(list) = {h} THEN Doing("fetch", Tcp) ELSE thread
  /\ UNCHANGED <<tick, mbox, active, pcbs>>

-----------------------------------------------------------------------------
(* sys_timeouts_mbox_fetch and sys_arch_mbox_fetch *)

Remaining(l) == Head(l).time

Run(h) ==
  /\ thread' = Doing("handler", h)
  /\ list' = Tail(list)

(* The next timer is due at once. *)
FetchExpired ==
  /\ thread.pc = "fetch" /\ Remaining(list) = 0
  /\ Run(Head(list).h)
  /\ UNCHANGED <<tick, mbox, active, pcbs, age, late>>

(* The thread waits for a message, until the next timer is due at most. *)
FetchWait ==
  /\ thread.pc = "fetch" /\ Remaining(list) > 0
  /\ thread' = [Doing("wait", Tcp) EXCEPT !.start = tick, !.left = Remaining(list)]
  /\ UNCHANGED <<tick, list, mbox, active, pcbs, age, late>>

(* The wait has ended without a message; the handler of the timer runs.    *)
TimedOut ==
  /\ thread.pc = "wait" /\ mbox = 0 /\ thread.left = 0
  /\ Run(Head(list).h)
  /\ UNCHANGED <<tick, mbox, active, pcbs, age, late>>

(* How long the wait took, by the tick counter: what sys_arch.c computes.  *)
Wrapped == tick < thread.start
Elapsed ==
  IF ~Wrapped THEN tick - thread.start ELSE TickMax - thread.start + tick

(* Mutant of Received: more than is left may be taken off. *)
Received_Unclamped ==
  /\ thread.pc = "wait" /\ mbox > 0
  /\ mbox' = mbox - 1
  /\ list' = [list EXCEPT ![1].time = @ - Elapsed]
  /\ thread' = Doing("message", Tcp)
  /\ UNCHANGED <<tick, active, pcbs, age, late>>

(* A message came, maybe after the wait should have ended: it is looked    *)
(* for before the time.  What the wait took is taken off the first timer.  *)
Received ==
  /\ thread.pc = "wait" /\ mbox > 0
  /\ mbox' = mbox - 1
  /\ list' = [list EXCEPT ![1].time = IF Elapsed < @ THEN @ - Elapsed ELSE 0]
  /\ thread' = Doing("message", Tcp)
  /\ late' = IF Wrapped
             THEN [h \in Timers |-> IF h \in Listed(list) THEN late[h] + 1 ELSE late[h]]
             ELSE late
  /\ UNCHANGED <<tick, active, pcbs, age>>

-----------------------------------------------------------------------------
(* What the thread runs *)

(* A timer that always runs sets itself again when it is done. *)
PeriodicTimer ==
  /\ thread.pc = "handler" /\ thread.h \in Periodic
  /\ SysTimeout(thread.h)
  /\ thread' = Doing("fetch", Tcp)
  /\ UNCHANGED <<tick, mbox, active, pcbs>>

(* Mutant of TcpTimer: the timer ends without a note of it. *)
TcpTimer_StaysActive ==
  /\ thread.pc = "handler" /\ thread.h = Tcp
  /\ pcbs' \in {pcbs, FALSE}
  /\ IF pcbs' THEN SysTimeout(Tcp) ELSE NoTimeout
  /\ thread' = Doing("fetch", Tcp)
  /\ UNCHANGED <<tick, mbox, active>>

(* tcpip_tcp_timer: tcp_tmr may end the last connection, and then the      *)
(* timer is not set again.                                                 *)
TcpTimer ==
  /\ thread.pc = "handler" /\ thread.h = Tcp
  /\ pcbs' \in {pcbs, FALSE}
  /\ IF pcbs' THEN SysTimeout(Tcp) /\ UNCHANGED active
     ELSE NoTimeout /\ active' = FALSE
  /\ thread' = Doing("fetch", Tcp)
  /\ UNCHANGED <<tick, mbox>>

(* A packet may open a connection, which calls tcp_timer_needed, or end    *)
(* the last one.                                                           *)
Message ==
  /\ thread.pc = "message"
  /\ pcbs' \in BOOLEAN
  /\ IF pcbs' /\ ~active THEN active' = TRUE /\ SysTimeout(Tcp)
     ELSE NoTimeout /\ UNCHANGED active
  /\ thread' = Doing("fetch", Tcp)
  /\ UNCHANGED <<tick, mbox>>

-----------------------------------------------------------------------------
(* tcpip_input, from the input task of the interface. *)
Post ==
  /\ thread.pc # "init" /\ mbox < MboxSize
  /\ mbox' = mbox + 1
  /\ UNCHANGED <<tick, list, thread, active, pcbs, age, late>>

Waiting == thread.pc = "wait" /\ thread.left > 0

Passes(lost) ==
  /\ tick' = (tick + 1) % (TickMax + 1)
  /\ age' = [h \in Timers |-> IF h \in Listed(list) THEN age[h] + 1 ELSE age[h]]
  /\ late' = [h \in Timers |-> IF h \in Listed(list) THEN late[h] + lost ELSE late[h]]
  /\ UNCHANGED <<list, mbox, active, pcbs>>

(* A tick while the thread waits, or while it does not. *)
TickWaiting ==
  /\ Waiting
  /\ Passes(0)
  /\ thread' = [thread EXCEPT !.left = @ - 1]

TickBusy ==
  /\ ~Waiting
  /\ \A h \in Listed(list) : late[h] < MaxBusy
  /\ Passes(1)
  /\ UNCHANGED thread

-----------------------------------------------------------------------------
Init ==
  /\ tick \in 0 .. TickMax
  /\ list = << >>
  /\ mbox = 0
  /\ thread = Doing("init", Tcp)
  /\ active = FALSE /\ pcbs = FALSE
  /\ age = [h \in Timers |-> 0] /\ late = [h \in Timers |-> 0]

Thread ==
  \/ SysTimeoutsInit \/ FetchExpired \/ FetchWait \/ TimedOut \/ Received
  \/ PeriodicTimer \/ TcpTimer \/ Message

Next == Thread \/ Post \/ TickWaiting \/ TickBusy

Spec == Init /\ [][Next]_vars

(* The thread gets the processor, and time passes while it waits.  Nothing *)
(* is assumed of the messages.                                             *)
FairSpec == Spec /\ WF_vars(Thread) /\ WF_vars(TickWaiting)

-----------------------------------------------------------------------------
(* A handler never runs before its time, and not later than the ticks that *)
(* passed while the thread was busy, and one for each wrap of the counter  *)
(* that it waited across: whatever messages come and whatever timers are   *)
(* set meanwhile, the times in the list add up (timers.c:260-289, 411-462, *)
(* sys_arch.c:347-363).                                                    *)
OnTime ==
  thread.pc = "handler" =>
    age[thread.h] \in Interval[thread.h] .. Interval[thread.h] + late[thread.h]

(* Each timer that should run is in the list, once: connections never      *)
(* start a second TCP timer, nor are they left without one (timers.c:80-   *)
(* 108).                                                                   *)
TimersListed ==
  LET running == IF thread.pc = "handler" THEN {thread.h} ELSE {}
      expected == IF active THEN Timers ELSE Periodic
  IN
  /\ thread.pc # "init" => Listed(list) = expected \ running
  /\ Listed(list) \cup running \subseteq expected
  /\ Cardinality(Listed(list)) = Len(list)
  /\ pcbs => active

(* Messages end, or the thread waits again and again through a tick that   *)
(* its clock shows, one at which the counter does not wrap.                *)
QuietEnough ==
  <>[][~Received]_vars \/ []<><<TickWaiting /\ tick # TickMax>>_vars

(* If the network is quiet enough, every timer that should run does so     *)
(* again and again.  The code promises no more: with a message in the      *)
(* mailbox whenever the thread looks, a timer that is due does not run     *)
(* (timers.c:435).                                                         *)
TimersRun ==
  QuietEnough =>
    /\ \A h \in Periodic : []<>(thread.pc = "handler" /\ thread.h = h)
    /\ pcbs ~> (~pcbs \/ (thread.pc = "handler" /\ thread.h = Tcp))
=============================================================================
