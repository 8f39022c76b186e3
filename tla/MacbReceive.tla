----------------------------- MODULE MacbReceive -----------------------------
(***************************************************************************)
(* The receive side of avr32webboot's network interface: the ring of       *)
(* buffers that the MACB fills and macb.c empties, its interrupt, and the  *)
(* input task of ethernetif.c, which copies a frame into pbufs and hands   *)
(* it to the stack.                                                        *)
(*                                                                         *)
(* The MACB may act between any two accesses of the task to a descriptor.  *)
(* Lengths are counted in units, so that a buffer and a pbuf hold few; a   *)
(* frame is named after the buffer it begins in and the MACB's lap through *)
(* the ring, odd or even, and the k-th unit of frame id is <<id, k>>.      *)
(***************************************************************************)
EXTENDS Integers, Sequences

CONSTANTS
  NbRx,        (* ETHERNET_CONF_NB_RX_BUFFERS                              *)
  BufferSize,  (* RX_BUFFER_SIZE                                           *)
  PbufSize,    (* PBUF_POOL_BUFSIZE                                        *)
  Pool,        (* PBUF_POOL_SIZE                                           *)
  Lengths,     (* Lengths of frames.                                       *)
  Faults       (* What may happen on the line: "fragment", a frame breaks  *)
               (* off after some of its buffers were written.              *)

Needed(n, size) == (n + size - 1) \div size

ASSUME RingAssumption ==
  /\ NbRx \in Nat \ {0, 1}
  /\ BufferSize \in Nat \ {0} /\ PbufSize \in Nat \ {0} /\ Pool \in Nat
  /\ Lengths \subseteq Nat \ {0}
  /\ \A n \in Lengths : /\ 2 * Needed(n, BufferSize) <= NbRx
                        /\ Needed(n, PbufSize) <= Pool

VARIABLES
  desc,   (* xRxDescriptors, with what is in their buffers                 *)
  mac,    (* The MACB: the descriptor it writes next, and the frame that   *)
          (* comes in.                                                     *)
  bna,    (* The buffer-not-available bit of its status register.          *)
  irq,    (* Whether it asks for the receive interrupt.                    *)
  sem,    (* xSemaphore, which the interrupt gives                         *)
  next,   (* ulNextRxBuffer                                                *)
  task,   (* The input task: what it does, and its local variables.        *)
  held,   (* How many pbufs of frames the stack has.                       *)
  line    (* History: the frames in the ring that came in whole, in order. *)

ring == <<desc, mac, bna>>
vars == <<desc, mac, bna, irq, sem, next, task, held, line>>

Slots == 0 .. NbRx - 1
After(i) == (i + 1) % NbRx

Ids == 1 .. 2 * NbRx   (* 0 is no frame. *)
Silent == [mac EXCEPT !.id = 0, !.len = 0, !.got = 0]
Unused == [own |-> FALSE, sof |-> FALSE, len |-> 0, id |-> 0, part |-> 0]

(* The task between frames, in vMACBWaitForInput or about to look for one. *)
At(pc) ==
  [pc |-> pc, i |-> 0, to |-> 0, len |-> 0, data |-> << >>, section |-> 0, pos |-> 0]

(* The chain that low_level_input has allocated and not handed on.         *)
Chain == IF task.pc \in {"read", "deliver"} THEN Needed(task.len, PbufSize) ELSE 0
FreePbufs == Pool - held - Chain

TypeOK ==
  /\ desc \in [Slots -> [own : BOOLEAN, sof : BOOLEAN, len : Lengths \cup {0},
                         id : Ids \cup {0}, part : Nat]]
  /\ mac.at \in Slots /\ mac.lap \in 0 .. 1 /\ mac.id \in Ids \cup {0} /\ mac.len \in Lengths \cup {0}
  /\ mac.got \in 0 .. NbRx
  /\ bna \in BOOLEAN /\ irq \in BOOLEAN /\ sem \in BOOLEAN
  /\ next \in Slots
  /\ task.pc \in {"input", "skip", "walk", "peek", "drop", "alloc", "read",
                  "deliver", "wait"}
  /\ task.i \in Slots /\ task.to \in Slots /\ task.len \in Lengths \cup {0}
  /\ task.pos \in 0 .. BufferSize - 1 /\ task.section \in 0 .. PbufSize - 1
  /\ Len(task.data) <= task.len
  /\ held \in Nat /\ FreePbufs \in 0 .. Pool

-----------------------------------------------------------------------------
(* The MACB.  It writes a frame buffer by buffer: the first one is marked, *)
(* the last one gets the length, and both are then the software's.         *)

Wrapped(i) == IF After(i) = 0 THEN 1 - mac.lap ELSE mac.lap

Receive(frame) ==
  LET i == mac.at
      last == frame.got + 1 = Needed(frame.len, BufferSize)
  IN
  /\ ~desc[i].own
  /\ desc' = [desc EXCEPT ![i] =
       [own |-> TRUE, sof |-> frame.got = 0, len |-> IF last THEN frame.len ELSE 0,
        id |-> frame.id, part |-> frame.got]]
  /\ mac' = IF last THEN [Silent EXCEPT !.at = After(i), !.lap = Wrapped(i)]
            ELSE [frame EXCEPT !.at = After(i), !.lap = Wrapped(i), !.got = @ + 1]
  /\ line' = IF last THEN Append(line, frame.id) ELSE line
  /\ irq' = (irq \/ last)
  /\ UNCHANGED <<bna, sem, next, task, held>>

FrameStarts ==
  /\ mac.id = 0
  /\ \E n \in Lengths :
       Receive([mac EXCEPT !.id = 1 + mac.at + mac.lap * NbRx, !.len = n])

FrameGoesOn == mac.id # 0 /\ Receive(mac)

(* No buffer is free: the frame, or the rest of it, is lost. *)
NoBuffer ==
  /\ desc[mac.at].own
  /\ bna' = TRUE
  /\ mac' = Silent
  /\ UNCHANGED <<desc, irq, sem, next, task, held, line>>

(* A frame breaks off; the buffer it was to go on in is used for the next. *)
BreaksOff ==
  /\ "fragment" \in Faults
  /\ mac.id # 0
  /\ mac' = Silent
  /\ UNCHANGED <<desc, bna, irq, sem, next, task, held, line>>

-----------------------------------------------------------------------------
(* prvMACB_ISR_NonNakedBehaviour *)
Interrupt ==
  /\ irq
  /\ irq' = FALSE
  /\ sem' = TRUE
  /\ UNCHANGED <<ring, next, task, held, line>>

-----------------------------------------------------------------------------
(* ulMACBInputLength *)

(* What is in a buffer that was given back is not known any more. *)
Freed(i) == [desc EXCEPT ![i] = Unused]
Quiet == <<mac, bna, irq, sem, held, line>>

(* Mutant of ResetMacbRxFrames: the software goes on where it was. *)
ResetMacbRxFrames_NextKept ==
  /\ task.pc = "input" /\ bna
  /\ desc' = [i \in Slots |-> Unused]
  /\ mac' = [Silent EXCEPT !.at = 0, !.lap = 0]
  /\ bna' = FALSE
  /\ line' = << >>
  /\ task' = At("wait")
  /\ UNCHANGED <<irq, sem, next, held>>

(* vResetMacbRxFrames, with reception turned off meanwhile. *)
ResetMacbRxFrames ==
  /\ task.pc = "input" /\ bna
  /\ desc' = [i \in Slots |-> Unused]
  /\ mac' = [Silent EXCEPT !.at = 0, !.lap = 0]
  /\ bna' = FALSE
  /\ next' = 0
  /\ line' = << >>
  /\ task' = At("wait")
  /\ UNCHANGED <<irq, sem, held>>

InputLength ==
  /\ task.pc = "input" /\ ~bna
  /\ task' = At("skip")
  /\ UNCHANGED <<ring, irq, sem, next, held, line>>

(* The loop that skips buffers that begin no frame is left at once: see    *)
(* RingAgrees.                                                             *)
SkipFragments ==
  /\ task.pc = "skip"
  /\ task' = [At("walk") EXCEPT !.i = next]
  /\ UNCHANGED <<ring, irq, sem, next, held, line>>

(* A turn of the walk: no frame, the end of one, or on to the next buffer. *)
Walk ==
  /\ task.pc = "walk"
  /\ task' = IF ~desc[task.i].own THEN At("wait")
             ELSE IF desc[task.i].len # 0
             THEN [At("alloc") EXCEPT !.len = desc[task.i].len]
             ELSE [task EXCEPT !.pc = "peek", !.i = After(@)]
  /\ UNCHANGED <<ring, irq, sem, next, held, line>>

(* The frame has not come in yet; or another one starts here, so that it   *)
(* never will, and its buffers are given back one by one.                  *)
Peek ==
  /\ task.pc = "peek"
  /\ task' = IF ~desc[task.i].own THEN At("wait")
             ELSE IF desc[task.i].sof
             THEN [task EXCEPT !.pc = "drop", !.i = next, !.to = task.i]
             ELSE [task EXCEPT !.pc = "walk"]
  /\ UNCHANGED <<ring, irq, sem, next, held, line>>

DropFaulty ==
  /\ task.pc = "drop"
  /\ desc' = Freed(task.i)
  /\ IF After(task.i) = task.to
     THEN /\ task' = [At("walk") EXCEPT !.i = task.to]
          /\ next' = task.to
     ELSE /\ task' = [task EXCEPT !.i = After(@)]
          /\ UNCHANGED next
  /\ UNCHANGED Quiet

-----------------------------------------------------------------------------
(* low_level_input and vMACBRead *)

(* Mutant of AllocatePbufs: the result is not looked at. *)
AllocatePbufs_Unchecked ==
  /\ task.pc = "alloc"
  /\ task' = [At("read") EXCEPT !.len = task.len]
  /\ UNCHANGED <<ring, irq, sem, next, held, line>>

(* Without enough pbufs the frame stays where it is.  The length that the  *)
(* task then has while it waits is history.                                *)
AllocatePbufs ==
  /\ task.pc = "alloc"
  /\ task' = IF Needed(task.len, PbufSize) <= FreePbufs
             THEN [At("read") EXCEPT !.len = task.len]
             ELSE [At("wait") EXCEPT !.len = task.len]
  /\ UNCHANGED <<ring, irq, sem, next, held, line>>

Read == Len(task.data)   (* ulFrameBytesReadSoFar *)

(* What is still to be read into the pbuf at hand, and in the buffer.      *)
InSection ==
  LET k == IF task.len - Read + task.section < PbufSize
           THEN task.len - Read + task.section ELSE PbufSize
  IN k - task.section
InBuffer == BufferSize - task.pos

Copied(n) ==
  task.data \o [k \in 1 .. n |->
    <<desc[next].id, desc[next].part * BufferSize + task.pos + k>>]

(* The next pbuf when the one at hand is full. *)
SectionAfter(n) == IF n = InSection THEN 0 ELSE task.section + n
PcAfter(n) == IF Read + n = task.len THEN "deliver" ELSE "read"

(* The buffer is used up, with or without the pbuf. *)
BufferDone(n) ==
  /\ desc' = Freed(next)
  /\ next' = After(next)
  /\ task' = [task EXCEPT !.pc = PcAfter(n), !.data = Copied(n),
                          !.section = SectionAfter(n), !.pos = 0]

(* Mutant of SectionDone: the position is not kept between two pbufs. *)
SectionDone_FromStart(n) ==
  /\ task' = [task EXCEPT !.pc = PcAfter(n), !.data = Copied(n),
                          !.section = SectionAfter(n), !.pos = 0]
  /\ UNCHANGED <<desc, next>>

(* The pbuf is full; the buffer is not used up. *)
SectionDone(n) ==
  /\ task' = [task EXCEPT !.pc = PcAfter(n), !.data = Copied(n),
                          !.section = SectionAfter(n), !.pos = @ + n]
  /\ UNCHANGED <<desc, next>>

(* A turn of the loop of vMACBRead. *)
MacbRead ==
  /\ task.pc = "read"
  /\ IF InSection > InBuffer THEN BufferDone(InBuffer)
     ELSE IF task.pos + InSection >= BufferSize \/ Read + InSection >= task.len
     THEN BufferDone(InSection)
     ELSE SectionDone(InSection)
  /\ UNCHANGED Quiet

-----------------------------------------------------------------------------
(* ethernetif_input *)

(* Mutant of Deliver: the task waits for an interrupt after each frame. *)
Deliver_ThenWaits ==
  /\ task.pc = "deliver"
  /\ held' \in {held, held + Chain}
  /\ task' = At("wait")
  /\ line' = Tail(line)
  /\ UNCHANGED <<ring, irq, sem, next>>

(* The frame goes to the stack, or its pbufs are freed when the mailbox of *)
(* the stack is full; then the next one is looked for.                     *)
Deliver ==
  /\ task.pc = "deliver"
  /\ held' \in {held, held + Chain}
  /\ task' = At("input")
  /\ line' = Tail(line)
  /\ UNCHANGED <<ring, irq, sem, next>>

(* vMACBWaitForInput: the task goes on when the semaphore is given, and in *)
(* any case after a while.                                                 *)
Woken ==
  /\ task.pc = "wait" /\ sem
  /\ sem' = FALSE
  /\ task' = At("input")
  /\ UNCHANGED <<ring, irq, next, held, line>>

(* Mutant of TimedOut: the wait has no end. *)
TimedOut_Never ==
  /\ task.pc = "wait" /\ sem
  /\ task' = At("input")
  /\ UNCHANGED <<ring, irq, sem, next, held, line>>

TimedOut ==
  /\ task.pc = "wait" /\ ~sem
  /\ task' = At("input")
  /\ UNCHANGED <<ring, irq, sem, next, held, line>>

(* The stack frees a pbuf that it got; it may as well keep it for ever. *)
StackFrees ==
  /\ held > 0
  /\ held' = held - 1
  /\ UNCHANGED <<ring, irq, sem, next, task, line>>

-----------------------------------------------------------------------------
Init ==
  /\ desc = [i \in Slots |-> Unused]
  /\ mac = [at |-> 0, lap |-> 0, id |-> 0, len |-> 0, got |-> 0]
  /\ bna = FALSE /\ irq = FALSE /\ sem = FALSE
  /\ next = 0
  /\ task = At("input")
  /\ held = 0
  /\ line = << >>

Macb == FrameStarts \/ FrameGoesOn \/ NoBuffer \/ BreaksOff

InputTask ==
  \/ ResetMacbRxFrames \/ InputLength \/ SkipFragments \/ Walk \/ Peek \/ DropFaulty
  \/ AllocatePbufs \/ MacbRead \/ Deliver

Next == Macb \/ Interrupt \/ InputTask \/ Woken \/ TimedOut \/ StackFrees

Spec == Init /\ [][Next]_vars

(* The input task has the processor whenever it is ready, and the          *)
(* interrupt is served.  Line and stack promise nothing: http_post.c:147   *)
(* and httpd.c:2353 keep pbufs.                                            *)
FairSpec ==
  Spec /\ WF_vars(Interrupt) /\ WF_vars(InputTask) /\ WF_vars(Woken \/ TimedOut)

-----------------------------------------------------------------------------
(* What is handed to the stack is the oldest frame in the ring, all of it  *)
(* and nothing else, however it lies in the buffers and whatever broke off *)
(* before it (macb.c:304-477, ethernetif.c:253-286).                       *)
FrameWhole ==
  task.pc = "deliver" =>
    /\ line # << >>
    /\ task.data = [k \in 1 .. task.len |-> <<Head(line), k>>]

(* Software and MACB agree where the ring begins and ends: the buffers of  *)
(* the software are those from where it reads up to where the MACB writes, *)
(* also after a reset of the ring; and where it looks for a frame one      *)
(* begins, whatever broke off before, so that the body of the loop at      *)
(* macb.c:324-335 is never needed.                                         *)
Behind == IF task.pc = "drop" THEN task.i ELSE next
RingAgrees ==
  LET count == (mac.at - Behind) % NbRx IN
  /\ \A i \in Slots :
       desc[i].own <=> (i - Behind) % NbRx < count \/ (count = 0 /\ desc[Behind].own)
  /\ task.pc \notin {"read", "drop"} /\ desc[next].own => desc[next].sof

(* The task does not wait while a whole frame is in the ring and nothing   *)
(* is going to wake it at once, unless there was no pbuf for it: no order  *)
(* of interrupts and of the task's look at the ring loses a wake-up        *)
(* (macb.c:304-371, 883, 968-981).                                         *)
NoSleepOnFrame ==
  task.pc = "wait" /\ task.len = 0 /\ ~sem /\ ~irq => line = << >>

(* low_level_input looks for pbufs and the stack holds too many of them.   *)
Starved == task.pc = "alloc" /\ Needed(task.len, PbufSize) > Pool - held

(* The ring does not stop by itself: again and again it is empty, a frame  *)
(* is handed on, the ring is reset, or the stack has the pbufs that the    *)
(* oldest frame needs.  So a frame that found no pbuf leaves later if the  *)
(* stack gives them back in time, and stays, with nothing received any     *)
(* more, only if at every look the stack has too many (ethernetif.c:287).  *)
FramesLeave ==
  []<>(line = << >> \/ task.pc = "deliver" \/ (task.pc = "input" /\ bna) \/ Starved)
=============================================================================
