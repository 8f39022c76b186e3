---------------------------- MODULE MacbTransmit -----------------------------
(***************************************************************************)
(* The transmit side of avr32webboot's network interface: a packet, a      *)
(* chain of pbufs, is copied by low_level_output and lMACBSend into the    *)
(* ring of transmit buffers, the MACB sends it, and its interrupt gives    *)
(* the buffers back.                                                       *)
(*                                                                         *)
(* Filling a buffer is a critical section.  The interrupt of a frame that  *)
(* was sent is served before the thread that fills the ring goes on: it    *)
(* looks whether the next buffer is free with interrupts on.  Lengths are  *)
(* counted in units, and a buffer holds the units of packet id from "from" *)
(* on.                                                                     *)
(* The MACB does not wait for a whole packet: one that still runs takes    *)
(* the first buffers of a packet that is being copied, and breaks the      *)
(* frame off when it has used them up.                                     *)
(***************************************************************************)
EXTENDS Integers, Sequences, FiniteSets

CONSTANTS
  NbTx,        (* ETHERNET_CONF_NB_TX_BUFFERS                              *)
  BufferSize,  (* ETHERNET_CONF_TX_BUFFER_SIZE                             *)
  Chains,      (* The packets: lengths of their pbufs.                     *)
  Faults       (* "late": interrupts may be off so long that the MACB      *)
               (* finishes two frames before its interrupt is served.      *)

ASSUME MacbTransmitAssumption ==
  /\ NbTx \in Nat \ {0} /\ BufferSize \in Nat \ {0}
  /\ \A chain \in Chains : chain \in Seq(Nat \ {0}) /\ chain # << >>
  /\ Faults \subseteq {"late"}

VARIABLES
  desc,    (* xTxDescriptors, with what is in their buffers.               *)
  index,   (* uxTxBufferIndex                                              *)
  clear,   (* uxNextBufferToClear                                          *)
  packet,  (* The packet that is being copied.                             *)
  mac,     (* The MACB: whether it was started, and where it sends from.   *)
  tcomp,   (* Whether it asks for the interrupt of a frame that was sent.  *)
  line     (* History: the packets copied whole and not sent yet.          *)

vars == <<desc, index, clear, packet, mac, tcomp, line>>

Slots == 0 .. NbTx - 1
(* Mutant of After: the ring does not wrap. *)
After_NoWrap(i) == i + 1
After(i) == (i + 1) % NbTx

(* From i on, around the ring, up to j. *)
Between(i, j) == {k \in Slots : (k - i) % NbTx <= (j - i) % NbTx}

None == [id |-> 0, chain |-> << >>, pbuf |-> 1, from |-> 0, read |-> 0]
Ids == 1 .. NbTx + 2

TypeOK ==
  /\ DOMAIN desc = Slots
  /\ \A i \in Slots : /\ desc[i].ok \in BOOLEAN /\ desc[i].last \in BOOLEAN
                      /\ desc[i].id \in Ids \cup {0}
                      /\ desc[i].len \in 0 .. BufferSize
  /\ index \in Slots /\ clear \in Slots
  /\ packet.id \in Ids \cup {0}
  /\ mac.at \in Slots /\ mac.on \in BOOLEAN
  /\ tcomp \in BOOLEAN

-----------------------------------------------------------------------------
(* low_level_output and lMACBSend *)

Fresh == CHOOSE id \in Ids : /\ \A i \in Slots : desc[i].id # id
                             /\ \A k \in 1 .. Len(line) : line[k] # id

(* A packet comes from the stack. *)
Output ==
  /\ packet = None
  /\ \E chain \in Chains : packet' = [None EXCEPT !.id = Fresh, !.chain = chain]
  /\ UNCHANGED <<desc, index, clear, mac, tcomp, line>>

(* What the next buffer takes of the pbuf at hand. *)
Share ==
  LET rest == packet.chain[packet.pbuf] - packet.from
  IN IF rest <= BufferSize THEN rest ELSE BufferSize
PbufDone == packet.from + Share >= packet.chain[packet.pbuf]
LastShare == packet.pbuf = Len(packet.chain) /\ PbufDone

(* Mutant of MacbSend: it is not looked whether the buffer is free. *)
MacbSend_Unchecked ==
  /\ packet # None /\ ~tcomp
  /\ desc' = [desc EXCEPT ![index] =
       [ok |-> FALSE, last |-> LastShare, id |-> packet.id, from |-> packet.read,
        len |-> Share]]
  /\ index' = After(index)
  /\ packet' = IF LastShare THEN None
               ELSE [packet EXCEPT !.read = @ + Share,
                                   !.pbuf = IF PbufDone THEN @ + 1 ELSE @,
                                   !.from = IF PbufDone THEN 0 ELSE @ + Share]
  /\ mac' = IF LastShare THEN [mac EXCEPT !.on = TRUE] ELSE mac
  /\ line' = IF LastShare THEN Append(line, packet.id) ELSE line
  /\ UNCHANGED <<clear, tcomp>>

(* The next buffer is filled once it is free; the last one starts the MACB.*)
MacbSend ==
  /\ packet # None /\ ~tcomp
  /\ desc[index].ok
  /\ desc' = [desc EXCEPT ![index] =
       [ok |-> FALSE, last |-> LastShare, id |-> packet.id, from |-> packet.read,
        len |-> Share]]
  /\ index' = After(index)
  /\ packet' = IF LastShare THEN None
               ELSE [packet EXCEPT !.read = @ + Share,
                                   !.pbuf = IF PbufDone THEN @ + 1 ELSE @,
                                   !.from = IF PbufDone THEN 0 ELSE @ + Share]
  /\ mac' = IF LastShare THEN [mac EXCEPT !.on = TRUE] ELSE mac
  /\ line' = IF LastShare THEN Append(line, packet.id) ELSE line
  /\ UNCHANGED <<clear, tcomp>>

(* It waits a short while, then tries again. *)
Wait ==
  /\ packet # None /\ ~desc[index].ok
  /\ UNCHANGED vars

-----------------------------------------------------------------------------
(* The MACB.  It sends the frames in the ring until it comes to a buffer   *)
(* that is marked, and marks the first buffer of each one it has sent.     *)

(* The last buffer of the frame that begins in buffer i, if there is one.  *)
Ends(i) == {j \in Slots : /\ desc[j].last
                          /\ \A k \in Between(i, j) \ {j} : ~desc[k].last}
End(i) == CHOOSE j \in Ends(i) : TRUE

(* No buffer from i to the end of the frame is marked. *)
Whole(i) == \E j \in Ends(i) : \A k \in Between(i, j) : ~desc[k].ok

Transmit ==
  /\ mac.on
  /\ Whole(mac.at)
  /\ "late" \in Faults \/ ~tcomp
  /\ desc' = [desc EXCEPT ![mac.at].ok = TRUE]
  /\ mac' = [mac EXCEPT !.at = After(End(mac.at))]
  /\ tcomp' = TRUE
  /\ line' = SubSeq(line, 2, Len(line))
  /\ UNCHANGED <<index, clear, packet>>

(* It comes to a marked buffer in mid frame, since the packet is not yet   *)
(* copied whole: the frame is broken off and begins again from its first   *)
(* buffer when the MACB is started.                                        *)
Exhaust ==
  /\ mac.on
  /\ ~desc[mac.at].ok /\ ~Whole(mac.at)
  /\ mac' = [mac EXCEPT !.on = FALSE]
  /\ UNCHANGED <<desc, index, clear, packet, tcomp, line>>

Halt ==
  /\ mac.on
  /\ desc[mac.at].ok
  /\ mac' = [mac EXCEPT !.on = FALSE]
  /\ UNCHANGED <<desc, index, clear, packet, tcomp, line>>

-----------------------------------------------------------------------------
(* vClearMACBTxBuffer, from the interrupt: if the frame at hand was sent   *)
(* its other buffers are marked too.                                       *)
ClearedUpTo(j) ==
  [i \in Slots |-> IF i \in Between(clear, j) THEN [desc[i] EXCEPT !.ok = TRUE]
                   ELSE desc[i]]

(* Mutant of Interrupt: the other buffers of the frame are not marked.     *)
Interrupt_FirstOnly ==
  /\ tcomp
  /\ tcomp' = FALSE
  /\ IF desc[clear].ok
     THEN \E j \in Ends(clear) : desc' = desc /\ clear' = After(j)
     ELSE UNCHANGED <<desc, clear>>
  /\ UNCHANGED <<index, packet, mac, line>>

(* Mutant of Interrupt: the next frame is looked for after its first       *)
(* buffer.                                                                 *)
Interrupt_NextBuffer ==
  /\ tcomp
  /\ tcomp' = FALSE
  /\ IF desc[clear].ok
     THEN \E j \in Ends(clear) : desc' = ClearedUpTo(j) /\ clear' = After(clear)
     ELSE UNCHANGED <<desc, clear>>
  /\ UNCHANGED <<index, packet, mac, line>>

Interrupt ==
  /\ tcomp
  /\ tcomp' = FALSE
  /\ IF desc[clear].ok
     THEN \E j \in Ends(clear) : desc' = ClearedUpTo(j) /\ clear' = After(j)
     ELSE UNCHANGED <<desc, clear>>
  /\ UNCHANGED <<index, packet, mac, line>>

-----------------------------------------------------------------------------
Init ==
  /\ desc = [i \in Slots |-> [ok |-> TRUE, last |-> FALSE, id |-> 0, from |-> 0,
                              len |-> 0]]
  /\ index = 0 /\ clear = 0
  /\ packet = None
  /\ mac = [at |-> 0, on |-> FALSE]
  /\ tcomp = FALSE
  /\ line = << >>

Next == Output \/ MacbSend \/ Wait \/ Transmit \/ Exhaust \/ Halt \/ Interrupt

Spec == Init /\ [][Next]_vars

(* The thread of the stack tries again after each delay, the MACB sends    *)
(* and its interrupt is served; packets need not come.                     *)
FairSpec ==
  Spec /\ WF_vars(MacbSend) /\ WF_vars(Transmit) /\ WF_vars(Interrupt)

-----------------------------------------------------------------------------
(* As long as packets wait to be sent the MACB runs, and the frame it      *)
(* comes to next is the oldest of them, whole and in order, also when it   *)
(* took up the first buffers too early and broke the frame off before:     *)
(* nothing is overwritten before it was sent (macb.c:219-301).  It rests   *)
(* on an interrupt for each frame: with "late" it is not so.               *)
SentWhole ==
  line # << >> =>
    /\ mac.on /\ Ends(mac.at) # {}
    /\ LET j == End(mac.at) IN
       \A k \in Between(mac.at, j) :
         /\ ~desc[k].ok /\ desc[k].id = Head(line)
         /\ IF k = mac.at THEN desc[k].from = 0
            ELSE \A m \in Between(mac.at, j) :
                   After(m) = k => desc[k].from = desc[m].from + desc[m].len

(* Buffer i holds a part of a packet that was not sent yet. *)
Unsent(i) == \/ \E n \in 1 .. Len(line) : desc[i].id = line[n]
             \/ packet # None /\ desc[i].id = packet.id

(* No buffer is given back before what it holds was sent, and once the     *)
(* interrupt of a frame was served, every buffer that holds nothing unsent *)
(* is free ("This marks all the buffers as available again", macb.c:573-   *)
(* 575).  So the ring never loses a buffer, whatever else is in it.  It    *)
(* rests on an interrupt for each frame: with "late" it is not so.         *)
BuffersReturn ==
  \A i \in Slots : /\ Unsent(i) => ~desc[i].ok
                   /\ ~Unsent(i) /\ ~tcomp => desc[i].ok

(* Every packet gets into the ring: the thread of the stack does not wait  *)
(* for ever (macb.c:231-241).  It rests on packets that fit into the ring, *)
(* on an interrupt for each frame (not "late") and on a MACB that sends    *)
(* what it was started for.                                                *)
PacketsGoOut == packet # None ~> packet = None
=============================================================================
