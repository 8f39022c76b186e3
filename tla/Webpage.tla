------------------------------- MODULE Webpage -------------------------------
(***************************************************************************)
(* The page of avr32webboot: how http_send_data_ssi of httpd.c finds the   *)
(* tags of index.shtml and sends what the handlers of ssi_handlers.c put   *)
(* in their place, row by row, and the start of the server and of the tags *)
(* by ethernet_task.                                                       *)
(*                                                                         *)
(* A call of http_send is made of steps, one for each turn of its loop:    *)
(* `run` is the call in progress.  The callbacks of the server run in one  *)
(* thread, so that only ethernet_task comes in between.  A unit is what    *)
(* tcp_write takes at least: a token of the page, or a part of an insert.  *)
(***************************************************************************)
EXTENDS Integers, Sequences

CONSTANTS
  Conns,      (* MEMP_NUM_TCP_PCB                                          *)
  File,       (* index.shtml, as a sequence of tokens.                     *)
  LeadIn,     (* g_pcTagLeadIn                                             *)
  LeadOut,    (* g_pcTagLeadOut                                            *)
  White,      (* White space.                                              *)
  MaxName,    (* LWIP_HTTPD_MAX_TAG_NAME_LEN                               *)
  Tables,     (* The tags whose handlers send an array row by row.         *)
  Texts,      (* The other tags that have a handler.                       *)
  RowCounts,  (* Rows that a table may have: tasks, keys of the registry.  *)
  InsertLen,  (* Units of an insert.                                       *)
  SndBuf,     (* TCP_SND_BUF, in units.                                    *)
  MaxRetries, (* HTTPD_MAX_RETRIES                                         *)
  Blocks,     (* Arrays that fit into the heap.                            *)
  Faults      (* What may happen: "cut", the client closes or resets a     *)
              (* connection; "overlap", a page is asked for while another  *)
              (* one is being sent.                                        *)

ASSUME PageAssumption ==
  /\ File \in Seq({File[k] : k \in DOMAIN File}) /\ Len(File) > 0
  /\ Len(LeadIn) \in Nat \ {0} /\ Len(LeadOut) \in Nat \ {0, 1}
  /\ LeadOut[1] \notin White
  /\ MaxName \in Nat
  /\ Tables \cap Texts = {}
  /\ {"free", "lost"} \cap Conns = {}
  /\ RowCounts \subseteq Nat \ {0}
  /\ InsertLen \in Nat \ {0}
  /\ SndBuf \in Nat \ {0}
  /\ MaxRetries \in Nat \ {0}
  /\ Blocks \in Nat

VARIABLES
  boot,     (* What ethernet_task has done: see Start.                     *)
  conn,     (* The http_state and http_ssi_state of each connection.       *)
  run,      (* The call of http_send in progress, or Idle.                 *)
  array,    (* The static pointer of each table's handler, 0 when null ... *)
  number,   (* ... and the rows it stands for.                             *)
  owner,    (* owner[b]: whose page block b of the heap is allocated for;  *)
            (* "free"; or "lost", when that page's connection is gone.     *)
  out       (* History: the units written for each page.                   *)

vars == <<boot, conn, run, array, number, owner, out>>

LAST == -1    (* HTTPD_LAST_TAG_PART *)
Idle == [at |-> "idle"]
Block == 1 .. Blocks

(* The tag states of httpd.c; "PLAIN" is a page without an ssi state.      *)
TagState == {"NONE", "LEADIN", "FOUND", "LEADOUT", "SENDING", "PLAIN"}

(* What an insert is: a row of a block, a text, or an unknown tag's.       *)
Row(t, b, p, last) ==
  [kind |-> "row", tag |-> t, block |-> b, part |-> p, last |-> last]
Text(name, kind) ==
  [kind |-> kind, tag |-> name, block |-> 0, part |-> 0, last |-> TRUE]

(* A page: file and parsed count what is sent and parsed of File, index is *)
(* tag_index, end tag_end, insert tag_insert, part tag_part, unacked what  *)
(* the client has not acknowledged.                                        *)
Closed ==
  [open |-> FALSE, file |-> 0, parsed |-> 0, state |-> "NONE", index |-> 0,
   end |-> 0, name |-> << >>, insert |-> << >>, part |-> LAST,
   retries |-> 0, unacked |-> 0]

TypeOK ==
  /\ boot \in 0 .. 4
  /\ \A c \in Conns :
       LET hs == conn[c] IN
       /\ hs.open \in BOOLEAN /\ hs.state \in TagState
       /\ hs.file \in 0 .. Len(File) /\ hs.parsed \in 0 .. Len(File)
       /\ hs.state # "PLAIN" => hs.file <= hs.parsed
       /\ hs.end \in 0 .. Len(File)
       /\ hs.index \in Nat /\ hs.part \in Nat \cup {LAST}
       /\ Len(hs.name) <= MaxName
       /\ hs.retries \in 0 .. MaxRetries - 1 /\ hs.unacked \in 0 .. SndBuf
  /\ array \in [Tables -> 0 .. Blocks]
  /\ number \in [Tables -> Nat]
  /\ owner \in [Block -> Conns \cup {"free", "lost"}]

-----------------------------------------------------------------------------
(* ssi_handlers.c *)

(* Blocks that malloc may return.  The heap is taken to be large enough: a *)
(* lost block that no pointer leads to stands for one never used.          *)
Available == {b \in Block : \/ owner[b] = "free"
                            \/ owner[b] = "lost" /\ \A t \in Tables : array[t] # b}

(* The first part of a table allocates its array and fills it. *)
Allocated(c, t) ==
  {[array |-> [array EXCEPT ![t] = b], number |-> [number EXCEPT ![t] = n],
    owner |-> [owner EXCEPT ![b] = c]] : b \in Available, n \in RowCounts}

Unallocated == {[array |-> array, number |-> number, owner |-> owner]}

(* Mutant of Last: one row too many is read. *)
Last_OneMore(heap, t, p) == p + 1 > heap.number[t]

Last(heap, t, p) == p + 1 >= heap.number[t]

(* A row.  The last one frees the array; there is no next part then. *)
Shown(heap, t, p) ==
  LET b == heap.array[t] IN
  [array |-> heap.array, number |-> heap.number,
   owner |-> IF Last(heap, t, p) THEN [heap.owner EXCEPT ![b] = "free"]
             ELSE heap.owner,
   insert |-> Row(t, b, p, Last(heap, t, p)),
   part |-> IF Last(heap, t, p) THEN LAST ELSE p + 1]

TableRow(c, t, p) ==
  {Shown(heap, t, p) : heap \in IF p = 0 THEN Allocated(c, t) ELSE Unallocated}

(* ssi_init sets three variables one after the other. *)
HandlersSet == boot = 4

(* get_tag_insert: tag_part is LAST unless the handler sets it. *)
TagInsert(c, name, p) ==
  IF HandlersSet /\ name \in Tables THEN TableRow(c, name, p)
  ELSE {[array |-> array, number |-> number, owner |-> owner, part |-> LAST,
         insert |-> Text(name, IF HandlersSet /\ name \in Texts
                               THEN "text" ELSE "unknown")]}

-----------------------------------------------------------------------------
(* http_send *)

Least(m, n) == IF m < n THEN m ELSE n
Space(hs) == SndBuf - hs.unacked

Step(c, hs, at, len, written) ==
  /\ conn' = [conn EXCEPT ![c] = hs]
  /\ run' = [at |-> at, c |-> c, len |-> len, failed |-> run.failed]
  /\ out' = [out EXCEPT ![c] = @ \o written]

(* A write that fails for want of memory or of space ends the loop. *)
Failed(c, hs, at) ==
  /\ conn' = [conn EXCEPT ![c] = hs]
  /\ run' = [at |-> at, c |-> c, len |-> 0, failed |-> TRUE]
  /\ UNCHANGED out

(* Mutant of Taken: the space in the send buffer is not looked at. *)
Taken_AnyLength(hs, n) == 1 .. n

(* http_write of n units: tcp_write takes some of them, or none. *)
Taken(hs, n) == 1 .. Least(n, Space(hs))

FileUnits(hs, m) == [k \in 1 .. m |-> [of |-> "page", at |-> hs.file + k]]
InsertUnits(hs, m) ==
  [k \in 1 .. m |->
     [of |-> "insert", insert |-> hs.insert, at |-> hs.index + k]]

WriteFile(c, hs, n) ==
  \/ \E m \in Taken(hs, n) :
       Step(c, [hs EXCEPT !.file = @ + m, !.unacked = @ + m], "loop", m,
            FileUnits(hs, m))
  \/ Failed(c, hs, "end")

WriteInsert(c, hs, n) ==
  \/ \E m \in Taken(hs, n) :
       Step(c, [hs EXCEPT !.index = @ + m, !.unacked = @ + m], "loop", m,
            InsertUnits(hs, m))
  \/ Failed(c, hs, "end")

Heaps == <<array, number, owner>>

(* Mutant of SendParsed: without anything to send no length is set. *)
SendParsed_NoLength ==
  /\ run.at = "begin"
  /\ LET c == run.c
         hs == conn[c]
         left == IF hs.state = "PLAIN" THEN Len(File) - hs.file
                 ELSE hs.parsed - hs.file
         where(m) == IF hs.state = "PLAIN" \/ m = Space(hs)
                     THEN "return" ELSE "loop"
     IN
     \/ left = 0 /\ Step(c, hs, "loop", 0, << >>)
     \/ left > 0 /\ Space(hs) = 0 /\ Step(c, hs, "return", 0, << >>)
     \/ /\ left > 0
        /\ \E m \in Taken(hs, left) :
             Step(c, [hs EXCEPT !.file = @ + m, !.unacked = @ + m], where(m), m,
                  FileUnits(hs, m))
     \/ left > 0 /\ Space(hs) > 0
        /\ Failed(c, hs, IF hs.state = "PLAIN" THEN "return" ELSE "end")
  /\ UNCHANGED <<boot, Heaps>>

(* What was parsed is sent first; no more is done if that fills the buffer. *)
SendParsed ==
  /\ run.at = "begin"
  /\ LET c == run.c
         hs == conn[c]
         left == IF hs.state = "PLAIN" THEN Len(File) - hs.file
                 ELSE hs.parsed - hs.file
         where(m) == IF hs.state = "PLAIN" \/ m = Space(hs)
                     THEN "return" ELSE "loop"
     IN
     \/ left = 0 /\ Step(c, hs, "loop", Space(hs), << >>)
     \/ left > 0 /\ Space(hs) = 0 /\ Step(c, hs, "return", 0, << >>)
     \/ /\ left > 0
        /\ \E m \in Taken(hs, left) :
             Step(c, [hs EXCEPT !.file = @ + m, !.unacked = @ + m], where(m), m,
                  FileUnits(hs, m))
     \/ left > 0 /\ Space(hs) > 0
        /\ Failed(c, hs, IF hs.state = "PLAIN" THEN "return" ELSE "end")
  /\ UNCHANGED <<boot, Heaps>>

(* A turn of the loop over the characters, in a state of the tag parser. *)
Turn(state) ==
  /\ run.at = "loop" /\ run.len > 0
  /\ conn[run.c].state = state
  /\ conn[run.c].parsed < Len(File)

Char == File[conn[run.c].parsed + 1]
OneParsed == [conn[run.c] EXCEPT !.parsed = @ + 1]

Scan(hs) ==
  /\ Step(run.c, hs, "loop", run.len, << >>)
  /\ UNCHANGED <<boot, Heaps>>

TagNone ==
  /\ Turn("NONE")
  /\ Scan(IF Char = LeadIn[1]
          THEN [OneParsed EXCEPT !.state = "LEADIN", !.index = 1] ELSE OneParsed)

(* Mutant of TagLeadin: a token is lost when the lead-in is complete. *)
TagLeadin_Consumes ==
  /\ Turn("LEADIN")
  /\ LET i == conn[run.c].index IN
     Scan(IF i = Len(LeadIn)
          THEN [OneParsed EXCEPT !.state = "FOUND", !.index = 0, !.name = << >>]
          ELSE IF Char = LeadIn[i + 1] THEN [OneParsed EXCEPT !.index = @ + 1]
          ELSE [OneParsed EXCEPT !.state = "NONE"])

TagLeadin ==
  /\ Turn("LEADIN")
  /\ LET i == conn[run.c].index IN
     Scan(IF i = Len(LeadIn)
          THEN [conn[run.c] EXCEPT !.state = "FOUND", !.index = 0, !.name = << >>]
          ELSE IF Char = LeadIn[i + 1] THEN [OneParsed EXCEPT !.index = @ + 1]
          ELSE [OneParsed EXCEPT !.state = "NONE"])

(* The name of the tag: it ends with the lead-out or with white space, and *)
(* is ignored when it is empty or too long.                                *)
TagFound ==
  /\ Turn("FOUND")
  /\ LET i == conn[run.c].index IN
     Scan(IF i = 0 /\ Char \in White THEN OneParsed
          ELSE IF Char = LeadOut[1] \/ Char \in White
          THEN IF i = 0 THEN [OneParsed EXCEPT !.state = "NONE"]
               ELSE [OneParsed EXCEPT !.state = "LEADOUT",
                                      !.index = IF Char = LeadOut[1] THEN 1 ELSE 0]
          ELSE IF i < MaxName
          THEN [OneParsed EXCEPT !.name = Append(@, Char), !.index = @ + 1]
          ELSE [OneParsed EXCEPT !.state = "NONE"])

TagLeadout ==
  /\ Turn("LEADOUT")
  /\ LET i == conn[run.c].index IN
     /\ ~(Char = LeadOut[i + 1] /\ i = Len(LeadOut) - 1)
     /\ Scan(IF i = 0 /\ Char \in White THEN OneParsed
             ELSE IF Char = LeadOut[i + 1] THEN [OneParsed EXCEPT !.index = @ + 1]
             ELSE [OneParsed EXCEPT !.state = "NONE"])

(* The tag is complete: its first insert is asked for, and what comes      *)
(* before its end is sent.                                                 *)
TagComplete ==
  /\ Turn("LEADOUT")
  /\ LET c == run.c
         i == conn[c].index
     IN
     /\ Char = LeadOut[i + 1] /\ i = Len(LeadOut) - 1
     /\ \E r \in TagInsert(c, conn[c].name, 0) :
          LET hs == [OneParsed EXCEPT !.state = "SENDING", !.index = 0,
                                      !.end = conn[c].parsed + 1,
                                      !.insert = r.insert, !.part = r.part]
          IN /\ WriteFile(c, hs, Least(run.len, hs.end - hs.file))
             /\ array' = r.array /\ number' = r.number /\ owner' = r.owner
  /\ UNCHANGED boot

(* What is left of the page up to the end of the tag ... *)
SendBefore ==
  /\ Turn("SENDING")
  /\ LET hs == conn[run.c] IN
     /\ hs.end > hs.file
     /\ WriteFile(run.c, hs, Least(run.len, hs.end - hs.file))
  /\ UNCHANGED <<boot, Heaps>>

(* ... the rest of the insert ... *)
SendInsert ==
  /\ Turn("SENDING")
  /\ LET hs == conn[run.c] IN
     /\ hs.end <= hs.file /\ hs.index < InsertLen
     /\ WriteInsert(run.c, hs, Least(run.len, InsertLen - hs.index))
  /\ UNCHANGED <<boot, Heaps>>

(* ... the next insert, when there is one ... *)
NextInsert ==
  /\ Turn("SENDING")
  /\ LET c == run.c
         hs == conn[c]
     IN
     /\ hs.end <= hs.file /\ hs.index >= InsertLen /\ hs.part # LAST
     /\ \E r \in TagInsert(c, hs.name, hs.part) :
          /\ WriteInsert(c, [hs EXCEPT !.index = 0, !.insert = r.insert,
                                       !.part = r.part],
                         Least(run.len, InsertLen))
          /\ array' = r.array /\ number' = r.number /\ owner' = r.owner
  /\ UNCHANGED boot

(* ... and back to the page. *)
TagSent ==
  /\ Turn("SENDING")
  /\ LET hs == conn[run.c] IN
     /\ hs.end <= hs.file /\ hs.index >= InsertLen /\ hs.part = LAST
     /\ Scan([hs EXCEPT !.state = "NONE", !.index = 0])

LoopEnd ==
  /\ run.at = "loop"
  /\ \/ run.len = 0 /\ Step(run.c, conn[run.c], "return", 0, << >>)
     \/ /\ run.len > 0 /\ conn[run.c].parsed = Len(File)
        /\ Step(run.c, conn[run.c], "end", 0, << >>)
  /\ UNCHANGED <<boot, Heaps>>

(* After the loop what was parsed is sent. *)
SendRest ==
  /\ run.at = "end"
  /\ LET c == run.c
         hs == conn[c]
         n == Least(Space(hs), hs.parsed - hs.file)
     IN
     \/ (hs.state = "SENDING" \/ n = 0) /\ Step(c, hs, "return", 0, << >>)
     \/ /\ hs.state # "SENDING" /\ n > 0
        /\ \/ \E m \in Taken(hs, n) :
                Step(c, [hs EXCEPT !.file = @ + m, !.unacked = @ + m], "return",
                     m, FileUnits(hs, m))
           \/ Failed(c, hs, "return")
  /\ UNCHANGED <<boot, Heaps>>

(* A connection that is closed frees its state, but no array. *)
CloseConn(c) ==
  /\ conn' = [conn EXCEPT ![c] = Closed]
  /\ owner' = [b \in Block |-> IF owner[b] = c THEN "lost" ELSE owner[b]]
  /\ out' = [out EXCEPT ![c] = << >>]

(* Mutant of SendDone: a page is closed when one unit of it is left. *)
SendDone_OneLeft ==
  /\ run.at = "return"
  /\ run' = Idle
  /\ IF conn[run.c].file + 1 >= Len(File)
     THEN CloseConn(run.c)
     ELSE UNCHANGED <<conn, owner, out>>
  /\ UNCHANGED <<boot, array, number>>

(* http_send returns; a page that is sent is closed. *)
SendDone ==
  /\ run.at = "return"
  /\ run' = Idle
  /\ IF conn[run.c].file = Len(File)
     THEN CloseConn(run.c)
     ELSE UNCHANGED <<conn, owner, out>>
  /\ UNCHANGED <<boot, array, number>>

-----------------------------------------------------------------------------
(* ethernet_task: httpd_init, and the three variables of ssi_init.  It has *)
(* a lower priority than the thread of the server.                         *)
Start ==
  /\ boot < 4
  /\ boot' = boot + 1
  /\ UNCHANGED <<conn, run, Heaps, out>>

Call(c, hs) ==
  /\ run = Idle
  /\ conn' = [conn EXCEPT ![c] = hs]
  /\ run' = [at |-> "begin", c |-> c, len |-> 0, failed |-> FALSE]

(* A request, or the answer to a post.  Without memory for the ssi state   *)
(* the page is sent as it is in the file.                                  *)
Request(c) ==
  /\ boot > 0
  /\ ~conn[c].open
  /\ "overlap" \in Faults \/ \A d \in Conns : ~conn[d].open
  /\ \E state \in {"NONE", "PLAIN"} :
       Call(c, [Closed EXCEPT !.open = TRUE, !.state = state])
  /\ UNCHANGED <<boot, Heaps, out>>

(* The client acknowledges what it got, up to what is left. *)
Sent(c) ==
  /\ conn[c].open
  /\ \E k \in 0 .. conn[c].unacked - 1 :
       Call(c, [conn[c] EXCEPT !.unacked = k, !.retries = 0])
  /\ UNCHANGED <<boot, Heaps, out>>

(* Mutant of Poll: the retries are not counted. *)
Poll_NotCounted(c) ==
  /\ conn[c].open /\ conn[c].retries + 1 < MaxRetries
  /\ Call(c, conn[c])
  /\ UNCHANGED <<boot, Heaps, out>>

(* http_poll *)
Poll(c) ==
  /\ conn[c].open /\ conn[c].retries + 1 < MaxRetries
  /\ Call(c, [conn[c] EXCEPT !.retries = @ + 1])
  /\ UNCHANGED <<boot, Heaps, out>>

GiveUp(c) ==
  /\ run = Idle
  /\ conn[c].open /\ conn[c].retries + 1 = MaxRetries
  /\ CloseConn(c)
  /\ UNCHANGED <<boot, run, array, number>>

(* The client closes the connection, or resets it. *)
Cut(c) ==
  /\ "cut" \in Faults
  /\ run = Idle
  /\ conn[c].open
  /\ CloseConn(c)
  /\ UNCHANGED <<boot, run, array, number>>

-----------------------------------------------------------------------------
Init ==
  /\ boot = 0
  /\ conn = [c \in Conns |-> Closed]
  /\ run = Idle
  /\ array = [t \in Tables |-> 0]
  /\ number = [t \in Tables |-> 0]
  /\ owner = [b \in Block |-> "free"]
  /\ out = [c \in Conns |-> << >>]

Parse == TagNone \/ TagLeadin \/ TagFound \/ TagLeadout \/ TagComplete
Sending == SendBefore \/ SendInsert \/ NextInsert \/ TagSent
HttpSend == SendParsed \/ Parse \/ Sending \/ LoopEnd \/ SendRest \/ SendDone

Callback(c) == Request(c) \/ Sent(c) \/ Poll(c) \/ GiveUp(c) \/ Cut(c)

Next == Start \/ HttpSend \/ \E c \in Conns : Callback(c)

Spec == Init /\ [][Next]_vars

(* The thread of the server runs; the timer of lwIP polls.  Nothing is     *)
(* assumed of the client.                                                  *)
FairSpec ==
  /\ Spec
  /\ WF_vars(HttpSend)
  /\ \A c \in Conns : WF_vars(Poll(c)) /\ WF_vars(GiveUp(c))

-----------------------------------------------------------------------------
(* How far the page is read: the tokens before a place. *)
Place == 0 .. Len(File)

Stands(s, p) == \A i \in 1 .. Len(s) : p + i <= Len(File) /\ File[p + i] = s[i]

(* What is from p to x is a tag, or the beginning of one: the lead-in,     *)
(* white space up to n, a name up to m, white space up to j, and as much   *)
(* of the lead-out as there is up to x.                                    *)
Begun(p, n, m, j, x) ==
  /\ p + Len(LeadIn) <= n /\ n <= m /\ m <= j /\ j <= x /\ x <= Len(File)
  /\ Stands(LeadIn, p)
  /\ \A t \in p + Len(LeadIn) + 1 .. n : File[t] \in White
  /\ \A t \in n + 1 .. m : File[t] \notin White \cup {LeadOut[1]}
  /\ m - n <= MaxName /\ (m = n => x = n)
  /\ \A t \in m + 1 .. j : File[t] \in White
  /\ x - j <= Len(LeadOut) /\ \A t \in 1 .. x - j : File[j + t] = LeadOut[t]

(* Where a tag ends.  The lead-out also ends the comments of the page. *)
TagEnds == {k \in Place : \E p, n, m \in Place : Begun(p, n, m, k - Len(LeadOut), k)}
TagEnd(k) == k \in TagEnds

(* The lead-in of a tag stands neither in a tag that is not complete nor   *)
(* after the first tokens of a lead-in, where the parser, which does not   *)
(* go back, would miss it; and the page does not end with a tag.           *)
ASSUME TagsApart ==
  /\ \A p \in Place : Stands(LeadIn, p) =>
       /\ \A q, n, m, j \in Place :
            q < p /\ Begun(q, n, m, j, p) => p = j + Len(LeadOut)
       /\ \A i \in 1 .. Len(LeadIn) - 1 :
            i <= p => \E t \in 1 .. i : File[p - i + t] # LeadIn[t]
  /\ ~TagEnd(Len(File))

(* What may follow a unit of a page, sent with its tags.                   *)
Follows(u, v) ==
  IF u.of = "page"
  THEN IF v.of = "page" THEN v.at = u.at + 1 /\ ~TagEnd(u.at)
       ELSE TagEnd(u.at) /\ v.at = 1 /\ v.insert.part = 0
  ELSE IF v.of = "page" THEN u.at = InsertLen /\ u.insert.last /\ TagEnd(v.at - 1)
  ELSE IF v.insert = u.insert THEN v.at = u.at + 1
  ELSE /\ u.at = InsertLen /\ ~u.insert.last /\ v.at = 1
       /\ v.insert.tag = u.insert.tag /\ v.insert.block = u.insert.block
       /\ v.insert.part = u.insert.part + 1

(* A page is written in order and without a gap or a repetition, wherever  *)
(* tcp_write split it and whenever it failed: each tag is followed by all  *)
(* the rows of one array, by a text, or by the mark of an unknown tag      *)
(* (http_send_data_ssi, httpd.c:1142-1482).                                *)
PageInOrder ==
  \A c \in Conns : conn[c].open /\ conn[c].state # "PLAIN" =>
    \A k \in 1 .. Len(out[c]) - 1 : Follows(out[c][k], out[c][k + 1])

(* A table has more rows to come exactly while its array is allocated, is  *)
(* this page's own, and has the next row (ssi_handlers.c:50-136, 190-230). *)
ArrayHeld ==
  \A c \in Conns :
    LET t == conn[c].name
        held == {b \in Block : owner[b] = c}
    IN IF conn[c].part # LAST
       THEN t \in Tables /\ held = {array[t]} /\ conn[c].part < number[t]
       ELSE held = {}

(* A call that does not fail leaves something for the client to            *)
(* acknowledge, which is what the next call comes from (http_sent); the    *)
(* retries of http_poll are for what failed.                               *)
NeverStalls ==
  run.at = "return" /\ ~run.failed =>
    conn[run.c].unacked > 0 \/ conn[run.c].file = Len(File)

(* A page that is closed because all of it was sent was written to its end *)
(* with all rows of its last tag, and leaves no array behind.              *)
ClosedWhenComplete ==
  [][SendDone /\ conn'[run.c] # conn[run.c] =>
       /\ out[run.c][Len(out[run.c])] = [of |-> "page", at |-> Len(File)]
       /\ owner' = owner]_vars

(* Every page comes to its end or is given up: the parser's loop           *)
(* terminates, and a client that does not acknowledge is given up.         *)
PagesEnd == \A c \in Conns : conn[c].open ~> ~conn[c].open
=============================================================================
