--------------------------- MODULE Webpage_proofs ---------------------------
(***************************************************************************)
(* For every page, every table and every way the page is split and its     *)
(* connection cut: the types, and that a call that does not fail leaves    *)
(* something to be acknowledged; and, if one page is sent at a time, that  *)
(* the rows of a page come from an array that is allocated and has them,   *)
(* and that the page is written in order, with every row of its tags, to   *)
(* its end.                                                                *)
(*                                                                         *)
(* HInv is the invariant of the arrays, TInv that of the types and of the  *)
(* call in progress, OInv, which needs both, that of the order: it relates *)
(* the last unit written to the places of the page and to what the parser  *)
(* has read.                                                               *)
(***************************************************************************)
EXTENDS Webpage, TLAPS

FieldNames == DOMAIN Closed

(* What a table that has more rows to come holds.                          *)
Holds(c) ==
  LET hs == conn[c] IN
  /\ boot = 4 /\ hs.open /\ hs.state = "SENDING" /\ hs.name \in Tables
  /\ array[hs.name] \in Block
  /\ \A b \in Block : owner[b] = c <=> b = array[hs.name]
  /\ hs.part \in Nat \ {0} /\ hs.part < number[hs.name]

HoldsNone(c) == \A b \in Block : owner[b] # c

HeapTypes ==
  /\ array \in [Tables -> 0 .. Blocks]
  /\ number \in [Tables -> Nat]
  /\ owner \in [Block -> Conns \cup {"free", "lost"}]

Shape ==
  /\ DOMAIN conn = Conns
  /\ \A c \in Conns : DOMAIN conn[c] = FieldNames

OneOpen == \A c, d \in Conns : conn[c].open /\ conn[d].open => c = d

Running == run # Idle => run.c \in Conns /\ conn[run.c].open

Tagged(c) == IF conn[c].part = LAST THEN HoldsNone(c) ELSE Holds(c)

HInv ==
  /\ HeapTypes
  /\ Shape
  /\ OneOpen
  /\ Running
  /\ \A c \in Conns : Tagged(c)

USE DEF Heaps

LEMMA Names ==
  FieldNames = {"open", "file", "parsed", "state", "index", "end", "name",
                "insert", "part", "retries", "unacked"}
BY DEF FieldNames, Closed

(* A step that changes one page, and neither its insert nor a block.       *)
LEMMA QuietStep ==
  ASSUME HInv, NEW c \in Conns, NEW hs,
         DOMAIN hs = FieldNames,
         hs.open = conn[c].open, hs.part = conn[c].part,
         conn[c].part # LAST => hs.state = "SENDING" /\ hs.name = conn[c].name,
         conn' = [conn EXCEPT ![c] = hs],
         run' = Idle \/ (run'.c = c /\ hs.open),
         UNCHANGED <<boot, Heaps>>
  PROVE  HInv'
<1>1. HeapTypes'
  BY DEF HInv, HeapTypes, Block
<1>2. Shape'
  BY DEF HInv, Shape
<1>3. \A d \in Conns : conn'[d].open = conn[d].open
  BY DEF HInv, Shape
<1>4. OneOpen'
  BY <1>3 DEF HInv, OneOpen
<1>5. Running'
  BY <1>3 DEF Running, Idle
<1>6. ASSUME NEW d \in Conns PROVE Tagged(d)'
  <2>1. Tagged(d) BY DEF HInv
  <2>2. /\ conn'[d].part = conn[d].part
        /\ conn[d].part # LAST => /\ conn'[d].state = conn[d].state
                                  /\ conn'[d].name = conn[d].name
    BY <2>1 DEF HInv, Shape, Tagged, Holds
  <2> QED BY <1>3, <2>1, <2>2 DEF Tagged, Holds, HoldsNone, Block
<1> QED BY <1>1, <1>2, <1>4, <1>5, <1>6 DEF HInv

(* What a handler or an unknown tag leaves, at the first part or the next. *)
LEMMA TagInsertEffect ==
  ASSUME HInv, NEW c \in Conns, NEW name, NEW p, NEW r \in TagInsert(c, name, p),
         \/ p = 0 /\ HoldsNone(c)
         \/ Holds(c) /\ name = conn[c].name /\ p = conn[c].part
  PROVE  /\ r.array \in [Tables -> 0 .. Blocks] /\ r.number \in [Tables -> Nat]
         /\ r.owner \in [Block -> Conns \cup {"free", "lost"}]
         /\ \A d \in Conns, b \in Block : d # c => (r.owner[b] = d <=> owner[b] = d)
         /\ \/ r.part = LAST /\ \A b \in Block : r.owner[b] # c
            \/ /\ boot = 4 /\ name \in Tables /\ r.array[name] \in Block
               /\ \A b \in Block : r.owner[b] = c <=> b = r.array[name]
               /\ r.part \in Nat \ {0} /\ r.part < r.number[name]
<1> DEFINE Effect(heap) ==
      /\ heap.array \in [Tables -> 0 .. Blocks] /\ heap.number \in [Tables -> Nat]
      /\ heap.owner \in [Block -> Conns \cup {"free", "lost"}]
      /\ heap.array[name] \in Block
      /\ \A d \in Conns, b \in Block : d # c => (heap.owner[b] = d <=> owner[b] = d)
      /\ \A b \in Block : heap.owner[b] = c <=> b = heap.array[name]
<1>1. CASE HandlersSet /\ name \in Tables
  <2>1. PICK heap \in IF p = 0 THEN Allocated(c, name) ELSE Unallocated :
          r = Shown(heap, name, p)
    BY <1>1 DEF TagInsert, TableRow
  <2>2. p \in Nat
    BY DEF Holds
  <2>3. Effect(heap)
    <3>1. CASE p = 0
      <4>1. HoldsNone(c)
        BY <3>1 DEF Holds
      <4>2. PICK b \in Available, n \in RowCounts :
              heap = [array |-> [array EXCEPT ![name] = b],
                      number |-> [number EXCEPT ![name] = n],
                      owner |-> [owner EXCEPT ![b] = c]]
        BY <2>1, <3>1 DEF Allocated
      <4>3. /\ b \in Block /\ n \in Nat
            /\ owner[b] \in {"free", "lost"}
        BY PageAssumption DEF Available
      <4>4. \A d \in Conns : owner[b] # d
        BY <4>3, PageAssumption
      <4>5. /\ array \in [Tables -> 0 .. Blocks] /\ number \in [Tables -> Nat]
            /\ owner \in [Block -> Conns \cup {"free", "lost"}]
        BY DEF HInv, HeapTypes
      <4>6. b \in 0 .. Blocks
        BY <4>3, PageAssumption DEF Block
      <4>7. heap.array = [array EXCEPT ![name] = b] /\ heap.owner = [owner EXCEPT ![b] = c]
            /\ heap.number = [number EXCEPT ![name] = n]
        BY <4>2
      <4>8. heap.array[name] = b
        BY <4>5, <4>7, <1>1
      <4>9. \A x \in Block : heap.owner[x] = IF x = b THEN c ELSE owner[x]
        BY <4>5, <4>7
      <4>10. /\ heap.array \in [Tables -> 0 .. Blocks]
             /\ heap.number \in [Tables -> Nat]
             /\ heap.owner \in [Block -> Conns \cup {"free", "lost"}]
        BY <4>3, <4>5, <4>6, <4>7
      <4>11. \A d \in Conns, x \in Block :
               d # c => (heap.owner[x] = d <=> owner[x] = d)
        BY <4>4, <4>9
      <4>12. \A x \in Block : heap.owner[x] = c <=> x = heap.array[name]
        BY <4>1, <4>8, <4>9 DEF HoldsNone
      <4> QED BY <4>3, <4>8, <4>10, <4>11, <4>12
    <3>2. CASE p # 0
      <4>1. heap = [array |-> array, number |-> number, owner |-> owner]
        BY <2>1, <3>2 DEF Unallocated
      <4>2. Holds(c) /\ name = conn[c].name
        BY <3>2
      <4> QED BY <4>1, <4>2 DEF HInv, HeapTypes, Holds
    <3> QED BY <3>1, <3>2
  <2>4. /\ r.array = heap.array /\ r.number = heap.number
        /\ r.owner = IF Last(heap, name, p)
                     THEN [heap.owner EXCEPT ![heap.array[name]] = "free"]
                     ELSE heap.owner
        /\ r.part = IF Last(heap, name, p) THEN LAST ELSE p + 1
    BY <2>1 DEF Shown
  <2>5. CASE Last(heap, name, p)
    BY <2>3, <2>4, <2>5, PageAssumption
  <2>6. CASE ~Last(heap, name, p)
    <3>1. p + 1 < heap.number[name]
      BY <1>1, <2>2, <2>3, <2>6 DEF Last
    <3> QED BY <1>1, <2>2, <2>3, <2>4, <2>6, <3>1 DEF HandlersSet
  <2> QED BY <2>5, <2>6
<1>2. CASE ~(HandlersSet /\ name \in Tables)
  <2>1. /\ r.array = array /\ r.number = number /\ r.owner = owner /\ r.part = LAST
    BY <1>2 DEF TagInsert
  <2>2. HoldsNone(c)
    BY <1>2 DEF Holds, HandlersSet
  <2> QED BY <2>1, <2>2 DEF HInv, HeapTypes, HoldsNone
<1> QED BY <1>1, <1>2

(* A step that puts a new insert into a page.                              *)
LEMMA InsertStep ==
  ASSUME HInv, NEW c \in Conns, NEW hs, NEW name, NEW p,
         NEW r \in TagInsert(c, name, p),
         \/ p = 0 /\ HoldsNone(c)
         \/ Holds(c) /\ name = conn[c].name /\ p = conn[c].part,
         DOMAIN hs = FieldNames, conn[c].open, hs.open = conn[c].open,
         hs.state = "SENDING", hs.name = name, hs.part = r.part,
         conn' = [conn EXCEPT ![c] = hs],
         run' = Idle \/ run'.c = c,
         array' = r.array, number' = r.number, owner' = r.owner, boot' = boot
  PROVE  HInv'
<1>1. HeapTypes'
  BY TagInsertEffect DEF HeapTypes, Block
<1>2. Shape'
  BY DEF HInv, Shape
<1>3. \A d \in Conns : conn'[d].open = conn[d].open
  BY DEF HInv, Shape
<1>4. OneOpen'
  BY <1>3 DEF HInv, OneOpen
<1>5. Running'
  BY <1>3 DEF Running, Idle
<1>6. conn'[c] = hs
  BY DEF HInv, Shape
<1>7. Tagged(c)'
  <2>1. CASE hs.part = LAST
    <3>1. r.part \notin Nat
      BY <2>1 DEF LAST
    <3>2. \A b \in Block : r.owner[b] # c
      BY <3>1, TagInsertEffect
    <3>3. HoldsNone(c)'
      BY <3>2 DEF HoldsNone, Block
    <3> QED BY <2>1, <3>3, <1>6 DEF Tagged
  <2>2. CASE hs.part # LAST
    <3>1. /\ boot = 4 /\ name \in Tables /\ r.array[name] \in Block
          /\ \A b \in Block : r.owner[b] = c <=> b = r.array[name]
          /\ r.part \in Nat \ {0} /\ r.part < r.number[name]
      BY <2>2, TagInsertEffect DEF Holds
    <3>2. /\ boot' = 4 /\ conn'[c].open /\ conn'[c].state = "SENDING"
          /\ conn'[c].name = name /\ conn'[c].part = r.part
      BY <1>6, <3>1
    <3>3. Holds(c)'
      BY <3>1, <3>2 DEF Holds, Block
    <3> QED BY <2>2, <3>3, <1>6 DEF Tagged
  <2> QED BY <2>1, <2>2
<1>8. ASSUME NEW d \in Conns, d # c PROVE Tagged(d)'
  <2>1. conn'[d] = conn[d] /\ ~conn[d].open
    BY <1>8 DEF HInv, Shape, OneOpen
  <2>2. HoldsNone(d) /\ conn[d].part = LAST
    BY <2>1 DEF HInv, Tagged, Holds
  <2>3. \A b \in Block : owner'[b] # d
    BY <1>8, <2>2, TagInsertEffect DEF HoldsNone
  <2> QED BY <2>1, <2>2, <2>3 DEF Tagged, HoldsNone, Block
<1> QED BY <1>1, <1>2, <1>4, <1>5, <1>7, <1>8 DEF HInv

(* The end of a connection.                                                *)
LEMMA CloseStep ==
  ASSUME HInv, NEW c \in Conns, CloseConn(c), run' = Idle,
         UNCHANGED <<boot, array, number>>
  PROVE  HInv'
<1>1. HeapTypes'
  BY DEF HInv, HeapTypes, CloseConn, Block
<1>2. Shape'
  BY DEF HInv, Shape, CloseConn, FieldNames
<1>3. \A d \in Conns : d # c => conn'[d] = conn[d]
  BY DEF HInv, Shape, CloseConn
<1>4. conn'[c].open = FALSE /\ conn'[c].part = LAST
  BY DEF HInv, Shape, CloseConn, Closed
<1>5. OneOpen'
  BY <1>3, <1>4 DEF HInv, OneOpen
<1>6. ASSUME NEW d \in Conns PROVE Tagged(d)'
  <2>1. CASE d = c
    BY <1>4, <2>1, PageAssumption DEF Tagged, HoldsNone, CloseConn, Block
  <2>2. CASE d # c
    <3>1. \A b \in Block : owner'[b] = d <=> owner[b] = d
      BY <2>2, PageAssumption DEF CloseConn
    <3> QED BY <2>2, <3>1, <1>3 DEF HInv, Tagged, Holds, HoldsNone, Block
  <2> QED BY <2>1, <2>2
<1> QED BY <1>1, <1>2, <1>5, <1>6 DEF HInv, Running

-----------------------------------------------------------------------------
(* The steps. *)

(* A turn that does not write, of a page that has no more rows to come.    *)
LEMMA ScanStep ==
  ASSUME HInv, run # Idle, NEW hs, Scan(hs), DOMAIN hs = FieldNames,
         hs.open = conn[run.c].open, hs.part = conn[run.c].part,
         conn[run.c].part = LAST
  PROVE  HInv'
<1>1. run.c \in Conns /\ conn[run.c].open
  BY DEF HInv, Running
<1>2. /\ conn' = [conn EXCEPT ![run.c] = hs]
      /\ run'.c = run.c /\ UNCHANGED <<boot, Heaps>>
  BY DEF Scan, Step
<1> QED BY <1>1, <1>2, QuietStep

(* Between tags a page holds no array.                                     *)
LEMMA NotSending ==
  ASSUME HInv, NEW state, Turn(state), state # "SENDING"
  PROVE  /\ run # Idle /\ run.c \in Conns /\ conn[run.c].open
         /\ DOMAIN conn[run.c] = FieldNames
         /\ DOMAIN OneParsed = FieldNames
         /\ OneParsed.open = conn[run.c].open /\ OneParsed.part = conn[run.c].part
         /\ OneParsed.name = conn[run.c].name
         /\ conn[run.c].part = LAST /\ HoldsNone(run.c)
<1>1. run # Idle
  BY DEF Turn, Idle
<1>2. run.c \in Conns /\ conn[run.c].open /\ DOMAIN conn[run.c] = FieldNames
  BY <1>1 DEF HInv, Running, Shape
<1>3. conn[run.c].part = LAST /\ HoldsNone(run.c)
  BY <1>2 DEF HInv, Tagged, Holds, Turn
<1> QED BY <1>1, <1>2, <1>3, Names DEF OneParsed

LEMMA ParserStep ==
  ASSUME HInv, TagNone \/ TagLeadin \/ TagFound \/ TagLeadout
  PROVE  HInv'
<1>1. CASE TagNone
  <2>1. Turn("NONE") BY <1>1 DEF TagNone
  <2> QED BY <1>1, <2>1, NotSending, ScanStep, Names DEF TagNone
<1>2. CASE TagLeadin
  <2>1. Turn("LEADIN") BY <1>2 DEF TagLeadin
  <2> QED BY <1>2, <2>1, NotSending, ScanStep, Names DEF TagLeadin
<1>3. CASE TagFound
  <2>1. Turn("FOUND") BY <1>3 DEF TagFound
  <2> QED BY <1>3, <2>1, NotSending, ScanStep, Names DEF TagFound
<1>4. CASE TagLeadout
  <2>1. Turn("LEADOUT") BY <1>4 DEF TagLeadout
  <2> QED BY <1>4, <2>1, NotSending, ScanStep, Names DEF TagLeadout
<1> QED BY <1>1, <1>2, <1>3, <1>4

(* A page that differs from hs only in what was written of it.             *)
Like(g, hs) ==
  /\ DOMAIN g = FieldNames
  /\ g.open = hs.open /\ g.state = hs.state /\ g.name = hs.name
  /\ g.part = hs.part

LEMMA WriteEffect ==
  ASSUME NEW c \in Conns, NEW hs, NEW n, DOMAIN hs = FieldNames,
         WriteFile(c, hs, n) \/ WriteInsert(c, hs, n)
  PROVE  /\ run'.c = c
         /\ \E g : Like(g, hs) /\ conn' = [conn EXCEPT ![c] = g]
<1>1. Like(hs, hs)
  BY DEF Like
<1>2. \A m : Like([hs EXCEPT !.file = @ + m, !.unacked = @ + m], hs)
  BY Names DEF Like
<1>3. \A m : Like([hs EXCEPT !.index = @ + m, !.unacked = @ + m], hs)
  BY Names DEF Like
<1>4. CASE WriteFile(c, hs, n)
  <2>1. ASSUME NEW m \in Taken(hs, n),
               Step(c, [hs EXCEPT !.file = @ + m, !.unacked = @ + m], "loop", m,
                    FileUnits(hs, m))
        PROVE  run'.c = c /\ \E g : Like(g, hs) /\ conn' = [conn EXCEPT ![c] = g]
    <3> DEFINE g == [hs EXCEPT !.file = @ + m, !.unacked = @ + m]
    <3>1. Like(g, hs) BY <1>2
    <3>2. conn' = [conn EXCEPT ![c] = g] /\ run'.c = c BY <2>1 DEF Step
    <3> HIDE DEF g
    <3> QED BY <3>1, <3>2
  <2>2. CASE Failed(c, hs, "end")
    BY <2>2, <1>1 DEF Failed
  <2> QED BY <1>4, <2>1, <2>2 DEF WriteFile
<1>5. CASE WriteInsert(c, hs, n)
  <2>1. ASSUME NEW m \in Taken(hs, n),
               Step(c, [hs EXCEPT !.index = @ + m, !.unacked = @ + m], "loop", m,
                    InsertUnits(hs, m))
        PROVE  run'.c = c /\ \E g : Like(g, hs) /\ conn' = [conn EXCEPT ![c] = g]
    <3> DEFINE g == [hs EXCEPT !.index = @ + m, !.unacked = @ + m]
    <3>1. Like(g, hs) BY <1>3
    <3>2. conn' = [conn EXCEPT ![c] = g] /\ run'.c = c BY <2>1 DEF Step
    <3> HIDE DEF g
    <3> QED BY <3>1, <3>2
  <2>2. CASE Failed(c, hs, "end")
    BY <2>2, <1>1 DEF Failed
  <2> QED BY <1>5, <2>1, <2>2 DEF WriteInsert
<1> QED BY <1>4, <1>5

LEMMA InsertFirst == ASSUME HInv, TagComplete PROVE HInv'
<1> DEFINE c == run.c
<1>1. Turn("LEADOUT")
  BY DEF TagComplete
<1>2. /\ c \in Conns /\ conn[c].open /\ HoldsNone(c)
      /\ DOMAIN OneParsed = FieldNames /\ OneParsed.open = conn[c].open
      /\ OneParsed.name = conn[c].name
  BY <1>1, NotSending
<1>3. PICK r, hs, n :
        /\ r \in TagInsert(c, conn[c].name, 0)
        /\ hs = [OneParsed EXCEPT !.state = "SENDING", !.index = 0,
                                  !.end = conn[c].parsed + 1,
                                  !.insert = r.insert, !.part = r.part]
        /\ WriteFile(c, hs, n)
        /\ array' = r.array /\ number' = r.number /\ owner' = r.owner
        /\ boot' = boot
  BY DEF TagComplete
<1>4. /\ DOMAIN hs = FieldNames /\ hs.open = conn[c].open
      /\ hs.state = "SENDING" /\ hs.name = conn[c].name /\ hs.part = r.part
  BY <1>2, <1>3, Names
<1>5. PICK g : Like(g, hs) /\ conn' = [conn EXCEPT ![c] = g] /\ run'.c = c
  BY <1>2, <1>3, <1>4, WriteEffect
<1> HIDE DEF c
<1> QED BY <1>2, <1>3, <1>4, <1>5, InsertStep DEF Like

LEMMA InsertNext == ASSUME HInv, NextInsert PROVE HInv'
<1> DEFINE c == run.c
<1>1. /\ run # Idle /\ conn[c].part # LAST
  BY DEF NextInsert, Turn, Idle
<1>2. /\ c \in Conns /\ conn[c].open /\ Holds(c) /\ DOMAIN conn[c] = FieldNames
      /\ conn[c].state = "SENDING"
  BY <1>1 DEF HInv, Running, Shape, Tagged, Holds
<1>3. PICK r, hs, n :
        /\ r \in TagInsert(c, conn[c].name, conn[c].part)
        /\ hs = [conn[c] EXCEPT !.index = 0, !.insert = r.insert, !.part = r.part]
        /\ WriteInsert(c, hs, n)
        /\ array' = r.array /\ number' = r.number /\ owner' = r.owner
        /\ boot' = boot
  BY DEF NextInsert
<1>4. /\ DOMAIN hs = FieldNames /\ hs.open = conn[c].open
      /\ hs.state = "SENDING" /\ hs.name = conn[c].name /\ hs.part = r.part
  BY <1>2, <1>3, Names
<1>5. PICK g : Like(g, hs) /\ conn' = [conn EXCEPT ![c] = g] /\ run'.c = c
  BY <1>2, <1>3, <1>4, WriteEffect
<1> HIDE DEF c
<1> QED BY <1>2, <1>3, <1>4, <1>5, InsertStep DEF Like

(* The other turns of the loop, and what comes before and after it.        *)
LEMMA SendStep ==
  ASSUME HInv, SendParsed \/ SendBefore \/ SendInsert \/ TagSent \/ LoopEnd \/ SendRest
  PROVE  HInv'
<1> DEFINE c == run.c
           StepFile(m, at) ==
             Step(c, [conn[c] EXCEPT !.file = @ + m, !.unacked = @ + m], at, m,
                  FileUnits(conn[c], m))
<1>1. run # Idle
  <2>1. run.at \in {"begin", "loop", "end"}
    BY DEF SendParsed, SendBefore, SendInsert, TagSent, LoopEnd, SendRest, Turn
  <2> QED BY <2>1 DEF Idle
<1>2. c \in Conns /\ conn[c].open /\ DOMAIN conn[c] = FieldNames /\ Tagged(c)
  BY <1>1 DEF HInv, Running, Shape
<1>3. conn[c].part # LAST => conn[c].state = "SENDING"
  BY <1>2 DEF Tagged, Holds
<1>4. Like(conn[c], conn[c])
  BY <1>2 DEF Like
<1>5. \A m : Like([conn[c] EXCEPT !.file = @ + m, !.unacked = @ + m], conn[c])
  BY <1>2, Names DEF Like
<1>6. ASSUME NEW g, g.open = conn[c].open, g.part = conn[c].part, DOMAIN g = FieldNames,
             conn[c].part # LAST => g.state = "SENDING" /\ g.name = conn[c].name,
             conn' = [conn EXCEPT ![c] = g], run'.c = c, UNCHANGED <<boot, Heaps>>
      PROVE  HInv'
  BY <1>2, <1>6, QuietStep
<1>7. ASSUME \E g : Like(g, conn[c]) /\ conn' = [conn EXCEPT ![c] = g],
             run'.c = c, UNCHANGED <<boot, Heaps>>
      PROVE  HInv'
  BY <1>3, <1>6, <1>7 DEF Like
<1>8. ASSUME UNCHANGED <<boot, Heaps>>,
             \/ \E at, len : Step(c, conn[c], at, len, << >>)
             \/ \E m, at : StepFile(m, at)
             \/ \E at : Failed(c, conn[c], at)
      PROVE  HInv'
  <2>1. ASSUME NEW at, NEW len, Step(c, conn[c], at, len, << >>) PROVE HInv'
    BY <1>4, <1>7, <1>8, <2>1 DEF Step
  <2>2. ASSUME NEW m, NEW at, StepFile(m, at) PROVE HInv'
    <3> DEFINE g == [conn[c] EXCEPT !.file = @ + m, !.unacked = @ + m]
    <3>1. Like(g, conn[c]) BY <1>5
    <3>2. conn' = [conn EXCEPT ![c] = g] /\ run'.c = c BY <2>2 DEF Step
    <3> HIDE DEF g
    <3> QED BY <1>7, <1>8, <3>1, <3>2
  <2>3. ASSUME NEW at, Failed(c, conn[c], at) PROVE HInv'
    BY <1>4, <1>7, <1>8, <2>3 DEF Failed
  <2> QED BY <1>8, <2>1, <2>2, <2>3
<1>9. CASE SendParsed
  <2>1. UNCHANGED <<boot, Heaps>> BY <1>9 DEF SendParsed
  <2>2. \/ \E at, len : Step(c, conn[c], at, len, << >>)
        \/ \E m, at : StepFile(m, at)
        \/ \E at : Failed(c, conn[c], at)
    BY <1>9 DEF SendParsed
  <2> QED BY <2>1, <2>2, <1>8
<1>10. CASE SendBefore
  BY <1>2, <1>7, <1>10, WriteEffect DEF SendBefore
<1>11. CASE SendInsert
  BY <1>2, <1>7, <1>11, WriteEffect DEF SendInsert
<1>12. CASE TagSent
  <2>1. conn[c].part = LAST /\ Scan([conn[c] EXCEPT !.state = "NONE", !.index = 0])
    BY <1>12 DEF TagSent
  <2> QED BY <1>1, <1>2, <2>1, ScanStep, Names
<1>13. CASE LoopEnd
  BY <1>4, <1>7, <1>13 DEF LoopEnd, Step
<1>14. CASE SendRest
  <2>1. UNCHANGED <<boot, Heaps>> BY <1>14 DEF SendRest
  <2>2. \/ \E at, len : Step(c, conn[c], at, len, << >>)
        \/ \E m, at : StepFile(m, at)
        \/ \E at : Failed(c, conn[c], at)
    BY <1>14 DEF SendRest
  <2> QED BY <2>1, <2>2, <1>8
<1> QED BY <1>9, <1>10, <1>11, <1>12, <1>13, <1>14

LEMMA DoneStep == ASSUME HInv, SendDone PROVE HInv'
<1>1. run # Idle /\ run.c \in Conns /\ conn[run.c].open /\ DOMAIN conn[run.c] = FieldNames
  BY DEF SendDone, Idle, HInv, Running, Shape
<1>2. CASE CloseConn(run.c)
  BY <1>1, <1>2, CloseStep DEF SendDone
<1>3. CASE UNCHANGED <<conn, owner, out>>
  BY <1>1, <1>3 DEF SendDone, HInv, HeapTypes, Shape, OneOpen, Running, Tagged,
                    Holds, HoldsNone, Block
<1> QED BY <1>2, <1>3 DEF SendDone

LEMMA StartStep == ASSUME HInv, Start PROVE HInv'
BY DEF Start, HInv, HeapTypes, Shape, OneOpen, Running, Tagged, Holds, HoldsNone, Block

LEMMA CallbackStep ==
  ASSUME HInv, "overlap" \notin Faults, NEW c \in Conns, Callback(c)
  PROVE  HInv'
<1>1. /\ DOMAIN conn[c] = FieldNames
      /\ conn[c].part # LAST => conn[c].state = "SENDING"
  BY DEF HInv, Shape, Tagged, Holds
<1>2. ASSUME NEW g, Like(g, conn[c]), conn' = [conn EXCEPT ![c] = g], run'.c = c,
             conn[c].open, UNCHANGED <<boot, Heaps>>
      PROVE  HInv'
  BY <1>1, <1>2, QuietStep DEF Like
<1>3. CASE Request(c)
  <2>1. PICK state \in {"NONE", "PLAIN"} :
          Call(c, [Closed EXCEPT !.open = TRUE, !.state = state])
    BY <1>3 DEF Request
  <2> DEFINE hs == [Closed EXCEPT !.open = TRUE, !.state = state]
  <2>2. DOMAIN hs = FieldNames /\ hs.open /\ hs.part = LAST
    BY DEF Closed, FieldNames
  <2>3. /\ conn' = [conn EXCEPT ![c] = hs] /\ run'.c = c /\ UNCHANGED <<boot, Heaps>>
        /\ \A d \in Conns : ~conn[d].open
    BY <1>3, <2>1 DEF Call, Request
  <2> HIDE DEF hs
  <2>4. conn'[c] = hs /\ \A d \in Conns : d # c => conn'[d] = conn[d]
    BY <2>3 DEF HInv, Shape
  <2>5. HeapTypes' /\ Shape'
    BY <2>2, <2>3 DEF HInv, HeapTypes, Shape, Block
  <2>6. OneOpen' /\ Running'
    BY <2>2, <2>3, <2>4 DEF OneOpen, Running
  <2>7. ASSUME NEW d \in Conns PROVE Tagged(d)'
    <3>1. HoldsNone(d) /\ conn[d].part = LAST
      BY <2>3 DEF HInv, Tagged, Holds
    <3> QED BY <2>2, <2>3, <2>4, <3>1 DEF Tagged, HoldsNone, Block
  <2> QED BY <2>5, <2>6, <2>7 DEF HInv
<1>4. CASE Sent(c)
  <2>1. PICK k : Call(c, [conn[c] EXCEPT !.unacked = k, !.retries = 0])
    BY <1>4 DEF Sent
  <2>2. conn[c].open /\ UNCHANGED <<boot, Heaps>>
    BY <1>4 DEF Sent
  <2> DEFINE hs == [conn[c] EXCEPT !.unacked = k, !.retries = 0]
  <2>3. Like(hs, conn[c]) BY <1>1, Names DEF Like
  <2>4. conn' = [conn EXCEPT ![c] = hs] /\ run'.c = c BY <2>1 DEF Call
  <2> HIDE DEF hs
  <2> QED BY <1>2, <2>2, <2>3, <2>4
<1>5. CASE Poll(c)
  <2>2. conn[c].open /\ UNCHANGED <<boot, Heaps>>
    BY <1>5 DEF Poll
  <2> DEFINE hs == [conn[c] EXCEPT !.retries = @ + 1]
  <2>3. Like(hs, conn[c]) BY <1>1, Names DEF Like
  <2>4. conn' = [conn EXCEPT ![c] = hs] /\ run'.c = c BY <1>5 DEF Poll, Call
  <2> HIDE DEF hs
  <2> QED BY <1>2, <2>2, <2>3, <2>4
<1>6. CASE GiveUp(c)
  BY <1>6, CloseStep DEF GiveUp
<1>7. CASE Cut(c)
  BY <1>7, CloseStep DEF Cut
<1> QED BY <1>4, <1>5, <1>6, <1>7, <1>3 DEF Callback

LEMMA InitHolds == Init => HInv
BY PageAssumption DEF Init, HInv, HeapTypes, Shape, OneOpen, Running, Tagged, HoldsNone,
   Closed, FieldNames, Block

LEMMA InvStep == ASSUME "overlap" \notin Faults PROVE HInv /\ [Next]_vars => HInv'
<1> SUFFICES ASSUME HInv, [Next]_vars PROVE HInv'
  OBVIOUS
<1>1. CASE Start
  BY <1>1, StartStep
<1>2. CASE HttpSend
  BY <1>2, ParserStep, InsertFirst, InsertNext, SendStep, DoneStep
     DEF HttpSend, Parse, Sending
<1>3. CASE \E c \in Conns : Callback(c)
  BY <1>3, CallbackStep
<1>4. CASE UNCHANGED vars
  BY <1>4 DEF vars, HInv, HeapTypes, Shape, OneOpen, Running, Tagged, Holds, HoldsNone, Block
<1> QED BY <1>1, <1>2, <1>3, <1>4 DEF Next

(* If one page is sent at a time, a table that has more rows to come has   *)
(* its array, the array has the row, and no array is held otherwise: the   *)
(* handlers of ssi_handlers.c neither read what was freed nor free twice.  *)
THEOREM HeldArray ==
  ASSUME "overlap" \notin Faults
  PROVE  Spec => []ArrayHeld
<1>1. HInv => ArrayHeld
  <2> SUFFICES ASSUME HInv, NEW c \in Conns
               PROVE  IF conn[c].part # LAST
                      THEN /\ conn[c].name \in Tables
                           /\ {b \in Block : owner[b] = c} = {array[conn[c].name]}
                           /\ conn[c].part < number[conn[c].name]
                      ELSE {b \in Block : owner[b] = c} = {}
    BY DEF ArrayHeld
  <2>1. Tagged(c)
    BY DEF HInv
  <2> QED BY <2>1 DEF Tagged, Holds, HoldsNone
<1> QED BY <1>1, InitHolds, InvStep, PTL DEF Spec
-----------------------------------------------------------------------------
(* The types, and that a call that does not fail leaves something to be    *)
(* acknowledged.  Both hold whatever is asked for and cut.                 *)

Chars == {File[k] : k \in DOMAIN File}

(* A page of the right types: a page with tags is parsed before it is      *)
(* sent, a name is as long as its index says, and a tag that is being sent *)
(* was parsed.                                                             *)
Sound(hs) ==
  /\ DOMAIN hs = FieldNames
  /\ hs.open \in BOOLEAN /\ hs.state \in TagState
  /\ hs.file \in 0 .. Len(File) /\ hs.parsed \in 0 .. Len(File)
  /\ hs.end \in 0 .. Len(File)
  /\ hs.state # "PLAIN" => hs.file <= hs.parsed
  /\ hs.state = "PLAIN" => hs.parsed = 0
  /\ hs.index \in Nat /\ hs.part \in Nat \cup {LAST}
  /\ hs.name \in Seq(Chars) /\ Len(hs.name) <= MaxName
  /\ hs.state = "FOUND" => hs.index = Len(hs.name)
  /\ hs.state = "SENDING" => hs.end = hs.parsed
  /\ hs.retries \in 0 .. MaxRetries - 1 /\ hs.unacked \in 0 .. SndBuf

(* What a call that has come to `at` leaves to be acknowledged.            *)
Moves(at, len, hs) ==
  LET sent == hs.unacked > 0 \/ hs.file = hs.parsed IN
  /\ at = "loop" => /\ len = 0 => hs.unacked > 0
                    /\ hs.state = "SENDING" => sent
  /\ at = "end" => hs.parsed = Len(File) /\ (hs.state = "SENDING" => sent)
  /\ at = "return" => hs.unacked > 0 \/ hs.file = Len(File)

Going(at, len, failed, hs) ==
  /\ at \in {"begin", "loop", "end", "return"} /\ len \in Nat /\ failed \in BOOLEAN
  /\ at = "end" => hs.state # "PLAIN"
  /\ ~failed => Moves(at, len, hs)

(* The call in progress.                                                   *)
Run == run = Idle \/ /\ run.at # "idle" /\ run.c \in Conns
                     /\ Going(run.at, run.len, run.failed, conn[run.c])

TInv ==
  /\ boot \in 0 .. 4 /\ HeapTypes /\ DOMAIN conn = Conns
  /\ \A c \in Conns : Sound(conn[c])
  /\ Run

LEMMA Sizes ==
  /\ Len(File) \in Nat \ {0} /\ DOMAIN File = 1 .. Len(File)
  /\ MaxName \in Nat /\ InsertLen \in Nat \ {0} /\ SndBuf \in Nat \ {0}
  /\ MaxRetries \in Nat \ {0} /\ Blocks \in Nat
  /\ Len(LeadIn) \in Nat \ {0} /\ Len(LeadOut) \in Nat \ {0, 1}
  /\ \A k \in 1 .. Len(File) : File[k] \in Chars
<1>1. File \in Seq(Chars) /\ Len(File) > 0
  BY PageAssumption DEF Chars
<1> QED
  BY <1>1, PageAssumption DEF Chars

LEMMA LeadSizes ==
  Len(LeadIn) \in Nat /\ Len(LeadIn) > 0 /\ Len(LeadOut) \in Nat /\ Len(LeadOut) > 1
<1>1. PICK k \in Nat : k = Len(LeadOut) /\ k # 0 /\ k # 1
  BY Sizes
<1>2. k > 1
  BY <1>1
<1> QED
  BY <1>1, <1>2, Sizes

(* A step of a call.                                                       *)
LEMMA RunStep ==
  ASSUME TInv, NEW c \in Conns, NEW g, Sound(g), conn' = [conn EXCEPT ![c] = g],
         NEW at, NEW len, NEW failed, Going(at, len, failed, g),
         run' = [at |-> at, c |-> c, len |-> len, failed |-> failed],
         HeapTypes', boot' \in 0 .. 4
  PROVE  TInv'
<1>1. DOMAIN conn' = Conns /\ conn'[c] = g /\ \A d \in Conns : d # c => conn'[d] = conn[d]
  BY DEF TInv
<1>2. \A d \in Conns : Sound(conn'[d])
  BY <1>1 DEF TInv
<1>3. run'.at = at /\ run'.c = c /\ run'.len = len /\ run'.failed = failed
  OBVIOUS
<1>4. at # "idle"
  BY DEF Going
<1>5. Run'
  BY <1>1, <1>3, <1>4 DEF Run
<1> QED
  BY <1>1, <1>2, <1>5 DEF TInv

LEMMA TakenIs ==
  ASSUME NEW hs, Sound(hs), NEW n \in Nat, NEW m \in Taken(hs, n)
  PROVE  m \in Nat \ {0} /\ m <= n /\ hs.unacked + m <= SndBuf
<1>1. hs.unacked \in 0 .. SndBuf
  BY DEF Sound
<1>2. SndBuf - hs.unacked \in Nat
  BY <1>1, Sizes
<1>3. m \in 1 .. Least(n, SndBuf - hs.unacked)
  BY DEF Taken, Space
<1> QED
  BY <1>1, <1>2, <1>3, Sizes DEF Least

LEMMA FileSound ==
  ASSUME NEW hs, Sound(hs), NEW n \in Nat, NEW m \in Taken(hs, n),
         hs.state = "PLAIN" => n <= Len(File) - hs.file,
         hs.state # "PLAIN" => n <= hs.parsed - hs.file,
         NEW g, g = [hs EXCEPT !.file = @ + m, !.unacked = @ + m]
  PROVE  /\ Sound(g) /\ g.unacked > 0 /\ g.state = hs.state /\ g.file = hs.file + m
         /\ g.parsed = hs.parsed /\ m \in Nat \ {0}
<1>1. m \in Nat \ {0} /\ m <= n /\ hs.unacked + m <= SndBuf
  BY TakenIs
<1>2. hs.unacked \in Nat /\ hs.file \in Nat /\ hs.parsed \in 0 .. Len(File)
  BY Sizes DEF Sound
<1>3. hs.file + m \in 0 .. Len(File) /\ (hs.state # "PLAIN" => hs.file + m <= hs.parsed)
  <2>1. PICK x \in Nat, y \in Nat, z \in Nat : x = hs.file /\ y = hs.parsed /\ z = Len(File)
    BY <1>2, Sizes
  <2>2. y <= z
    BY <1>2, <2>1
  <2>3. CASE hs.state = "PLAIN"
    <3>1. n <= z - x
      BY <2>1, <2>3
    <3>2. x + m \in 0 .. z
      BY <1>1, <3>1
    <3> QED
      BY <2>1, <2>3, <3>2
  <2>4. CASE hs.state # "PLAIN"
    <3>1. n <= y - x
      BY <2>1, <2>4
    <3>2. x + m \in 0 .. z /\ x + m <= y
      BY <1>1, <2>2, <3>1
    <3> QED
      BY <2>1, <2>4, <3>2
  <2> QED
    BY <2>3, <2>4
<1>4. hs.unacked + m \in 0 .. SndBuf /\ hs.unacked + m > 0
  <2>1. PICK u \in Nat : u = hs.unacked
    BY <1>2
  <2>2. u + m \in 0 .. SndBuf /\ u + m > 0
    BY <1>1, <2>1, Sizes
  <2> QED
    BY <2>1, <2>2
<1>5. DOMAIN hs = FieldNames
  BY DEF Sound
<1>6. /\ DOMAIN g = FieldNames /\ g.file = hs.file + m /\ g.unacked = hs.unacked + m
      /\ g.open = hs.open /\ g.parsed = hs.parsed /\ g.state = hs.state
      /\ g.index = hs.index /\ g.end = hs.end /\ g.name = hs.name
      /\ g.insert = hs.insert /\ g.part = hs.part /\ g.retries = hs.retries
  BY <1>5, Names
<1> QED
  BY <1>1, <1>3, <1>4, <1>6 DEF Sound

LEMMA IndexSound ==
  ASSUME NEW hs, Sound(hs), hs.state = "SENDING", NEW n \in Nat, NEW m \in Taken(hs, n),
         NEW g, g = [hs EXCEPT !.index = @ + m, !.unacked = @ + m]
  PROVE  /\ Sound(g) /\ g.unacked > 0 /\ g.state = hs.state /\ m \in Nat \ {0}
<1>1. m \in Nat \ {0} /\ m <= n /\ hs.unacked + m <= SndBuf
  BY TakenIs
<1>2. hs.unacked \in Nat /\ hs.index \in Nat
  BY Sizes DEF Sound
<1>3. hs.index + m \in Nat
  BY <1>1, <1>2
<1>4. hs.unacked + m \in 0 .. SndBuf /\ hs.unacked + m > 0
  <2>1. PICK u \in Nat : u = hs.unacked
    BY <1>2
  <2>2. u + m \in 0 .. SndBuf /\ u + m > 0
    BY <1>1, <2>1, Sizes
  <2> QED
    BY <2>1, <2>2
<1>5. DOMAIN hs = FieldNames
  BY DEF Sound
<1>6. /\ DOMAIN g = FieldNames /\ g.index = hs.index + m /\ g.unacked = hs.unacked + m
      /\ g.open = hs.open /\ g.parsed = hs.parsed /\ g.state = hs.state
      /\ g.file = hs.file /\ g.end = hs.end /\ g.name = hs.name
      /\ g.insert = hs.insert /\ g.part = hs.part /\ g.retries = hs.retries
  BY <1>5, Names
<1> QED
  BY <1>1, <1>3, <1>4, <1>6 DEF Sound

(* A handler keeps the types of the heap.                                  *)
LEMMA InsertTypes ==
  ASSUME HeapTypes, NEW c \in Conns, NEW name, NEW p \in Nat, NEW r \in TagInsert(c, name, p)
  PROVE  /\ r.array \in [Tables -> 0 .. Blocks] /\ r.number \in [Tables -> Nat]
         /\ r.owner \in [Block -> Conns \cup {"free", "lost"}]
         /\ r.part \in Nat \cup {LAST}
<1>1. /\ array \in [Tables -> 0 .. Blocks] /\ number \in [Tables -> Nat]
      /\ owner \in [Block -> Conns \cup {"free", "lost"}]
  BY DEF HeapTypes
<1>2. CASE HandlersSet /\ name \in Tables
  <2>1. PICK heap \in IF p = 0 THEN Allocated(c, name) ELSE Unallocated :
          r = Shown(heap, name, p)
    BY <1>2 DEF TagInsert, TableRow
  <2>2. /\ heap.array \in [Tables -> 0 .. Blocks] /\ heap.number \in [Tables -> Nat]
        /\ heap.owner \in [Block -> Conns \cup {"free", "lost"}]
    <3>1. CASE p = 0
      <4>1. PICK b \in Available, n \in RowCounts :
              heap = [array |-> [array EXCEPT ![name] = b],
                      number |-> [number EXCEPT ![name] = n],
                      owner |-> [owner EXCEPT ![b] = c]]
        BY <2>1, <3>1 DEF Allocated
      <4>2. b \in Block /\ b \in 0 .. Blocks /\ n \in Nat
        BY PageAssumption DEF Available, Block
      <4>3. heap.array = [array EXCEPT ![name] = b] /\ heap.owner = [owner EXCEPT ![b] = c]
            /\ heap.number = [number EXCEPT ![name] = n]
        BY <4>1
      <4> QED
        BY <1>1, <4>2, <4>3
    <3>2. CASE p # 0
      <4>1. heap = [array |-> array, number |-> number, owner |-> owner]
        BY <2>1, <3>2 DEF Unallocated
      <4> QED
        BY <1>1, <4>1
    <3> QED
      BY <3>1, <3>2
  <2>3. /\ r.array = heap.array /\ r.number = heap.number
        /\ r.owner = IF Last(heap, name, p)
                     THEN [heap.owner EXCEPT ![heap.array[name]] = "free"]
                     ELSE heap.owner
        /\ r.part = IF Last(heap, name, p) THEN LAST ELSE p + 1
    BY <2>1 DEF Shown
  <2>4. r.part \in Nat \cup {LAST}
    BY <2>3
  <2>5. r.owner \in [Block -> Conns \cup {"free", "lost"}]
    BY <2>2, <2>3
  <2> QED
    BY <2>2, <2>3, <2>4, <2>5
<1>3. CASE ~(HandlersSet /\ name \in Tables)
  <2>1. /\ r.array = array /\ r.number = number /\ r.owner = owner /\ r.part = LAST
    BY <1>3 DEF TagInsert
  <2> QED
    BY <1>1, <2>1
<1> QED
  BY <1>2, <1>3

(* A turn of the loop. *)
LEMMA TurnIs ==
  ASSUME TInv, NEW state, Turn(state)
  PROVE  /\ run # Idle /\ run.at = "loop" /\ run.c \in Conns
         /\ run.len \in Nat \ {0} /\ run.failed \in BOOLEAN
         /\ ~run.failed => Moves("loop", run.len, conn[run.c])
         /\ Sound(conn[run.c]) /\ conn[run.c].state = state
         /\ conn[run.c].parsed \in 0 .. Len(File) - 1
         /\ Char = File[conn[run.c].parsed + 1] /\ Char \in Chars
<1>1. run.at = "loop" /\ run.len > 0 /\ conn[run.c].state = state
      /\ conn[run.c].parsed < Len(File)
  BY DEF Turn
<1>2. run # Idle
  BY <1>1 DEF Idle
<1>3. run.c \in Conns /\ Going(run.at, run.len, run.failed, conn[run.c])
  BY <1>2 DEF TInv, Run
<1>4. Sound(conn[run.c])
  BY <1>3 DEF TInv
<1>5. conn[run.c].parsed \in 0 .. Len(File)
  BY <1>4 DEF Sound
<1>6. conn[run.c].parsed \in 0 .. Len(File) - 1 /\ conn[run.c].parsed + 1 \in 1 .. Len(File)
  BY <1>1, <1>5, Sizes
<1>7. Char = File[conn[run.c].parsed + 1] /\ Char \in Chars
  BY <1>6, Sizes DEF Char
<1> QED
  BY <1>1, <1>2, <1>3, <1>4, <1>6, <1>7 DEF Going

(* What the parser leaves alone, in every turn. *)
Kept(g, hs) ==
  /\ DOMAIN g = FieldNames
  /\ g.open = hs.open /\ g.file = hs.file /\ g.end = hs.end /\ g.part = hs.part
  /\ g.insert = hs.insert /\ g.retries = hs.retries /\ g.unacked = hs.unacked

LEMMA ParsedSound ==
  ASSUME NEW hs, Sound(hs), hs.state \notin {"PLAIN", "SENDING"}, NEW g, Kept(g, hs),
         g.parsed \in 0 .. Len(File), hs.parsed <= g.parsed,
         g.state \in TagState, g.state \notin {"PLAIN", "SENDING"}, g.index \in Nat,
         g.name \in Seq(Chars), Len(g.name) <= MaxName,
         g.state = "FOUND" => g.index = Len(g.name)
  PROVE  Sound(g)
<1>1. hs.file <= hs.parsed /\ hs.file \in 0 .. Len(File) /\ hs.parsed \in 0 .. Len(File)
  BY DEF Sound
<1>2. g.file <= g.parsed
  BY <1>1, Sizes DEF Kept
<1> QED
  BY <1>2 DEF Kept, Sound

(* What a turn of the parser makes of a page. *)
Parsed(g, hs, d, state, index, name) ==
  /\ Kept(g, hs) /\ g.parsed = hs.parsed + d
  /\ g.state = state /\ g.index = index /\ g.name = name

LEMMA ParserTurn ==
  ASSUME TInv, NEW state, Turn(state), state \notin {"PLAIN", "SENDING"},
         NEW g, Scan(g), NEW d \in {0, 1}, NEW to, NEW index, NEW name,
         Parsed(g, conn[run.c], d, to, index, name),
         to \in TagState, to \notin {"PLAIN", "SENDING"}, index \in Nat,
         name \in Seq(Chars), Len(name) <= MaxName, to = "FOUND" => index = Len(name)
  PROVE  TInv'
<1>1. /\ run.c \in Conns /\ run.len \in Nat \ {0} /\ run.failed \in BOOLEAN
      /\ ~run.failed => Moves("loop", run.len, conn[run.c])
      /\ Sound(conn[run.c]) /\ conn[run.c].state = state
      /\ conn[run.c].parsed \in 0 .. Len(File) - 1
  BY TurnIs
<1>2. g.parsed \in 0 .. Len(File) /\ conn[run.c].parsed <= g.parsed
  BY <1>1, Sizes DEF Parsed
<1>3. Sound(g)
  BY <1>1, <1>2, ParsedSound DEF Parsed
<1>4. /\ conn' = [conn EXCEPT ![run.c] = g]
      /\ run' = [at |-> "loop", c |-> run.c, len |-> run.len, failed |-> run.failed]
      /\ UNCHANGED <<boot, array, number, owner>>
  BY DEF Scan, Step
<1>5. g.state # "SENDING"
  BY DEF Parsed
<1>6. Going("loop", run.len, run.failed, g)
  BY <1>1, <1>5 DEF Going, Moves
<1>7. HeapTypes' /\ boot' \in 0 .. 4
  BY <1>4 DEF TInv, HeapTypes, Block
<1> QED
  BY <1>1, <1>3, <1>4, <1>6, <1>7, RunStep

(* The turns of the parser at token x: what becomes of its state, its      *)
(* index and the name, and whether it goes on to the next token.           *)
FromNone(hs, x, d, to, index, name) ==
  /\ hs.state = "NONE" /\ d = 1 /\ name = hs.name
  /\ \/ x = LeadIn[1] /\ to = "LEADIN" /\ index = 1
     \/ x # LeadIn[1] /\ to = "NONE" /\ index = hs.index

FromLeadin(hs, x, d, to, index, name) ==
  /\ hs.state = "LEADIN"
  /\ \/ /\ hs.index = Len(LeadIn) /\ d = 0 /\ to = "FOUND" /\ index = 0
        /\ name = << >>
     \/ /\ hs.index # Len(LeadIn) /\ x = LeadIn[hs.index + 1]
        /\ d = 1 /\ to = "LEADIN" /\ index = hs.index + 1 /\ name = hs.name
     \/ /\ hs.index # Len(LeadIn) /\ x # LeadIn[hs.index + 1]
        /\ d = 1 /\ to = "NONE" /\ index = hs.index /\ name = hs.name

FromFound(hs, x, d, to, index, name) ==
  /\ hs.state = "FOUND" /\ d = 1
  /\ \/ /\ hs.index = 0 /\ x \in White
        /\ to = "FOUND" /\ index = 0 /\ name = hs.name
     \/ /\ hs.index = 0 /\ x \notin White /\ x = LeadOut[1]
        /\ to = "NONE" /\ index = 0 /\ name = hs.name
     \/ /\ hs.index # 0 /\ x = LeadOut[1]
        /\ to = "LEADOUT" /\ index = 1 /\ name = hs.name
     \/ /\ hs.index # 0 /\ x \in White /\ x # LeadOut[1]
        /\ to = "LEADOUT" /\ index = 0 /\ name = hs.name
     \/ /\ x \notin White /\ x # LeadOut[1] /\ hs.index < MaxName
        /\ to = "FOUND" /\ index = hs.index + 1 /\ name = Append(hs.name, x)
     \/ /\ x \notin White /\ x # LeadOut[1] /\ ~(hs.index < MaxName)
        /\ to = "NONE" /\ index = hs.index /\ name = hs.name

FromLeadout(hs, x, d, to, index, name) ==
  /\ hs.state = "LEADOUT" /\ d = 1 /\ name = hs.name
  /\ ~(x = LeadOut[hs.index + 1] /\ hs.index = Len(LeadOut) - 1)
  /\ \/ hs.index = 0 /\ x \in White /\ to = "LEADOUT" /\ index = 0
     \/ /\ ~(hs.index = 0 /\ x \in White) /\ x = LeadOut[hs.index + 1]
        /\ to = "LEADOUT" /\ index = hs.index + 1
     \/ /\ ~(hs.index = 0 /\ x \in White) /\ x # LeadOut[hs.index + 1]
        /\ to = "NONE" /\ index = hs.index

Turns(hs, x, d, to, index, name) ==
  \/ FromNone(hs, x, d, to, index, name)
  \/ FromLeadin(hs, x, d, to, index, name)
  \/ FromFound(hs, x, d, to, index, name)
  \/ FromLeadout(hs, x, d, to, index, name)

(* The fields of a page that is parsed further. *)
LEMMA ParsedFields ==
  ASSUME NEW hs, DOMAIN hs = FieldNames, NEW to, NEW index, NEW name
  PROVE  LET one == [hs EXCEPT !.parsed = @ + 1] IN
         /\ Parsed(one, hs, 1, hs.state, hs.index, hs.name)
         /\ Parsed([one EXCEPT !.state = to], hs, 1, to, hs.index, hs.name)
         /\ Parsed([one EXCEPT !.index = index], hs, 1, hs.state, index, hs.name)
         /\ Parsed([one EXCEPT !.state = to, !.index = index], hs, 1, to, index, hs.name)
         /\ Parsed([one EXCEPT !.name = name, !.index = index], hs, 1, hs.state, index, name)
<1>1. PICK one : one = [hs EXCEPT !.parsed = @ + 1]
  OBVIOUS
<1>2. Kept(one, hs) /\ one.parsed = hs.parsed + 1 /\ one.state = hs.state
      /\ one.index = hs.index /\ one.name = hs.name
  BY <1>1, Names DEF Kept
<1>3. Parsed(one, hs, 1, hs.state, hs.index, hs.name)
  BY <1>2 DEF Parsed
<1>4. Parsed([one EXCEPT !.state = to], hs, 1, to, hs.index, hs.name)
  BY <1>2, Names DEF Parsed, Kept
<1>5. Parsed([one EXCEPT !.index = index], hs, 1, hs.state, index, hs.name)
  BY <1>2, Names DEF Parsed, Kept
<1>6. Parsed([one EXCEPT !.state = to, !.index = index], hs, 1, to, index, hs.name)
  BY <1>2, Names DEF Parsed, Kept
<1>7. Parsed([one EXCEPT !.name = name, !.index = index], hs, 1, hs.state, index, name)
  BY <1>2, Names DEF Parsed, Kept
<1> QED
  BY <1>1, <1>3, <1>4, <1>5, <1>6, <1>7

LEMMA ParsedNow ==
  ASSUME NEW hs, DOMAIN hs = FieldNames, hs.parsed \in Nat, NEW to, NEW index, NEW name
  PROVE  Parsed([hs EXCEPT !.state = to, !.index = index, !.name = name], hs, 0,
                to, index, name)
BY Names DEF Parsed, Kept

(* Each action of the parser is one of the turns. *)
ParsesTo(g, d, to, index, name) ==
  /\ Scan(g) /\ Turn(conn[run.c].state)
  /\ Parsed(g, conn[run.c], d, to, index, name)
  /\ Turns(conn[run.c], Char, d, to, index, name)

LEMMA NoneTurns ==
  ASSUME TInv, TagNone PROVE \E g, d, to, index, name : ParsesTo(g, d, to, index, name)
<1>1. PICK hs, x : hs = conn[run.c] /\ x = Char
  OBVIOUS
<1>2. Turn("NONE") /\ hs.state = "NONE" /\ DOMAIN hs = FieldNames
  BY <1>1, TurnIs DEF TagNone, Sound
<1>3. PICK one : one = [hs EXCEPT !.parsed = @ + 1]
  OBVIOUS
<1>4. one = OneParsed
  BY <1>1, <1>3 DEF OneParsed
<1>5. CASE x = LeadIn[1]
  <2>1. PICK g : g = [one EXCEPT !.state = "LEADIN", !.index = 1]
    OBVIOUS
  <2>2. Scan(g)
    BY <1>1, <1>4, <1>5, <2>1 DEF TagNone
  <2>3. Parsed(g, hs, 1, "LEADIN", 1, hs.name)
    BY <1>2, <1>3, <2>1, ParsedFields
  <2>4. Turns(hs, x, 1, "LEADIN", 1, hs.name)
    BY <1>2, <1>5 DEF Turns, FromNone
  <2> QED
    BY <1>1, <1>2, <2>2, <2>3, <2>4 DEF ParsesTo
<1>6. CASE x # LeadIn[1]
  <2>2. Scan(one)
    BY <1>1, <1>4, <1>6 DEF TagNone
  <2>3. Parsed(one, hs, 1, hs.state, hs.index, hs.name)
    BY <1>2, <1>3, ParsedFields
  <2>4. Turns(hs, x, 1, hs.state, hs.index, hs.name)
    BY <1>2, <1>6 DEF Turns, FromNone
  <2> QED
    BY <1>1, <1>2, <2>2, <2>3, <2>4 DEF ParsesTo
<1> QED
  BY <1>5, <1>6

LEMMA LeadinTurns ==
  ASSUME TInv, TagLeadin PROVE \E g, d, to, index, name : ParsesTo(g, d, to, index, name)
<1>1. PICK hs, x : hs = conn[run.c] /\ x = Char
  OBVIOUS
<1>2. Turn("LEADIN") /\ hs.state = "LEADIN" /\ DOMAIN hs = FieldNames
      /\ hs.parsed \in Nat
  BY <1>1, TurnIs DEF TagLeadin, Sound
<1>3. PICK one : one = [hs EXCEPT !.parsed = @ + 1]
  OBVIOUS
<1>4. one = OneParsed
  BY <1>1, <1>3 DEF OneParsed
<1>5. CASE hs.index = Len(LeadIn)
  <2>1. PICK g : g = [hs EXCEPT !.state = "FOUND", !.index = 0, !.name = << >>]
    OBVIOUS
  <2>2. Scan(g)
    BY <1>1, <1>5, <2>1 DEF TagLeadin
  <2>3. Parsed(g, hs, 0, "FOUND", 0, << >>)
    BY <1>2, <2>1, ParsedNow
  <2>4. Turns(hs, x, 0, "FOUND", 0, << >>)
    BY <1>2, <1>5 DEF Turns, FromLeadin
  <2> QED
    BY <1>1, <1>2, <2>2, <2>3, <2>4 DEF ParsesTo
<1>6. CASE hs.index # Len(LeadIn) /\ x = LeadIn[hs.index + 1]
  <2>1. PICK g : g = [one EXCEPT !.index = hs.index + 1]
    OBVIOUS
  <2>0. g = [one EXCEPT !.index = @ + 1]
    BY <1>3, <2>1, <1>2, Names
  <2>2. Scan(g)
    BY <1>1, <1>4, <1>6, <2>0 DEF TagLeadin
  <2>3. Parsed(g, hs, 1, hs.state, hs.index + 1, hs.name)
    BY <1>2, <1>3, <2>1, ParsedFields
  <2>4. Turns(hs, x, 1, hs.state, hs.index + 1, hs.name)
    BY <1>2, <1>6 DEF Turns, FromLeadin
  <2> QED
    BY <1>1, <1>2, <2>2, <2>3, <2>4 DEF ParsesTo
<1>7. CASE hs.index # Len(LeadIn) /\ x # LeadIn[hs.index + 1]
  <2>1. PICK g : g = [one EXCEPT !.state = "NONE"]
    OBVIOUS
  <2>2. Scan(g)
    BY <1>1, <1>4, <1>7, <2>1 DEF TagLeadin
  <2>3. Parsed(g, hs, 1, "NONE", hs.index, hs.name)
    BY <1>2, <1>3, <2>1, ParsedFields
  <2>4. Turns(hs, x, 1, "NONE", hs.index, hs.name)
    BY <1>2, <1>7 DEF Turns, FromLeadin
  <2> QED
    BY <1>1, <1>2, <2>2, <2>3, <2>4 DEF ParsesTo
<1> QED
  BY <1>5, <1>6, <1>7

LEMMA FoundTurns ==
  ASSUME TInv, TagFound PROVE \E g, d, to, index, name : ParsesTo(g, d, to, index, name)
<1>1. PICK hs, x : hs = conn[run.c] /\ x = Char
  OBVIOUS
<1>2. Turn("FOUND") /\ hs.state = "FOUND" /\ DOMAIN hs = FieldNames
  BY <1>1, TurnIs DEF TagFound, Sound
<1>3. PICK one : one = [hs EXCEPT !.parsed = @ + 1]
  OBVIOUS
<1>4. one = OneParsed
  BY <1>1, <1>3 DEF OneParsed
<1>5. CASE hs.index = 0 /\ x \in White
  <2>2. Scan(one)
    BY <1>1, <1>4, <1>5 DEF TagFound
  <2>3. Parsed(one, hs, 1, hs.state, hs.index, hs.name)
    BY <1>2, <1>3, ParsedFields
  <2>4. Turns(hs, x, 1, hs.state, hs.index, hs.name)
    BY <1>2, <1>5 DEF Turns, FromFound
  <2> QED
    BY <1>1, <1>2, <2>2, <2>3, <2>4 DEF ParsesTo
<1>6. CASE ~(hs.index = 0 /\ x \in White) /\ (x = LeadOut[1] \/ x \in White) /\ hs.index = 0
  <2>1. PICK g : g = [one EXCEPT !.state = "NONE"]
    OBVIOUS
  <2>2. Scan(g)
    BY <1>1, <1>4, <1>6, <2>1 DEF TagFound
  <2>3. Parsed(g, hs, 1, "NONE", hs.index, hs.name)
    BY <1>2, <1>3, <2>1, ParsedFields
  <2>4. Turns(hs, x, 1, "NONE", hs.index, hs.name)
    BY <1>2, <1>6 DEF Turns, FromFound
  <2> QED
    BY <1>1, <1>2, <2>2, <2>3, <2>4 DEF ParsesTo
<1>7. CASE (x = LeadOut[1] \/ x \in White) /\ hs.index # 0
  <2>0. PICK i : i = IF x = LeadOut[1] THEN 1 ELSE 0
    OBVIOUS
  <2>1. PICK g : g = [one EXCEPT !.state = "LEADOUT", !.index = i]
    OBVIOUS
  <2>2. Scan(g)
    BY <1>1, <1>4, <1>7, <2>0, <2>1 DEF TagFound
  <2>3. Parsed(g, hs, 1, "LEADOUT", i, hs.name)
    BY <1>2, <1>3, <2>1, ParsedFields
  <2>4. Turns(hs, x, 1, "LEADOUT", i, hs.name)
    BY <1>2, <1>7, <2>0 DEF Turns, FromFound
  <2> QED
    BY <1>1, <1>2, <2>2, <2>3, <2>4 DEF ParsesTo
<1>8. CASE ~(x = LeadOut[1] \/ x \in White) /\ hs.index < MaxName
  <2>1. PICK g : g = [one EXCEPT !.name = Append(hs.name, x), !.index = hs.index + 1]
    OBVIOUS
  <2>0. g = [one EXCEPT !.name = Append(@, x), !.index = @ + 1]
    BY <1>3, <2>1, <1>2, Names
  <2>2. Scan(g)
    BY <1>1, <1>4, <1>8, <2>0 DEF TagFound
  <2>3. Parsed(g, hs, 1, hs.state, hs.index + 1, Append(hs.name, x))
    BY <1>2, <1>3, <2>1, ParsedFields
  <2>4. Turns(hs, x, 1, hs.state, hs.index + 1, Append(hs.name, x))
    BY <1>2, <1>8 DEF Turns, FromFound
  <2> QED
    BY <1>1, <1>2, <2>2, <2>3, <2>4 DEF ParsesTo
<1>9. CASE ~(x = LeadOut[1] \/ x \in White) /\ ~(hs.index < MaxName)
  <2>1. PICK g : g = [one EXCEPT !.state = "NONE"]
    OBVIOUS
  <2>2. Scan(g)
    BY <1>1, <1>4, <1>9, <2>1 DEF TagFound
  <2>3. Parsed(g, hs, 1, "NONE", hs.index, hs.name)
    BY <1>2, <1>3, <2>1, ParsedFields
  <2>4. Turns(hs, x, 1, "NONE", hs.index, hs.name)
    BY <1>2, <1>9 DEF Turns, FromFound
  <2> QED
    BY <1>1, <1>2, <2>2, <2>3, <2>4 DEF ParsesTo
<1> QED
  BY <1>5, <1>6, <1>7, <1>8, <1>9

LEMMA LeadoutTurns ==
  ASSUME TInv, TagLeadout PROVE \E g, d, to, index, name : ParsesTo(g, d, to, index, name)
<1>1. PICK hs, x : hs = conn[run.c] /\ x = Char
  OBVIOUS
<1>2. Turn("LEADOUT") /\ hs.state = "LEADOUT" /\ DOMAIN hs = FieldNames
  BY <1>1, TurnIs DEF TagLeadout, Sound
<1>3. PICK one : one = [hs EXCEPT !.parsed = @ + 1]
  OBVIOUS
<1>4. one = OneParsed
  BY <1>1, <1>3 DEF OneParsed
<1>5. ~(x = LeadOut[hs.index + 1] /\ hs.index = Len(LeadOut) - 1)
  BY <1>1 DEF TagLeadout
<1>6. CASE hs.index = 0 /\ x \in White
  <2>2. Scan(one)
    BY <1>1, <1>4, <1>6 DEF TagLeadout
  <2>3. Parsed(one, hs, 1, hs.state, hs.index, hs.name)
    BY <1>2, <1>3, ParsedFields
  <2>4. Turns(hs, x, 1, hs.state, hs.index, hs.name)
    BY <1>2, <1>5, <1>6 DEF Turns, FromLeadout
  <2> QED
    BY <1>1, <1>2, <2>2, <2>3, <2>4 DEF ParsesTo
<1>7. CASE ~(hs.index = 0 /\ x \in White) /\ x = LeadOut[hs.index + 1]
  <2>1. PICK g : g = [one EXCEPT !.index = hs.index + 1]
    OBVIOUS
  <2>0. g = [one EXCEPT !.index = @ + 1]
    BY <1>3, <2>1, <1>2, Names
  <2>2. Scan(g)
    BY <1>1, <1>4, <1>7, <2>0 DEF TagLeadout
  <2>3. Parsed(g, hs, 1, hs.state, hs.index + 1, hs.name)
    BY <1>2, <1>3, <2>1, ParsedFields
  <2>4. Turns(hs, x, 1, hs.state, hs.index + 1, hs.name)
    BY <1>2, <1>5, <1>7 DEF Turns, FromLeadout
  <2> QED
    BY <1>1, <1>2, <2>2, <2>3, <2>4 DEF ParsesTo
<1>8. CASE ~(hs.index = 0 /\ x \in White) /\ x # LeadOut[hs.index + 1]
  <2>1. PICK g : g = [one EXCEPT !.state = "NONE"]
    OBVIOUS
  <2>2. Scan(g)
    BY <1>1, <1>4, <1>8, <2>1 DEF TagLeadout
  <2>3. Parsed(g, hs, 1, "NONE", hs.index, hs.name)
    BY <1>2, <1>3, <2>1, ParsedFields
  <2>4. Turns(hs, x, 1, "NONE", hs.index, hs.name)
    BY <1>2, <1>5, <1>8 DEF Turns, FromLeadout
  <2> QED
    BY <1>1, <1>2, <2>2, <2>3, <2>4 DEF ParsesTo
<1> QED
  BY <1>6, <1>7, <1>8

LEMMA ParserTyped ==
  ASSUME TInv, TagNone \/ TagLeadin \/ TagFound \/ TagLeadout PROVE TInv'
<1>1. PICK g, d, to, index, name : ParsesTo(g, d, to, index, name)
  BY NoneTurns, LeadinTurns, FoundTurns, LeadoutTurns
<1>2. PICK hs, x : hs = conn[run.c] /\ x = Char
  OBVIOUS
<1>3. /\ Scan(g) /\ Turn(hs.state) /\ Parsed(g, hs, d, to, index, name)
      /\ Turns(hs, x, d, to, index, name)
  BY <1>1, <1>2 DEF ParsesTo
<1>4. Sound(hs) /\ x \in Chars
  BY <1>2, <1>3, TurnIs
<1>5. /\ hs.state \notin {"PLAIN", "SENDING"} /\ d \in {0, 1}
      /\ to \in TagState /\ to \notin {"PLAIN", "SENDING"}
  BY <1>3 DEF Turns, FromNone, FromLeadin, FromFound, FromLeadout, TagState
<1>6. hs.index \in Nat
  BY <1>4 DEF Sound
<1>7. index \in Nat
  BY <1>3, <1>6 DEF Turns, FromNone, FromLeadin, FromFound, FromLeadout
<1>8. /\ hs.name \in Seq(Chars) /\ Len(hs.name) <= MaxName
      /\ hs.state = "FOUND" => hs.index = Len(hs.name)
  BY <1>4 DEF Sound
<1>9. \/ name = hs.name /\ (to = "FOUND" => hs.state = "FOUND" /\ index = hs.index)
      \/ name = << >> /\ index = 0
      \/ /\ name = Append(hs.name, x) /\ index = hs.index + 1
         /\ hs.state = "FOUND" /\ hs.index < MaxName
  BY <1>3 DEF Turns, FromNone, FromLeadin, FromFound, FromLeadout
<1>10. name \in Seq(Chars) /\ Len(name) <= MaxName /\ (to = "FOUND" => index = Len(name))
  <2>1. CASE name = hs.name /\ (to = "FOUND" => hs.state = "FOUND" /\ index = hs.index)
    BY <1>8, <2>1
  <2>2. CASE name = << >> /\ index = 0
    BY <2>2, Sizes
  <2>3. CASE /\ name = Append(hs.name, x) /\ index = hs.index + 1
             /\ hs.state = "FOUND" /\ hs.index < MaxName
    <3>1. Len(name) = Len(hs.name) + 1 /\ name \in Seq(Chars)
      BY <1>4, <1>8, <2>3
    <3> QED
      BY <1>6, <1>8, <2>3, <3>1, Sizes
  <2> QED
    BY <1>9, <2>1, <2>2, <2>3
<1> QED
  BY <1>2, <1>3, <1>5, <1>7, <1>10, ParserTurn

(* A write, of the page or of an insert, that goes on with the loop.       *)
LEMMA WriteTyped ==
  ASSUME TInv, run # Idle, NEW hs, Sound(hs), hs.state = "SENDING", NEW n \in Nat,
         \/ WriteFile(run.c, hs, n) /\ n <= hs.parsed - hs.file
         \/ WriteInsert(run.c, hs, n),
         HeapTypes', boot' = boot
  PROVE  TInv'
<1>1. run.c \in Conns /\ run.failed \in BOOLEAN
  BY DEF TInv, Run, Going
<1>2. boot' \in 0 .. 4
  BY DEF TInv
<1>3. ASSUME NEW m \in Nat \ {0}, NEW g, Sound(g), g.unacked > 0,
             NEW w, Step(run.c, g, "loop", m, w)
      PROVE  TInv'
  <2>1. Going("loop", m, run.failed, g)
    BY <1>1, <1>3 DEF Going, Moves
  <2>2. /\ conn' = [conn EXCEPT ![run.c] = g]
        /\ run' = [at |-> "loop", c |-> run.c, len |-> m, failed |-> run.failed]
    BY <1>3 DEF Step
  <2> QED
    BY <1>1, <1>2, <1>3, <2>1, <2>2, RunStep
<1>4. CASE Failed(run.c, hs, "end")
  <2>1. Going("end", 0, TRUE, hs)
    BY DEF Going
  <2>2. /\ conn' = [conn EXCEPT ![run.c] = hs]
        /\ run' = [at |-> "end", c |-> run.c, len |-> 0, failed |-> TRUE]
    BY <1>4 DEF Failed
  <2> QED
    BY <1>1, <1>2, <2>1, <2>2, RunStep
<1>5. CASE /\ WriteFile(run.c, hs, n) /\ n <= hs.parsed - hs.file
           /\ ~Failed(run.c, hs, "end")
  <2>1. PICK m \in Taken(hs, n) :
          Step(run.c, [hs EXCEPT !.file = @ + m, !.unacked = @ + m], "loop", m,
               FileUnits(hs, m))
    BY <1>5 DEF WriteFile
  <2>2. PICK g : g = [hs EXCEPT !.file = @ + m, !.unacked = @ + m]
    OBVIOUS
  <2>3. Sound(g) /\ g.unacked > 0 /\ m \in Nat \ {0}
    BY <1>5, <2>2, FileSound
  <2>4. Step(run.c, g, "loop", m, FileUnits(hs, m))
    BY <2>1, <2>2
  <2> QED
    BY <1>3, <2>3, <2>4
<1>6. CASE WriteInsert(run.c, hs, n) /\ ~Failed(run.c, hs, "end")
  <2>1. PICK m \in Taken(hs, n) :
          Step(run.c, [hs EXCEPT !.index = @ + m, !.unacked = @ + m], "loop", m,
               InsertUnits(hs, m))
    BY <1>6 DEF WriteInsert
  <2>2. PICK g : g = [hs EXCEPT !.index = @ + m, !.unacked = @ + m]
    OBVIOUS
  <2>3. Sound(g) /\ g.unacked > 0 /\ m \in Nat \ {0}
    BY <2>2, IndexSound
  <2>4. Step(run.c, g, "loop", m, InsertUnits(hs, m))
    BY <2>1, <2>2
  <2> QED
    BY <1>3, <2>3, <2>4
<1> QED
  BY <1>4, <1>5, <1>6

LEMMA LeastNat ==
  ASSUME NEW a \in Nat, NEW b \in Nat
  PROVE  Least(a, b) \in Nat /\ Least(a, b) <= a /\ Least(a, b) <= b
BY DEF Least

(* The page of a tag that is complete. *)
Completed(hs, insert, part) ==
  [[hs EXCEPT !.parsed = @ + 1] EXCEPT !.state = "SENDING", !.index = 0,
                                       !.end = hs.parsed + 1,
                                       !.insert = insert, !.part = part]

LEMMA CompleteIs ==
  ASSUME NEW hs, Sound(hs), hs.state = "LEADOUT", hs.parsed \in 0 .. Len(File) - 1,
         NEW insert, NEW part \in Nat \cup {LAST}
  PROVE  LET g == Completed(hs, insert, part) IN
         /\ Sound(g) /\ g.state = "SENDING" /\ g.end = g.parsed
         /\ g.parsed = hs.parsed + 1 /\ g.file = hs.file
         /\ g.index = 0 /\ g.insert = insert /\ g.part = part
         /\ g.name = hs.name /\ g.open = hs.open
<1>1. PICK g : g = Completed(hs, insert, part)
  OBVIOUS
<1>2. DOMAIN hs = FieldNames
  BY DEF Sound
<1>3. /\ DOMAIN g = FieldNames /\ g.state = "SENDING" /\ g.index = 0
      /\ g.end = hs.parsed + 1 /\ g.parsed = hs.parsed + 1
      /\ g.insert = insert /\ g.part = part /\ g.open = hs.open
      /\ g.file = hs.file /\ g.name = hs.name /\ g.retries = hs.retries
      /\ g.unacked = hs.unacked
  BY <1>1, <1>2, Names DEF Completed
<1>4. hs.file \in 0 .. Len(File) /\ hs.file <= hs.parsed
  BY DEF Sound
<1>5. hs.parsed + 1 \in 0 .. Len(File) /\ hs.file <= hs.parsed + 1 /\ 0 \in Nat
  BY <1>4, Sizes
<1>6. Sound(g)
  BY <1>3, <1>4, <1>5 DEF Sound, TagState
<1> QED
  BY <1>1, <1>3, <1>6

LEMMA CompleteTyped == ASSUME TInv, TagComplete PROVE TInv'
<1>1. Turn("LEADOUT")
  BY DEF TagComplete
<1>2. PICK r, hs :
        /\ r \in TagInsert(run.c, conn[run.c].name, 0)
        /\ hs = [OneParsed EXCEPT !.state = "SENDING", !.index = 0,
                                  !.end = conn[run.c].parsed + 1,
                                  !.insert = r.insert, !.part = r.part]
        /\ WriteFile(run.c, hs, Least(run.len, hs.end - hs.file))
        /\ array' = r.array /\ number' = r.number /\ owner' = r.owner
        /\ boot' = boot
  BY DEF TagComplete
<1>3. run # Idle /\ run.c \in Conns /\ run.len \in Nat /\ HeapTypes /\ 0 \in Nat
  BY <1>1, TurnIs DEF TInv
<1>4. /\ r.array \in [Tables -> 0 .. Blocks] /\ r.number \in [Tables -> Nat]
      /\ r.owner \in [Block -> Conns \cup {"free", "lost"}]
      /\ r.part \in Nat \cup {LAST}
  BY <1>2, <1>3, InsertTypes
<1>5. HeapTypes'
  BY <1>2, <1>4 DEF HeapTypes, Block
<1>6. Sound(hs) /\ hs.state = "SENDING" /\ hs.end = hs.parsed
  <2>1. hs = Completed(conn[run.c], r.insert, r.part)
    BY <1>2 DEF Completed, OneParsed
  <2>2. PICK a, i, p : a = conn[run.c] /\ i = r.insert /\ p = r.part
    OBVIOUS
  <2>3. Sound(a) /\ a.state = "LEADOUT" /\ a.parsed \in 0 .. Len(File) - 1
    BY <1>1, <2>2, TurnIs
  <2>4. p \in Nat \cup {LAST}
    BY <1>4, <2>2
  <2>5. hs = Completed(a, i, p)
    BY <2>1, <2>2
  <2> QED
    BY <2>3, <2>4, <2>5, CompleteIs
<1>7. hs.end - hs.file \in Nat
  BY <1>6, Sizes DEF Sound
<1>8. PICK n \in Nat : n = Least(run.len, hs.end - hs.file) /\ n <= hs.parsed - hs.file
  BY <1>3, <1>6, <1>7, LeastNat
<1> QED
  BY <1>2, <1>3, <1>5, <1>6, <1>8, WriteTyped

(* The page when the next insert is there. *)
Renewed(hs, insert, part) == [hs EXCEPT !.index = 0, !.insert = insert, !.part = part]

LEMMA NextIs ==
  ASSUME NEW hs, Sound(hs), hs.state = "SENDING", NEW insert, NEW part \in Nat \cup {LAST}
  PROVE  LET g == Renewed(hs, insert, part) IN
         /\ Sound(g) /\ g.state = "SENDING" /\ g.end = hs.end
         /\ g.parsed = hs.parsed /\ g.file = hs.file
         /\ g.index = 0 /\ g.insert = insert /\ g.part = part
         /\ g.name = hs.name /\ g.open = hs.open
<1>1. PICK g : g = Renewed(hs, insert, part)
  OBVIOUS
<1>2. DOMAIN hs = FieldNames
  BY DEF Sound
<1>3. /\ DOMAIN g = FieldNames /\ g.state = hs.state /\ g.index = 0
      /\ g.end = hs.end /\ g.parsed = hs.parsed
      /\ g.insert = insert /\ g.part = part /\ g.open = hs.open
      /\ g.file = hs.file /\ g.name = hs.name /\ g.retries = hs.retries
      /\ g.unacked = hs.unacked
  BY <1>1, <1>2, Names DEF Renewed
<1>4. Sound(g)
  BY <1>3 DEF Sound
<1> QED
  BY <1>1, <1>3, <1>4

LEMMA NextTyped == ASSUME TInv, NextInsert PROVE TInv'
<1>1. Turn("SENDING") /\ conn[run.c].part # LAST
  BY DEF NextInsert
<1>2. PICK r, hs :
        /\ r \in TagInsert(run.c, conn[run.c].name, conn[run.c].part)
        /\ hs = [conn[run.c] EXCEPT !.index = 0, !.insert = r.insert, !.part = r.part]
        /\ WriteInsert(run.c, hs, Least(run.len, InsertLen))
        /\ array' = r.array /\ number' = r.number /\ owner' = r.owner
        /\ boot' = boot
  BY DEF NextInsert
<1>3. run # Idle /\ run.c \in Conns /\ run.len \in Nat /\ HeapTypes
      /\ Sound(conn[run.c]) /\ conn[run.c].state = "SENDING"
  BY <1>1, TurnIs DEF TInv
<1>4. conn[run.c].part \in Nat
  BY <1>1, <1>3 DEF Sound
<1>5. /\ r.array \in [Tables -> 0 .. Blocks] /\ r.number \in [Tables -> Nat]
      /\ r.owner \in [Block -> Conns \cup {"free", "lost"}]
      /\ r.part \in Nat \cup {LAST}
  BY <1>2, <1>3, <1>4, InsertTypes
<1>6. HeapTypes'
  BY <1>2, <1>5 DEF HeapTypes, Block
<1>7. Sound(hs) /\ hs.state = "SENDING"
  <2>1. hs = Renewed(conn[run.c], r.insert, r.part)
    BY <1>2 DEF Renewed
  <2>2. PICK a, i, p : a = conn[run.c] /\ i = r.insert /\ p = r.part
    OBVIOUS
  <2>3. Sound(a) /\ a.state = "SENDING"
    BY <1>3, <2>2
  <2>4. p \in Nat \cup {LAST}
    BY <1>5, <2>2
  <2>5. hs = Renewed(a, i, p)
    BY <2>1, <2>2
  <2> QED
    BY <2>3, <2>4, <2>5, NextIs
<1>8. PICK n \in Nat : n = Least(run.len, InsertLen)
  BY <1>3, Sizes, LeastNat
<1> QED
  BY <1>2, <1>3, <1>6, <1>7, <1>8, WriteTyped

(* A step of a call that only moves on, writes of the page or fails.       *)
LEMMA MoveTyped ==
  ASSUME TInv, NEW c \in Conns, NEW g, Sound(g), NEW at, NEW len, NEW failed,
         Going(at, len, failed, g), conn' = [conn EXCEPT ![c] = g],
         run' = [at |-> at, c |-> c, len |-> len, failed |-> failed],
         UNCHANGED <<boot, Heaps>>
  PROVE  TInv'
<1>1. HeapTypes' /\ boot' \in 0 .. 4
  BY DEF TInv, HeapTypes, Block
<1> QED
  BY <1>1, RunStep

(* The call in progress, and what may come of it. *)
LEMMA CallIs ==
  ASSUME TInv, run.at \in {"begin", "loop", "end", "return"}
  PROVE  /\ run # Idle /\ run.c \in Conns /\ Sound(conn[run.c]) /\ run.failed \in BOOLEAN
         /\ Going(run.at, run.len, run.failed, conn[run.c])
         /\ Space(conn[run.c]) \in Nat
         /\ Space(conn[run.c]) = 0 => conn[run.c].unacked > 0
<1>1. run # Idle
  BY DEF Idle
<1>2. run.c \in Conns /\ Going(run.at, run.len, run.failed, conn[run.c])
  BY <1>1 DEF TInv, Run
<1>3. Sound(conn[run.c])
  BY <1>2 DEF TInv
<1>4. conn[run.c].unacked \in 0 .. SndBuf
  BY <1>3 DEF Sound
<1> QED
  BY <1>1, <1>2, <1>3, <1>4, Sizes DEF Going, Space

LEMMA BeginTyped == ASSUME TInv, SendParsed PROVE TInv'
<1>1. run.at = "begin"
  BY DEF SendParsed
<1>2. PICK c, hs, f : c = run.c /\ hs = conn[c] /\ f = run.failed
  OBVIOUS
<1>3. /\ c \in Conns /\ Sound(hs) /\ f \in BOOLEAN /\ Space(hs) \in Nat
      /\ Space(hs) = 0 => hs.unacked > 0
  BY <1>1, <1>2, CallIs
<1>4. PICK left : left = IF hs.state = "PLAIN" THEN Len(File) - hs.file
                         ELSE hs.parsed - hs.file
  OBVIOUS
<1>5. /\ hs.file \in 0 .. Len(File) /\ hs.parsed \in 0 .. Len(File)
      /\ hs.state # "PLAIN" => hs.file <= hs.parsed
      /\ hs.state = "PLAIN" => hs.parsed = 0
  BY <1>3 DEF Sound
<1>6. left \in Nat
  BY <1>4, <1>5, Sizes
<1>7. UNCHANGED <<boot, Heaps>>
  BY DEF SendParsed
<1>8. /\ hs.state = "PLAIN" => left <= Len(File) - hs.file
      /\ hs.state # "PLAIN" => left <= hs.parsed - hs.file
  BY <1>4, <1>6
<1>9. \/ left = 0 /\ Step(c, hs, "loop", Space(hs), << >>)
      \/ left > 0 /\ Space(hs) = 0 /\ Step(c, hs, "return", 0, << >>)
      \/ \E m \in Taken(hs, left), at \in {"return", "loop"} :
           Step(c, [hs EXCEPT !.file = @ + m, !.unacked = @ + m], at, m, FileUnits(hs, m))
      \/ Failed(c, hs, IF hs.state = "PLAIN" THEN "return" ELSE "end")
  BY <1>2, <1>4 DEF SendParsed
<1>10. CASE left = 0 /\ Step(c, hs, "loop", Space(hs), << >>)
  <2>1. hs.state = "SENDING" => hs.file = hs.parsed
    BY <1>4, <1>5, <1>10
  <2>2. Going("loop", Space(hs), f, hs)
    BY <1>3, <2>1 DEF Going, Moves
  <2> QED
    BY <1>2, <1>3, <1>7, <1>10, <2>2, MoveTyped DEF Step
<1>11. CASE Space(hs) = 0 /\ Step(c, hs, "return", 0, << >>)
  <2>1. Going("return", 0, f, hs)
    BY <1>3, <1>11 DEF Going, Moves
  <2> QED
    BY <1>2, <1>3, <1>7, <1>11, <2>1, MoveTyped DEF Step
<1>12. ASSUME NEW m \in Taken(hs, left), NEW at \in {"return", "loop"},
              Step(c, [hs EXCEPT !.file = @ + m, !.unacked = @ + m], at, m,
                   FileUnits(hs, m))
       PROVE  TInv'
  <2>1. PICK g : g = [hs EXCEPT !.file = @ + m, !.unacked = @ + m]
    OBVIOUS
  <2>2. Sound(g) /\ g.unacked > 0 /\ m \in Nat \ {0}
    BY <1>3, <1>6, <1>8, <2>1, FileSound
  <2>3. Going(at, m, f, g)
    BY <1>3, <2>2 DEF Going, Moves
  <2>4. Step(c, g, at, m, FileUnits(hs, m))
    BY <1>12, <2>1
  <2> QED
    BY <1>2, <1>3, <1>7, <2>2, <2>3, <2>4, MoveTyped DEF Step
<1>13. ASSUME NEW at, at = (IF hs.state = "PLAIN" THEN "return" ELSE "end"), Failed(c, hs, at)
       PROVE  TInv'
  <2>1. Going(at, 0, TRUE, hs)
    BY <1>13 DEF Going
  <2> QED
    BY <1>3, <1>7, <1>13, <2>1, MoveTyped DEF Failed
<1> QED
  BY <1>9, <1>10, <1>11, <1>12, <1>13

LEMMA SendingTyped ==
  ASSUME TInv, SendBefore \/ SendInsert \/ TagSent PROVE TInv'
<1>1. Turn("SENDING")
  BY DEF SendBefore, SendInsert, TagSent
<1>2. PICK c, hs : c = run.c /\ hs = conn[c]
  OBVIOUS
<1>3. /\ run # Idle /\ c \in Conns /\ Sound(hs) /\ hs.state = "SENDING"
      /\ run.len \in Nat \ {0} /\ run.failed \in BOOLEAN
  BY <1>1, <1>2, TurnIs
<1>4. /\ hs.file \in 0 .. Len(File) /\ hs.end = hs.parsed /\ hs.parsed \in 0 .. Len(File)
      /\ hs.index \in Nat /\ DOMAIN hs = FieldNames
  BY <1>3 DEF Sound
<1>5. UNCHANGED <<boot, Heaps>>
  BY DEF SendBefore, SendInsert, TagSent, Scan
<1>6. HeapTypes' /\ boot' = boot
  BY <1>5 DEF TInv, HeapTypes, Block
<1>7. CASE SendBefore
  <2>1. hs.end - hs.file \in Nat /\ WriteFile(c, hs, Least(run.len, hs.end - hs.file))
    BY <1>2, <1>4, <1>7, Sizes DEF SendBefore
  <2>2. PICK n \in Nat : n = Least(run.len, hs.end - hs.file) /\ n <= hs.parsed - hs.file
    BY <1>3, <1>4, <2>1, LeastNat
  <2> QED
    BY <1>2, <1>3, <1>6, <2>1, <2>2, WriteTyped
<1>8. CASE SendInsert
  <2>1. InsertLen - hs.index \in Nat /\ WriteInsert(c, hs, Least(run.len, InsertLen - hs.index))
    BY <1>2, <1>4, <1>8, Sizes DEF SendInsert
  <2>2. PICK n \in Nat : n = Least(run.len, InsertLen - hs.index)
    BY <1>3, <2>1, LeastNat
  <2> QED
    BY <1>2, <1>3, <1>6, <2>1, <2>2, WriteTyped
<1>9. CASE TagSent
  <2>1. PICK g : g = [hs EXCEPT !.state = "NONE", !.index = 0]
    OBVIOUS
  <2>2. /\ DOMAIN g = FieldNames /\ g.state = "NONE" /\ g.index = 0
        /\ g.open = hs.open /\ g.file = hs.file /\ g.parsed = hs.parsed
        /\ g.end = hs.end /\ g.name = hs.name /\ g.part = hs.part
        /\ g.retries = hs.retries /\ g.unacked = hs.unacked
    BY <1>4, <2>1, Names
  <2>3. Sound(g)
    BY <1>3, <2>2 DEF Sound, TagState
  <2>4. Going("loop", run.len, run.failed, g)
    BY <1>3, <2>2 DEF Going, Moves
  <2>5. Scan(g)
    BY <1>2, <1>9, <2>1 DEF TagSent
  <2> QED
    BY <1>2, <1>3, <1>5, <2>3, <2>4, <2>5, MoveTyped DEF Scan, Step
<1> QED
  BY <1>7, <1>8, <1>9

LEMMA LoopEndTyped == ASSUME TInv, LoopEnd PROVE TInv'
<1>1. run.at = "loop" /\ UNCHANGED <<boot, Heaps>>
  BY DEF LoopEnd
<1>2. PICK c, hs, f : c = run.c /\ hs = conn[c] /\ f = run.failed
  OBVIOUS
<1>3. /\ c \in Conns /\ Sound(hs) /\ f \in BOOLEAN
      /\ ~f => Moves("loop", run.len, hs)
  BY <1>1, <1>2, CallIs DEF Going
<1>4. CASE run.len = 0 /\ Step(c, hs, "return", 0, << >>)
  <2>1. Going("return", 0, f, hs)
    BY <1>3, <1>4 DEF Going, Moves
  <2> QED
    BY <1>1, <1>2, <1>3, <1>4, <2>1, MoveTyped DEF Step
<1>5. CASE hs.parsed = Len(File) /\ Step(c, hs, "end", 0, << >>)
  <2>1. hs.state # "PLAIN"
    BY <1>3, <1>5, Sizes DEF Sound
  <2>2. Going("end", 0, f, hs)
    BY <1>3, <1>5, <2>1 DEF Going, Moves
  <2> QED
    BY <1>1, <1>2, <1>3, <1>5, <2>2, MoveTyped DEF Step
<1> QED
  BY <1>2, <1>4, <1>5 DEF LoopEnd

LEMMA RestTyped == ASSUME TInv, SendRest PROVE TInv'
<1>1. run.at = "end" /\ UNCHANGED <<boot, Heaps>>
  BY DEF SendRest
<1>2. PICK c, hs, f : c = run.c /\ hs = conn[c] /\ f = run.failed
  OBVIOUS
<1>3. /\ c \in Conns /\ Sound(hs) /\ f \in BOOLEAN /\ hs.state # "PLAIN"
      /\ ~f => Moves("end", run.len, hs)
      /\ Space(hs) \in Nat /\ (Space(hs) = 0 => hs.unacked > 0)
  BY <1>1, <1>2, CallIs DEF Going
<1>4. hs.file \in 0 .. Len(File) /\ hs.parsed \in 0 .. Len(File) /\ hs.file <= hs.parsed
  BY <1>3 DEF Sound
<1>5. PICK n \in Nat : n = Least(Space(hs), hs.parsed - hs.file) /\ n <= hs.parsed - hs.file
  <2>1. hs.parsed - hs.file \in Nat
    BY <1>4, Sizes
  <2> QED
    BY <1>3, <2>1, LeastNat
<1>6. \/ (hs.state = "SENDING" \/ n = 0) /\ Step(c, hs, "return", 0, << >>)
      \/ \E m \in Taken(hs, n) :
           Step(c, [hs EXCEPT !.file = @ + m, !.unacked = @ + m], "return", m,
                FileUnits(hs, m))
      \/ Failed(c, hs, "return")
  BY <1>2, <1>5 DEF SendRest
<1>7. CASE (hs.state = "SENDING" \/ n = 0) /\ Step(c, hs, "return", 0, << >>)
  <2>1. n = 0 => hs.unacked > 0 \/ hs.file = hs.parsed
    BY <1>3, <1>4, <1>5, Sizes DEF Least
  <2>2. Going("return", 0, f, hs)
    BY <1>3, <1>7, <2>1 DEF Going, Moves
  <2> QED
    BY <1>1, <1>2, <1>3, <1>7, <2>2, MoveTyped DEF Step
<1>8. ASSUME NEW m \in Taken(hs, n),
             Step(c, [hs EXCEPT !.file = @ + m, !.unacked = @ + m], "return", m,
                  FileUnits(hs, m))
      PROVE  TInv'
  <2>1. PICK g : g = [hs EXCEPT !.file = @ + m, !.unacked = @ + m]
    OBVIOUS
  <2>2. Sound(g) /\ g.unacked > 0 /\ m \in Nat \ {0}
    BY <1>3, <1>5, <2>1, FileSound
  <2>3. Going("return", m, f, g)
    BY <1>3, <2>2 DEF Going, Moves
  <2>4. Step(c, g, "return", m, FileUnits(hs, m))
    BY <1>8, <2>1
  <2> QED
    BY <1>1, <1>2, <1>3, <2>2, <2>3, <2>4, MoveTyped DEF Step
<1>9. CASE Failed(c, hs, "return")
  <2>1. Going("return", 0, TRUE, hs)
    BY DEF Going
  <2> QED
    BY <1>1, <1>3, <1>9, <2>1, MoveTyped DEF Failed
<1> QED
  BY <1>6, <1>7, <1>8, <1>9

LEMMA ClosedSound == /\ Sound(Closed)
                     /\ \A state \in {"NONE", "PLAIN"} :
                          Sound([Closed EXCEPT !.open = TRUE, !.state = state])
<1>1. 0 \in 0 .. Len(File) /\ 0 \in 0 .. MaxRetries - 1 /\ 0 \in 0 .. SndBuf /\ 0 <= MaxName
  BY Sizes
<1>2. << >> \in Seq(Chars) /\ Len(<< >>) = 0
  OBVIOUS
<1>3. Sound(Closed)
  BY <1>1, <1>2 DEF Sound, Closed, FieldNames, TagState
<1>4. ASSUME NEW state \in {"NONE", "PLAIN"}
      PROVE  Sound([Closed EXCEPT !.open = TRUE, !.state = state])
  <2>1. PICK g : g = [Closed EXCEPT !.open = TRUE, !.state = state]
    OBVIOUS
  <2>2. /\ DOMAIN g = FieldNames /\ g.open = TRUE /\ g.state = state
        /\ g.file = 0 /\ g.parsed = 0 /\ g.end = 0 /\ g.index = 0 /\ g.part = LAST
        /\ g.name = << >> /\ g.retries = 0 /\ g.unacked = 0
    BY <2>1 DEF Closed, FieldNames
  <2>3. g.state \in TagState /\ g.state # "FOUND" /\ g.state # "SENDING"
    BY <2>2 DEF TagState
  <2>4. g.name \in Seq(Chars) /\ Len(g.name) <= MaxName
    BY <1>1, <1>2, <2>2
  <2>5. g.file <= g.parsed /\ g.parsed = 0 /\ g.part \in Nat \cup {LAST} /\ g.index \in Nat
    BY <2>2
  <2>7. g.open \in BOOLEAN
    BY <2>2
  <2>8. /\ g.file \in 0 .. Len(File) /\ g.parsed \in 0 .. Len(File)
        /\ g.end \in 0 .. Len(File)
        /\ g.retries \in 0 .. MaxRetries - 1 /\ g.unacked \in 0 .. SndBuf
    BY <1>1, <2>2
  <2>6. Sound(g)
    BY <2>2, <2>3, <2>4, <2>5, <2>7, <2>8 DEF Sound
  <2> QED
    BY <2>1, <2>6
<1> QED
  BY <1>3, <1>4

LEMMA CloseTyped ==
  ASSUME TInv, NEW c \in Conns, CloseConn(c), run' = run \/ run' = Idle,
         run' = run => run = Idle, UNCHANGED <<boot, array, number>>
  PROVE  TInv'
<1>1. conn' = [conn EXCEPT ![c] = Closed]
      /\ owner' = [b \in Block |-> IF owner[b] = c THEN "lost" ELSE owner[b]]
  BY DEF CloseConn
<1>2. DOMAIN conn' = Conns /\ \A d \in Conns : Sound(conn'[d])
  BY <1>1, ClosedSound DEF TInv
<1>3. HeapTypes' /\ boot' \in 0 .. 4
  BY <1>1 DEF TInv, HeapTypes, Block
<1>4. Run'
  BY DEF Run
<1> QED
  BY <1>2, <1>3, <1>4 DEF TInv

LEMMA CallbackTyped == ASSUME TInv, NEW c \in Conns, Callback(c) PROVE TInv'
<1>1. ASSUME NEW g, Sound(g), Call(c, g), UNCHANGED <<boot, Heaps>> PROVE TInv'
  <2>1. Going("begin", 0, FALSE, g)
    BY DEF Going, Moves
  <2> QED
    BY <1>1, <2>1, MoveTyped DEF Call
<1>2. Sound(conn[c]) /\ DOMAIN conn[c] = FieldNames
  BY DEF TInv, Sound
<1>3. CASE Request(c)
  BY <1>1, <1>3, ClosedSound DEF Request
<1>4. CASE Sent(c)
  <2>1. PICK k \in 0 .. conn[c].unacked - 1 :
          Call(c, [conn[c] EXCEPT !.unacked = k, !.retries = 0])
    BY <1>4 DEF Sent
  <2>2. PICK hs, g : hs = conn[c] /\ g = [hs EXCEPT !.unacked = k, !.retries = 0]
    OBVIOUS
  <2>3. k \in 0 .. SndBuf /\ 0 \in 0 .. MaxRetries - 1
    <3>1. conn[c].unacked \in 0 .. SndBuf
      BY <1>2 DEF Sound
    <3>2. PICK u \in 0 .. SndBuf : u = conn[c].unacked
      BY <3>1
    <3>3. k \in 0 .. u - 1
      BY <3>2
    <3> QED
      BY <3>2, <3>3, Sizes
  <2>4. /\ DOMAIN g = FieldNames /\ g.unacked = k /\ g.retries = 0
        /\ g.open = hs.open /\ g.file = hs.file /\ g.parsed = hs.parsed
        /\ g.state = hs.state /\ g.index = hs.index
        /\ g.end = hs.end /\ g.name = hs.name /\ g.part = hs.part
    BY <1>2, <2>2, Names
  <2>5. Sound(g)
    BY <1>2, <2>2, <2>3, <2>4 DEF Sound
  <2> QED
    BY <1>1, <1>4, <2>1, <2>2, <2>5 DEF Sent
<1>5. CASE Poll(c)
  <2>1. conn[c].retries + 1 < MaxRetries /\ Call(c, [conn[c] EXCEPT !.retries = @ + 1])
        /\ UNCHANGED <<boot, Heaps>>
    BY <1>5 DEF Poll
  <2>2. PICK hs, g : hs = conn[c] /\ g = [hs EXCEPT !.retries = @ + 1]
    OBVIOUS
  <2>3. hs.retries + 1 \in 0 .. MaxRetries - 1
    <3>1. hs.retries \in 0 .. MaxRetries - 1
      BY <1>2, <2>2 DEF Sound
    <3>2. hs.retries + 1 < MaxRetries
      BY <2>1, <2>2
    <3> QED
      BY <3>1, <3>2, Sizes
  <2>4. /\ DOMAIN g = FieldNames /\ g.unacked = hs.unacked /\ g.retries = hs.retries + 1
        /\ g.open = hs.open /\ g.file = hs.file /\ g.parsed = hs.parsed
        /\ g.state = hs.state /\ g.index = hs.index
        /\ g.end = hs.end /\ g.name = hs.name /\ g.part = hs.part
    BY <1>2, <2>2, Names
  <2>5. Sound(g)
    BY <1>2, <2>2, <2>3, <2>4 DEF Sound
  <2> QED
    BY <1>1, <2>1, <2>2, <2>5
<1>6. CASE GiveUp(c) \/ Cut(c)
  BY <1>6, CloseTyped DEF GiveUp, Cut
<1> QED
  BY <1>3, <1>4, <1>5, <1>6 DEF Callback

LEMMA TInvInit == Init => TInv
<1> SUFFICES ASSUME Init PROVE TInv
  OBVIOUS
<1>1. \A c \in Conns : Sound(conn[c])
  BY ClosedSound DEF Init
<1>2. HeapTypes
  BY Sizes DEF Init, HeapTypes
<1> QED
  BY <1>1, <1>2 DEF Init, TInv, Run

LEMMA TInvStep == TInv /\ [Next]_vars => TInv'
<1> SUFFICES ASSUME TInv, [Next]_vars PROVE TInv'
  OBVIOUS
<1>1. CASE Start
  <2>1. HeapTypes' /\ boot' \in 0 .. 4 /\ UNCHANGED <<conn, run>>
    BY <1>1 DEF Start, TInv, HeapTypes, Block
  <2> QED
    BY <2>1 DEF TInv, Run
<1>2. CASE SendDone
  <2>1. run.at = "return" /\ run' = Idle /\ UNCHANGED <<boot, array, number>>
    BY <1>2 DEF SendDone
  <2>2. run # Idle /\ run.c \in Conns
    BY <2>1, CallIs
  <2>3. CASE CloseConn(run.c)
    BY <2>1, <2>2, <2>3, CloseTyped
  <2>4. CASE UNCHANGED <<conn, owner, out>>
    <3>1. HeapTypes'
      BY <2>1, <2>4 DEF TInv, HeapTypes, Block
    <3> QED
      BY <2>1, <2>4, <3>1 DEF TInv, Run
  <2> QED
    BY <1>2, <2>3, <2>4 DEF SendDone
<1>3. CASE HttpSend /\ ~SendDone
  BY <1>3, ParserTyped, CompleteTyped, NextTyped, BeginTyped, SendingTyped, LoopEndTyped,
     RestTyped DEF HttpSend, Parse, Sending
<1>4. CASE \E c \in Conns : Callback(c)
  BY <1>4, CallbackTyped
<1>5. CASE UNCHANGED vars
  <2>1. HeapTypes' /\ UNCHANGED <<boot, conn, run>>
    BY <1>5 DEF vars, TInv, HeapTypes, Block
  <2> QED
    BY <2>1 DEF TInv, Run
<1> QED
  BY <1>1, <1>2, <1>3, <1>4, <1>5 DEF Next

(* Every page stays what http_state may be: parsed before it is sent,      *)
(* within the file, its name within the buffer of the name and what is not *)
(* acknowledged within the send buffer (httpd.c:1142-1482, 2025-2110).     *)
THEOREM WebpageTyped == Spec => []TypeOK
<1>1. TInv => TypeOK
  <2> SUFFICES ASSUME TInv PROVE TypeOK
    OBVIOUS
  <2>1. \A c \in Conns : Sound(conn[c])
    BY DEF TInv
  <2> QED
    BY <2>1 DEF TInv, TypeOK, Sound, HeapTypes
<1> QED
  BY <1>1, TInvInit, TInvStep, PTL DEF Spec

(* A call of http_send that does not fail leaves something to be           *)
(* acknowledged, or has sent the page: the server is called again, without *)
(* the help of http_poll (httpd.c:1142-1482).                              *)
THEOREM CallsGoOn == Spec => []NeverStalls
<1>1. TInv => NeverStalls
  <2> SUFFICES ASSUME TInv, run.at = "return", ~run.failed
               PROVE  conn[run.c].unacked > 0 \/ conn[run.c].file = Len(File)
    BY DEF NeverStalls
  <2>1. Going("return", run.len, run.failed, conn[run.c])
    BY CallIs
  <2> QED
    BY <2>1 DEF Going, Moves
<1> QED
  BY <1>1, TInvInit, TInvStep, PTL DEF Spec

-----------------------------------------------------------------------------
(* The parser finds the tags of the page: what it has read is the          *)
(* beginning of a tag when its state says so, and it is in the state that  *)
(* a tag calls for while it reads it.                                      *)

(* What the parser's state and index, at place x, say of the page. *)
ReadsAt(s, i, x) ==
  /\ s = "LEADIN" => /\ i \in 1 .. Len(LeadIn) /\ i <= x
                     /\ \A t \in 1 .. i : File[x - i + t] = LeadIn[t]
  /\ s = "FOUND" => \E q, n \in Place : Begun(q, n, x, x, x) /\ i = x - n
  /\ s = "LEADOUT" => \E q, n, m, j \in Place : /\ Begun(q, n, m, j, x) /\ n < m
                                                /\ i = x - j /\ i < Len(LeadOut)
  /\ s = "SENDING" => TagEnd(x)

(* What a tag says of the parser's state and index at a place in it. *)
Tracks(p, n, m, j, s, i, x) ==
  p < x /\ x < j + Len(LeadOut) =>
    /\ x <= p + Len(LeadIn) =>
         (s = "LEADIN" /\ i = x - p) \/ (x = p + Len(LeadIn) /\ s = "FOUND" /\ i = 0)
    /\ p + Len(LeadIn) < x /\ x <= n => s = "FOUND" /\ i = 0
    /\ n < x /\ x <= m => s = "FOUND" /\ i = x - n
    /\ m < x /\ x <= j => s = "LEADOUT" /\ i = 0
    /\ m < x /\ j < x => s = "LEADOUT" /\ i = x - j

TracksAt(s, i, x) ==
  \A p, n, m, j \in Place :
    Begun(p, n, m, j, j + Len(LeadOut)) => Tracks(p, n, m, j, s, i, x)

LEMMA PlaceNat == \A p \in Place : p \in Nat /\ p <= Len(File)
BY Sizes DEF Place

(* A tag that has begun goes on. *)
LEMMA MoreWhite ==
  ASSUME NEW q \in Place, NEW n \in Place, n < Len(File), Begun(q, n, n, n, n),
         File[n + 1] \in White
  PROVE  n + 1 \in Place /\ Begun(q, n + 1, n + 1, n + 1, n + 1)
BY PlaceNat, Sizes DEF Begun, Place

LEMMA MoreName ==
  ASSUME NEW q \in Place, NEW n \in Place, NEW m \in Place, m < Len(File),
         Begun(q, n, m, m, m), File[m + 1] \notin White, File[m + 1] # LeadOut[1],
         m - n < MaxName
  PROVE  m + 1 \in Place /\ Begun(q, n, m + 1, m + 1, m + 1)
BY PlaceNat, Sizes DEF Begun, Place

LEMMA MoreAfter ==
  ASSUME NEW q \in Place, NEW n \in Place, NEW m \in Place, NEW j \in Place, n < m,
         j < Len(File), Begun(q, n, m, j, j), File[j + 1] \in White
  PROVE  j + 1 \in Place /\ Begun(q, n, m, j + 1, j + 1)
BY PlaceNat, Sizes DEF Begun, Place

LEMMA MoreOut ==
  ASSUME NEW q \in Place, NEW n \in Place, NEW m \in Place, NEW j \in Place,
         NEW x \in Place, n < m, x < Len(File), Begun(q, n, m, j, x),
         x - j < Len(LeadOut), File[x + 1] = LeadOut[(x - j) + 1]
  PROVE  x + 1 \in Place /\ Begun(q, n, m, j, x + 1)
<1>1. x + 1 \in Place
  BY Sizes DEF Place
<1>2. q \in Nat /\ n \in Nat /\ m \in Nat /\ j \in Nat /\ x \in Nat /\ j <= x
  BY PlaceNat DEF Begun
<1>3. x + 1 <= Len(File) /\ j <= x + 1 /\ (x + 1) - j <= Len(LeadOut) /\ m # n
  BY <1>2, Sizes
<1>4. ASSUME NEW t \in 1 .. (x + 1) - j PROVE File[j + t] = LeadOut[t]
  <2>1. CASE t \in 1 .. x - j
    BY <2>1 DEF Begun
  <2>2. CASE t = (x - j) + 1
    <3>1. j + t = x + 1
      BY <1>2, <2>2
    <3> QED
      BY <2>2, <3>1
  <2> QED
    BY <1>2, <2>1, <2>2
<1> QED
  BY <1>1, <1>3, <1>4 DEF Begun

(* A lead-in that is read is the beginning of a tag. *)
LEMMA BeginsTag ==
  ASSUME NEW x \in Place, Len(LeadIn) <= x,
         \A t \in 1 .. Len(LeadIn) : File[x - Len(LeadIn) + t] = LeadIn[t]
  PROVE  x - Len(LeadIn) \in Place /\ Begun(x - Len(LeadIn), x, x, x, x)
<1>1. PICK a \in Nat : a = x - Len(LeadIn)
  BY PlaceNat, Sizes
<1>2. a \in Place /\ a + Len(LeadIn) = x /\ x \in Nat /\ x <= Len(File)
  BY <1>1, PlaceNat, Sizes DEF Place
<1>3. Stands(LeadIn, a)
  <2>1. ASSUME NEW t \in 1 .. Len(LeadIn) PROVE a + t <= Len(File) /\ File[a + t] = LeadIn[t]
    BY <1>1, <1>2, Sizes
  <2> QED
    BY <2>1 DEF Stands
<1>4. x - x = 0 /\ 0 <= Len(LeadOut) /\ 0 <= MaxName
  BY <1>2, Sizes
<1>5. Begun(a, x, x, x, x)
  BY <1>2, <1>3, <1>4, Sizes DEF Begun
<1> QED
  BY <1>1, <1>2, <1>5

(* Where a lead-in stands, the parser is not within another tag. *)
LEMMA ApartIs ==
  ASSUME NEW x \in Place, Stands(LeadIn, x), NEW s, NEW i, ReadsAt(s, i, x)
  PROVE  s \notin {"LEADIN", "FOUND", "LEADOUT"}
<1>1. x \in Nat /\ x <= Len(File)
  BY PlaceNat
<1>2. ASSUME NEW q \in Place, NEW n \in Place, NEW m \in Place, NEW j \in Place,
             Begun(q, n, m, j, x), x # j + Len(LeadOut)
      PROVE  FALSE
  <2>1. q < x
    BY <1>1, <1>2, PlaceNat, Sizes DEF Begun
  <2> QED
    BY <1>2, <2>1, TagsApart
<1>3. CASE s = "FOUND"
  <2>1. PICK q \in Place, n \in Place : Begun(q, n, x, x, x)
    BY <1>3 DEF ReadsAt
  <2>2. x # x + Len(LeadOut)
    BY <1>1, Sizes
  <2> QED
    BY <1>2, <2>1, <2>2
<1>4. CASE s = "LEADOUT"
  <2>1. PICK q \in Place, n \in Place, m \in Place, j \in Place :
          Begun(q, n, m, j, x) /\ n < m /\ i = x - j /\ i < Len(LeadOut)
    BY <1>4 DEF ReadsAt
  <2>2. x # j + Len(LeadOut)
    BY <1>1, <2>1, Sizes, PlaceNat
  <2> QED
    BY <1>2, <2>1, <2>2
<1>5. CASE s = "LEADIN"
  <2>1. /\ i \in 1 .. Len(LeadIn) /\ i <= x
        /\ \A t \in 1 .. i : File[x - i + t] = LeadIn[t]
    BY <1>5 DEF ReadsAt
  <2>2. CASE i = Len(LeadIn)
    <3>1. x - Len(LeadIn) \in Place /\ Begun(x - Len(LeadIn), x, x, x, x)
      BY <2>1, <2>2, BeginsTag
    <3>2. x # x + Len(LeadOut)
      BY <1>1, Sizes
    <3> QED
      BY <1>2, <3>1, <3>2
  <2>3. CASE i # Len(LeadIn)
    <3>1. i \in 1 .. Len(LeadIn) - 1
      BY <2>1, <2>3, Sizes
    <3> QED
      BY <2>1, <3>1, TagsApart
  <2> QED
    BY <2>2, <2>3
<1> QED
  BY <1>3, <1>4, <1>5

(* A turn of the parser keeps to what it has read ... *)
LEMMA ReadsOn ==
  ASSUME NEW hs, NEW x \in 0 .. Len(File) - 1, hs.index \in Nat,
         ReadsAt(hs.state, hs.index, x),
         NEW d, NEW to, NEW index, NEW name,
         Turns(hs, File[x + 1], d, to, index, name)
  PROVE  ReadsAt(to, index, x + d)
<1>0. PICK s, ch : s = hs.state /\ ch = File[x + 1]
  OBVIOUS
<1>7. PICK i \in Nat : i = hs.index
  OBVIOUS
<1>1. s = hs.state /\ i = hs.index /\ ch = File[x + 1]
  BY <1>0, <1>7
<1>2. x \in Place /\ x + 1 \in Place /\ x \in Nat /\ x < Len(File)
  BY Sizes DEF Place
<1>3. CASE FromNone(hs, ch, d, to, index, name)
  <2>1. d = 1 /\ ((ch = LeadIn[1] /\ to = "LEADIN" /\ index = 1) \/ to = "NONE")
    BY <1>3 DEF FromNone
  <2>2. CASE ch = LeadIn[1] /\ to = "LEADIN" /\ index = 1
    <3>1. ASSUME NEW t \in 1 .. index PROVE File[(x + 1) - index + t] = LeadIn[t]
      <4>1. t = 1 /\ (x + 1) - index + t = x + 1
        BY <1>2, <2>2
      <4> QED
        BY <1>1, <2>2, <4>1
    <3> QED
      BY <1>2, <2>1, <2>2, <3>1, Sizes DEF ReadsAt
  <2> QED
    BY <2>1, <2>2 DEF ReadsAt
<1>4. CASE FromLeadin(hs, ch, d, to, index, name)
  <2>1. /\ i \in 1 .. Len(LeadIn) /\ i <= x
        /\ \A t \in 1 .. i : File[x - i + t] = LeadIn[t]
    BY <1>1, <1>4 DEF FromLeadin, ReadsAt
  <2>2. \/ i = Len(LeadIn) /\ d = 0 /\ to = "FOUND" /\ index = 0
        \/ /\ i # Len(LeadIn) /\ ch = LeadIn[i + 1]
           /\ d = 1 /\ to = "LEADIN" /\ index = i + 1
        \/ to = "NONE"
    BY <1>1, <1>4 DEF FromLeadin
  <2>3. CASE i = Len(LeadIn) /\ d = 0 /\ to = "FOUND" /\ index = 0
    <3>1. x - Len(LeadIn) \in Place /\ Begun(x - Len(LeadIn), x, x, x, x)
      BY <1>2, <2>1, <2>3, BeginsTag
    <3>2. x + d = x /\ index = x - x
      BY <1>2, <2>3
    <3> QED
      BY <1>2, <2>3, <3>1, <3>2 DEF ReadsAt
  <2>4. CASE /\ i # Len(LeadIn) /\ ch = LeadIn[i + 1]
             /\ d = 1 /\ to = "LEADIN" /\ index = i + 1
    <3>1. ASSUME NEW t \in 1 .. i + 1 PROVE File[(x + 1) - (i + 1) + t] = LeadIn[t]
      <4>1. (x + 1) - (i + 1) + t = x - i + t
        BY <1>2
      <4>2. CASE t \in 1 .. i
        BY <2>1, <4>1, <4>2
      <4>3. CASE t = i + 1
        <5>1. x - i + t = x + 1
          BY <1>2, <4>3
        <5> QED
          BY <1>1, <2>4, <4>1, <4>3, <5>1
      <4> QED
        BY <4>2, <4>3
    <3> QED
      BY <1>2, <2>1, <2>4, <3>1, Sizes DEF ReadsAt
  <2> QED
    BY <2>2, <2>3, <2>4 DEF ReadsAt
<1>5. CASE FromFound(hs, ch, d, to, index, name)
  <2>1. PICK q \in Place, n \in Place : Begun(q, n, x, x, x) /\ i = x - n
    BY <1>1, <1>5 DEF FromFound, ReadsAt
  <2>2. d = 1 /\ n \in Nat
    BY <1>5, PlaceNat DEF FromFound
  <2>3. \/ i = 0 /\ ch \in White /\ to = "FOUND" /\ index = 0
        \/ i # 0 /\ ch = LeadOut[1] /\ to = "LEADOUT" /\ index = 1
        \/ i # 0 /\ ch \in White /\ to = "LEADOUT" /\ index = 0
        \/ /\ ch \notin White /\ ch # LeadOut[1] /\ i < MaxName
           /\ to = "FOUND" /\ index = i + 1
        \/ to = "NONE"
    BY <1>1, <1>5 DEF FromFound
  <2>4. CASE i = 0 /\ ch \in White /\ to = "FOUND" /\ index = 0
    <3>1. n = x
      BY <1>2, <2>1, <2>2, <2>4
    <3>2. Begun(q, x + 1, x + 1, x + 1, x + 1)
      BY <1>1, <1>2, <2>1, <2>4, <3>1, MoreWhite
    <3>3. index = (x + 1) - (x + 1)
      BY <1>2, <2>4
    <3> QED
      BY <1>2, <2>2, <2>4, <3>2, <3>3 DEF ReadsAt
  <2>5. CASE i # 0 /\ ch = LeadOut[1] /\ to = "LEADOUT" /\ index = 1
    <3>1. n < x
      BY <1>2, <2>1, <2>2, <2>5 DEF Begun
    <3>5. (x - x) + 1 = 1
      BY <1>2
    <3>6. File[x + 1] = LeadOut[(x - x) + 1]
      BY <1>1, <2>5, <3>5
    <3>7. x - x < Len(LeadOut) /\ 1 < Len(LeadOut)
      BY <1>2, LeadSizes
    <3>2. x - x < Len(LeadOut) /\ File[x + 1] = LeadOut[(x - x) + 1] /\ 1 < Len(LeadOut)
      BY <3>6, <3>7
    <3>3. Begun(q, n, x, x, x + 1)
      BY <1>2, <2>1, <3>1, <3>2, MoreOut
    <3>4. index = (x + 1) - x
      BY <1>2, <2>5
    <3> QED
      BY <1>2, <2>2, <2>5, <3>1, <3>2, <3>3, <3>4 DEF ReadsAt
  <2>6. CASE i # 0 /\ ch \in White /\ to = "LEADOUT" /\ index = 0
    <3>1. n < x
      BY <1>2, <2>1, <2>2, <2>6 DEF Begun
    <3>2. Begun(q, n, x, x + 1, x + 1)
      BY <1>1, <1>2, <2>1, <2>6, <3>1, MoreAfter
    <3>3. index = (x + 1) - (x + 1) /\ 0 < Len(LeadOut)
      BY <1>2, <2>6, Sizes
    <3> QED
      BY <1>2, <2>2, <2>6, <3>1, <3>2, <3>3 DEF ReadsAt
  <2>7. CASE /\ ch \notin White /\ ch # LeadOut[1] /\ i < MaxName
             /\ to = "FOUND" /\ index = i + 1
    <3>1. Begun(q, n, x + 1, x + 1, x + 1)
      BY <1>1, <1>2, <2>1, <2>7, MoreName
    <3>2. index = (x + 1) - n
      BY <1>2, <2>1, <2>2, <2>7
    <3> QED
      BY <1>2, <2>2, <2>7, <3>1, <3>2 DEF ReadsAt
  <2> QED
    BY <2>3, <2>4, <2>5, <2>6, <2>7 DEF ReadsAt
<1>6. CASE FromLeadout(hs, ch, d, to, index, name)
  <2>1. PICK q \in Place, n \in Place, m \in Place, j \in Place :
          Begun(q, n, m, j, x) /\ n < m /\ i = x - j /\ i < Len(LeadOut)
    BY <1>1, <1>6 DEF FromLeadout, ReadsAt
  <2>2. d = 1 /\ j \in Nat /\ ~(ch = LeadOut[i + 1] /\ i = Len(LeadOut) - 1)
    BY <1>1, <1>6, PlaceNat DEF FromLeadout
  <2>3. \/ i = 0 /\ ch \in White /\ to = "LEADOUT" /\ index = 0
        \/ ch = LeadOut[i + 1] /\ to = "LEADOUT" /\ index = i + 1
        \/ to = "NONE"
    BY <1>1, <1>6 DEF FromLeadout
  <2>4. CASE i = 0 /\ ch \in White /\ to = "LEADOUT" /\ index = 0
    <3>1. j = x
      BY <1>2, <2>1, <2>2, <2>4
    <3>2. Begun(q, n, m, x + 1, x + 1)
      BY <1>1, <1>2, <2>1, <2>4, <3>1, MoreAfter
    <3>3. index = (x + 1) - (x + 1) /\ 0 < Len(LeadOut)
      BY <1>2, <2>4, Sizes
    <3> QED
      BY <1>2, <2>1, <2>2, <2>4, <3>2, <3>3 DEF ReadsAt
  <2>5. CASE ch = LeadOut[i + 1] /\ to = "LEADOUT" /\ index = i + 1
    <3>1. i + 1 < Len(LeadOut)
      BY <2>1, <2>2, <2>5, Sizes
    <3>2. Begun(q, n, m, j, x + 1)
      BY <1>1, <1>2, <2>1, <2>5, MoreOut
    <3>3. index = (x + 1) - j
      BY <1>2, <2>1, <2>2, <2>5
    <3> QED
      BY <2>1, <2>2, <2>5, <3>1, <3>2, <3>3 DEF ReadsAt
  <2> QED
    BY <2>3, <2>4, <2>5 DEF ReadsAt
<1> QED
  BY <1>1, <1>3, <1>4, <1>5, <1>6 DEF Turns

(* ... finds a tag that it reads to its end ... *)
LEMMA ReadsTag ==
  ASSUME NEW x \in 0 .. Len(File) - 1, NEW i \in Nat, ReadsAt("LEADOUT", i, x),
         File[x + 1] = LeadOut[i + 1], i = Len(LeadOut) - 1
  PROVE  TagEnd(x + 1)
<1>1. x \in Place /\ x + 1 \in Place /\ x \in Nat /\ x < Len(File)
  BY Sizes DEF Place
<1>2. PICK q \in Place, n \in Place, m \in Place, j \in Place :
        Begun(q, n, m, j, x) /\ n < m /\ i = x - j /\ i < Len(LeadOut)
  BY DEF ReadsAt
<1>3. Begun(q, n, m, j, x + 1)
  BY <1>1, <1>2, MoreOut
<1>4. j = (x + 1) - Len(LeadOut)
  BY <1>1, <1>2, PlaceNat, Sizes
<1> QED
  BY <1>1, <1>3, <1>4 DEF TagEnd, TagEnds

(* What a tag has at its places. *)
TokensAt(p, n, m, j, x) ==
  /\ p <= x /\ x < p + Len(LeadIn) => File[x + 1] = LeadIn[(x - p) + 1]
  /\ p + Len(LeadIn) <= x /\ x < n => File[x + 1] \in White
  /\ n <= x /\ x < m => File[x + 1] \notin White /\ File[x + 1] # LeadOut[1]
  /\ m <= x /\ x < j => File[x + 1] \in White
  /\ j <= x /\ x < j + Len(LeadOut) => File[x + 1] = LeadOut[(x - j) + 1]

LEMMA TagTokens ==
  ASSUME NEW p \in Place, NEW n \in Place, NEW m \in Place, NEW j \in Place,
         Begun(p, n, m, j, j + Len(LeadOut))
  PROVE  /\ p + Len(LeadIn) <= n /\ n < m /\ m <= j /\ m - n <= MaxName
         /\ j + Len(LeadOut) <= Len(File)
         /\ \A x \in Nat : TokensAt(p, n, m, j, x)
<1>1. p \in Nat /\ n \in Nat /\ m \in Nat /\ j \in Nat
  BY PlaceNat
<1>2. /\ p + Len(LeadIn) <= n /\ n <= m /\ m <= j /\ m - n <= MaxName
      /\ j + Len(LeadOut) <= Len(File) /\ (m = n => j + Len(LeadOut) = n)
  BY DEF Begun
<1>3. n < m
  BY <1>1, <1>2, Sizes
<1>4. ASSUME NEW x \in Nat, p <= x, x < p + Len(LeadIn)
      PROVE  File[x + 1] = LeadIn[(x - p) + 1]
  <2>1. PICK t \in Nat : t = (x - p) + 1
    BY <1>1, <1>4
  <2>2. t \in 1 .. Len(LeadIn) /\ p + t = x + 1
    BY <1>1, <1>4, <2>1, Sizes
  <2>3. File[p + t] = LeadIn[t]
    BY <2>2 DEF Begun, Stands
  <2> QED
    BY <2>1, <2>2, <2>3
<1>5. ASSUME NEW x \in Nat, p + Len(LeadIn) <= x, x < n PROVE File[x + 1] \in White
  <2>1. x + 1 \in p + Len(LeadIn) + 1 .. n
    BY <1>1, <1>5, Sizes
  <2> QED
    BY <2>1 DEF Begun
<1>6. ASSUME NEW x \in Nat, n <= x, x < m
      PROVE  File[x + 1] \notin White /\ File[x + 1] # LeadOut[1]
  <2>1. x + 1 \in n + 1 .. m
    BY <1>1, <1>6
  <2> QED
    BY <2>1 DEF Begun
<1>7. ASSUME NEW x \in Nat, m <= x, x < j PROVE File[x + 1] \in White
  <2>1. x + 1 \in m + 1 .. j
    BY <1>1, <1>7
  <2> QED
    BY <2>1 DEF Begun
<1>8. ASSUME NEW x \in Nat, j <= x, x < j + Len(LeadOut)
      PROVE  File[x + 1] = LeadOut[(x - j) + 1]
  <2>1. PICK t \in Nat : t = (x - j) + 1
    BY <1>1, <1>8
  <2>2. t \in 1 .. (j + Len(LeadOut)) - j /\ j + t = x + 1
    BY <1>1, <1>8, <2>1, Sizes
  <2>3. File[j + t] = LeadOut[t]
    BY <2>2 DEF Begun
  <2> QED
    BY <2>1, <2>2, <2>3
<1> QED
  BY <1>2, <1>3, <1>4, <1>5, <1>6, <1>7, <1>8 DEF TokensAt

(* ... and within a tag it is in the state that the tag calls for. *)
LEMMA TracksOn ==
  ASSUME NEW hs, NEW x \in 0 .. Len(File) - 1, hs.index \in Nat,
         ReadsAt(hs.state, hs.index, x), TracksAt(hs.state, hs.index, x),
         NEW d, NEW to, NEW index, NEW name,
         Turns(hs, File[x + 1], d, to, index, name)
  PROVE  TracksAt(to, index, x + d) /\ (d = 1 => ~TagEnd(x + 1))
<1>0. PICK s, ch : s = hs.state /\ ch = File[x + 1]
  OBVIOUS
<1>1. PICK i \in Nat : i = hs.index
  OBVIOUS
<1>2. x \in Place /\ x \in Nat /\ x < Len(File) /\ LeadOut[1] \notin White
  BY Sizes, PageAssumption DEF Place
<1>3. /\ s \in {"NONE", "LEADIN", "FOUND", "LEADOUT"}
      /\ s = "NONE" =>
           /\ d = 1 /\ (ch = LeadIn[1] => to = "LEADIN" /\ index = 1)
      /\ s = "LEADIN" =>
           /\ i = Len(LeadIn) => d = 0 /\ to = "FOUND" /\ index = 0
           /\ i # Len(LeadIn) => d = 1
           /\ i # Len(LeadIn) /\ ch = LeadIn[i + 1] => to = "LEADIN" /\ index = i + 1
      /\ s = "FOUND" =>
           /\ d = 1
           /\ i = 0 /\ ch \in White => to = "FOUND" /\ index = 0
           /\ i # 0 /\ ch = LeadOut[1] => to = "LEADOUT" /\ index = 1
           /\ i # 0 /\ ch \in White => to = "LEADOUT" /\ index = 0
           /\ ch \notin White /\ ch # LeadOut[1] /\ i < MaxName => to = "FOUND" /\ index = i + 1
      /\ s = "LEADOUT" =>
           /\ d = 1 /\ ~(ch = LeadOut[i + 1] /\ i = Len(LeadOut) - 1)
           /\ i = 0 /\ ch \in White => to = "LEADOUT" /\ index = 0
           /\ ~(i = 0 /\ ch \in White) /\ ch = LeadOut[i + 1] => to = "LEADOUT" /\ index = i + 1
  BY <1>0, <1>1, <1>2 DEF Turns, FromNone, FromLeadin, FromFound, FromLeadout
<1>4. ASSUME NEW p \in Place, NEW n \in Place, NEW m \in Place, NEW j \in Place,
             Begun(p, n, m, j, j + Len(LeadOut))
      PROVE  /\ Tracks(p, n, m, j, to, index, x + d)
             /\ d = 1 => x + 1 # j + Len(LeadOut)
  <2>1. p \in Nat /\ n \in Nat /\ m \in Nat /\ j \in Nat
    BY PlaceNat
  <2>2. PICK li \in Nat, lo \in Nat : li = Len(LeadIn) /\ lo = Len(LeadOut) /\ li > 0 /\ lo > 1
    BY LeadSizes
  <2>3. p + li <= n /\ n < m /\ m <= j /\ m - n <= MaxName
    BY <1>4, <2>2, TagTokens
  <2>4. /\ p <= x /\ x < p + li => ch = LeadIn[(x - p) + 1]
        /\ p + li <= x /\ x < n => ch \in White
        /\ n <= x /\ x < m => ch \notin White /\ ch # LeadOut[1]
        /\ m <= x /\ x < j => ch \in White
        /\ j <= x /\ x < j + lo => ch = LeadOut[(x - j) + 1]
    <3>1. TokensAt(p, n, m, j, x)
      BY <1>2, <1>4, TagTokens
    <3> QED
      BY <1>0, <2>2, <3>1 DEF TokensAt
  <2>5. p < x /\ x < j + lo =>
        /\ x <= p + li =>
             (s = "LEADIN" /\ i = x - p) \/ (x = p + li /\ s = "FOUND" /\ i = 0)
        /\ p + li < x /\ x <= n => s = "FOUND" /\ i = 0
        /\ n < x /\ x <= m => s = "FOUND" /\ i = x - n
        /\ m < x /\ x <= j => s = "LEADOUT" /\ i = 0
        /\ m < x /\ j < x => s = "LEADOUT" /\ i = x - j
    <3>1. Tracks(p, n, m, j, s, i, x)
      BY <1>0, <1>1, <1>4 DEF TracksAt
    <3> QED
      BY <2>2, <3>1 DEF Tracks
  <2>6. MaxName \in Nat
    BY Sizes
  <2>7. ASSUME x = p PROVE s = "NONE"
    <3>1. Stands(LeadIn, x)
      BY <1>4, <2>7 DEF Begun
    <3> QED
      BY <1>0, <1>1, <1>2, <1>3, <3>1, ApartIs
  <2>8. CASE x < p
    <3>1. ~(p < x + d) /\ x + 1 # j + Len(LeadOut)
      BY <1>2, <1>3, <2>1, <2>2, <2>3, <2>8
    <3> QED
      BY <3>1 DEF Tracks
  <2>9. CASE x = p
    <3>1. s = "NONE" /\ d = 1
      BY <1>3, <2>7, <2>9
    <3>2. (x - p) + 1 = 1 /\ x < p + li /\ p <= x
      BY <1>2, <2>1, <2>2, <2>9
    <3>3. ch = LeadIn[1]
      BY <2>4, <3>2
    <3>4. to = "LEADIN" /\ index = 1
      BY <1>3, <3>1, <3>3
    <3>5. /\ ~(p + li < x + 1) /\ 1 = (x + 1) - p /\ ~(n < x + 1) /\ ~(m < x + 1)
          /\ x + 1 # j + lo
      BY <1>2, <2>1, <2>2, <2>3, <2>9
    <3> QED
      BY <2>2, <3>1, <3>4, <3>5 DEF Tracks
  <2>10. CASE p < x /\ x < p + li
    <3>1. x <= p + li /\ x < j + lo /\ x # p + li /\ p <= x
      BY <1>2, <2>1, <2>2, <2>3, <2>10
    <3>2. s = "LEADIN" /\ i = x - p
      BY <2>5, <2>10, <3>1
    <3>3. i # Len(LeadIn) /\ (x - p) + 1 = i + 1
      BY <1>2, <2>1, <2>2, <2>10, <3>2
    <3>4. ch = LeadIn[i + 1]
      BY <2>4, <2>10, <3>1, <3>3
    <3>5. d = 1 /\ to = "LEADIN" /\ index = i + 1
      BY <1>3, <3>2, <3>3, <3>4
    <3>6. /\ ~(p + li < x + 1) /\ i + 1 = (x + 1) - p /\ ~(n < x + 1) /\ ~(m < x + 1)
          /\ x + 1 # j + lo
      BY <1>2, <2>1, <2>2, <2>3, <2>10, <3>2
    <3> QED
      BY <2>2, <3>5, <3>6 DEF Tracks
  <2>11. CASE x = p + li
    <3>1. p < x /\ x < j + lo /\ x <= p + li
      BY <2>1, <2>2, <2>3, <2>11
    <3>2. CASE s = "LEADIN"
      <4>1. i = x - p
        BY <2>5, <3>1, <3>2
      <4>2. i = Len(LeadIn)
        BY <2>1, <2>2, <2>11, <4>1
      <4>3. d = 0 /\ to = "FOUND" /\ index = 0
        BY <1>3, <3>2, <4>2
      <4>4. x + 0 = x /\ ~(n < x) /\ ~(m < x) /\ ~(p + li < x)
        BY <1>2, <2>1, <2>2, <2>3, <2>11
      <4> QED
        BY <2>2, <2>11, <4>3, <4>4 DEF Tracks
    <3>3. CASE s # "LEADIN"
      <4>1. s = "FOUND" /\ i = 0
        BY <2>5, <3>1, <3>3
      <4>2. CASE x < n
        <5>1. ch \in White
          BY <2>3, <2>4, <2>11, <4>2
        <5>2. d = 1 /\ to = "FOUND" /\ index = 0
          BY <1>3, <4>1, <5>1
        <5>3. /\ ~(x + 1 <= p + li) /\ ~(n < x + 1) /\ ~(m < x + 1) /\ x + 1 # j + lo
          BY <1>2, <2>1, <2>2, <2>3, <2>11, <4>2
        <5> QED
          BY <2>2, <5>2, <5>3 DEF Tracks
      <4>3. CASE x = n
        <5>1. ch \notin White /\ ch # LeadOut[1] /\ i < MaxName
          BY <1>2, <2>1, <2>3, <2>4, <2>6, <4>1, <4>3
        <5>2. d = 1 /\ to = "FOUND" /\ index = i + 1
          BY <1>3, <4>1, <5>1
        <5>3. /\ ~(x + 1 <= p + li) /\ ~(x + 1 <= n) /\ i + 1 = (x + 1) - n
              /\ ~(m < x + 1) /\ x + 1 # j + lo
          BY <1>2, <2>1, <2>2, <2>3, <2>11, <4>1, <4>3
        <5> QED
          BY <2>2, <5>2, <5>3 DEF Tracks
      <4> QED
        BY <1>2, <2>1, <2>2, <2>3, <2>11, <4>2, <4>3
    <3> QED
      BY <3>2, <3>3
  <2>12. CASE p + li < x /\ x <= n
    <3>1. s = "FOUND" /\ i = 0
      BY <1>2, <2>1, <2>2, <2>3, <2>5, <2>12
    <3>2. CASE x < n
      <4>1. ch \in White
        BY <2>1, <2>2, <1>2, <2>4, <2>12, <3>2
      <4>2. d = 1 /\ to = "FOUND" /\ index = 0
        BY <1>3, <3>1, <4>1
      <4>3. ~(x + 1 <= p + li) /\ ~(n < x + 1) /\ ~(m < x + 1) /\ x + 1 # j + lo
        BY <1>2, <2>1, <2>2, <2>3, <2>12, <3>2
      <4> QED
        BY <2>2, <4>2, <4>3 DEF Tracks
    <3>3. CASE x = n
      <4>1. ch \notin White /\ ch # LeadOut[1] /\ i < MaxName
        BY <1>2, <2>1, <2>3, <2>4, <2>6, <3>1, <3>3
      <4>2. d = 1 /\ to = "FOUND" /\ index = i + 1
        BY <1>3, <3>1, <4>1
      <4>3. /\ ~(x + 1 <= p + li) /\ ~(x + 1 <= n) /\ i + 1 = (x + 1) - n
            /\ ~(m < x + 1) /\ x + 1 # j + lo
        BY <1>2, <2>1, <2>2, <2>3, <2>12, <3>1, <3>3
      <4> QED
        BY <2>2, <4>2, <4>3 DEF Tracks
    <3> QED
      BY <1>2, <2>1, <2>12, <3>2, <3>3
  <2>13. CASE n < x /\ x < m
    <3>1. s = "FOUND" /\ i = x - n
      BY <1>2, <2>1, <2>2, <2>3, <2>5, <2>13
    <3>2. ch \notin White /\ ch # LeadOut[1] /\ i < MaxName
      BY <1>2, <2>1, <2>3, <2>4, <2>6, <2>13, <3>1
    <3>3. d = 1 /\ to = "FOUND" /\ index = i + 1
      BY <1>3, <3>1, <3>2
    <3>4. /\ ~(x + 1 <= p + li) /\ ~(x + 1 <= n) /\ i + 1 = (x + 1) - n
          /\ ~(m < x + 1) /\ x + 1 # j + lo
      BY <1>2, <2>1, <2>2, <2>3, <2>13, <3>1
    <3> QED
      BY <2>2, <3>3, <3>4 DEF Tracks
  <2>14. CASE x = m
    <3>1. s = "FOUND" /\ i = x - n /\ i # 0
      BY <1>2, <2>1, <2>2, <2>3, <2>5, <2>14
    <3>2. CASE x < j
      <4>1. ch \in White
        BY <1>2, <2>4, <2>14, <3>2
      <4>2. d = 1 /\ to = "LEADOUT" /\ index = 0
        BY <1>3, <3>1, <4>1
      <4>3. ~(x + 1 <= p + li) /\ ~(x + 1 <= n) /\ ~(x + 1 <= m) /\ ~(j < x + 1) /\ x + 1 # j + lo
        BY <1>2, <2>1, <2>2, <2>3, <2>14, <3>2
      <4> QED
        BY <2>2, <4>2, <4>3 DEF Tracks
    <3>3. CASE x = j
      <4>1. (x - j) + 1 = 1 /\ j <= x /\ x < j + lo
        BY <1>2, <2>1, <2>2, <3>3
      <4>2. ch = LeadOut[1]
        BY <2>4, <4>1
      <4>3. d = 1 /\ to = "LEADOUT" /\ index = 1
        BY <1>3, <3>1, <4>2
      <4>4. /\ ~(x + 1 <= p + li) /\ ~(x + 1 <= n) /\ ~(x + 1 <= m) /\ ~(x + 1 <= j)
            /\ 1 = (x + 1) - j /\ x + 1 # j + lo
        BY <1>2, <2>1, <2>2, <2>3, <2>14, <3>3
      <4> QED
        BY <2>2, <4>3, <4>4 DEF Tracks
    <3> QED
      BY <1>2, <2>1, <2>3, <2>14, <3>2, <3>3
  <2>15. CASE m < x /\ x < j
    <3>1. s = "LEADOUT" /\ i = 0
      BY <1>2, <2>1, <2>2, <2>3, <2>5, <2>15
    <3>2. ch \in White
      BY <1>2, <2>1, <2>4, <2>15
    <3>3. d = 1 /\ to = "LEADOUT" /\ index = 0
      BY <1>3, <3>1, <3>2
    <3>4. ~(x + 1 <= p + li) /\ ~(x + 1 <= n) /\ ~(x + 1 <= m) /\ ~(j < x + 1) /\ x + 1 # j + lo
      BY <1>2, <2>1, <2>2, <2>3, <2>15
    <3> QED
      BY <2>2, <3>3, <3>4 DEF Tracks
  <2>16. CASE m < x /\ j <= x /\ x < j + lo
    <3>1. s = "LEADOUT" /\ i = x - j
      BY <1>2, <2>1, <2>2, <2>3, <2>5, <2>16
    <3>2. (x - j) + 1 = i + 1 /\ ch = LeadOut[(x - j) + 1]
      BY <1>2, <2>1, <2>4, <2>16, <3>1
    <3>3. ch = LeadOut[i + 1]
      BY <3>2
    <3>4. i # 0 \/ ch \notin White
      BY <1>2, <3>3
    <3>5. d = 1 /\ to = "LEADOUT" /\ index = i + 1 /\ i # lo - 1
      BY <1>3, <2>2, <3>1, <3>3, <3>4
    <3>6. /\ ~(x + 1 <= p + li) /\ ~(x + 1 <= n) /\ ~(x + 1 <= m) /\ ~(x + 1 <= j)
          /\ i + 1 = (x + 1) - j /\ x + 1 # j + lo
      BY <1>2, <2>1, <2>2, <2>3, <2>16, <3>1, <3>5
    <3> QED
      BY <2>2, <3>5, <3>6 DEF Tracks
  <2>17. CASE j + lo <= x
    <3>1. ~(x + d < j + lo) /\ x + 1 # j + lo
      BY <1>2, <1>3, <2>1, <2>2, <2>17
    <3> QED
      BY <2>2, <3>1 DEF Tracks
  <2> QED
    <3>1. \/ x < p
          \/ x = p
          \/ p < x /\ x < p + li
          \/ x = p + li
          \/ p + li < x /\ x <= n
          \/ n < x /\ x < m
          \/ x = m
          \/ m < x /\ x < j
          \/ m < x /\ j <= x /\ x < j + lo
          \/ j + lo <= x
      BY <1>2, <2>1, <2>2, <2>3
    <3> QED
      BY <2>8, <2>9, <2>10, <2>11, <2>12, <2>13, <2>14, <2>15, <2>16, <2>17, <3>1
<1>5. TracksAt(to, index, x + d)
  BY <1>4 DEF TracksAt
<1>6. ASSUME d = 1, TagEnd(x + 1) PROVE FALSE
  <2>1. PICK p \in Place, n \in Place, m \in Place :
          Begun(p, n, m, (x + 1) - Len(LeadOut), x + 1)
    BY <1>6 DEF TagEnd, TagEnds
  <2>2. PICK j \in Int : j = (x + 1) - Len(LeadOut)
    BY <1>2, LeadSizes
  <2>3. m <= j /\ j <= x + 1 /\ m \in Nat
    BY <2>1, <2>2, PlaceNat DEF Begun
  <2>4. j \in Place /\ x + 1 = j + Len(LeadOut)
    BY <1>2, <2>2, <2>3, LeadSizes DEF Place
  <2> QED
    BY <1>4, <1>6, <2>1, <2>2, <2>4
<1> QED
  BY <1>5, <1>6

-----------------------------------------------------------------------------
(* What the parser's state says between tags, and at the end of one.       *)

(* Between tags the index says nothing. *)
LEMMA TracksFree ==
  ASSUME NEW s, NEW i, NEW x \in Place, TracksAt(s, i, x),
         s \notin {"LEADIN", "FOUND", "LEADOUT"}, NEW to, NEW index
  PROVE  TracksAt(to, index, x)
<1>1. ASSUME NEW p \in Place, NEW n \in Place, NEW m \in Place, NEW j \in Place,
             Begun(p, n, m, j, j + Len(LeadOut)), p < x, x < j + Len(LeadOut)
      PROVE  FALSE
  <2>1. p \in Nat /\ n \in Nat /\ m \in Nat /\ j \in Nat /\ x \in Nat
    BY PlaceNat
  <2>2. Tracks(p, n, m, j, s, i, x)
    BY <1>1 DEF TracksAt
  <2>3. PICK li \in Nat : li = Len(LeadIn)
    BY LeadSizes
  <2>4. x <= p + li \/ (p + li < x /\ x <= n) \/ (n < x /\ x <= m) \/ (m < x /\ x <= j)
        \/ (m < x /\ j < x)
    BY <2>1, <2>3
  <2> QED
    BY <1>1, <2>2, <2>3, <2>4 DEF Tracks
<1> QED
  BY <1>1 DEF TracksAt, Tracks

(* A tag that is complete is the only one that the parser was in. *)
LEMMA TracksTag ==
  ASSUME NEW i \in Nat, NEW x \in 0 .. Len(File) - 1,
         ReadsAt("LEADOUT", i, x), TracksAt("LEADOUT", i, x), i = Len(LeadOut) - 1,
         NEW to, NEW index
  PROVE  TracksAt(to, index, x + 1)
<1>0. x \in Place /\ x \in Nat
  BY Sizes DEF Place
<1>1. ASSUME NEW p \in Place, NEW n \in Place, NEW m \in Place, NEW j \in Place,
             Begun(p, n, m, j, j + Len(LeadOut)), p < x + 1, x + 1 < j + Len(LeadOut)
      PROVE  FALSE
  <2>1. p \in Nat /\ n \in Nat /\ m \in Nat /\ j \in Nat
    BY PlaceNat
  <2>2. PICK li \in Nat, lo \in Nat : li = Len(LeadIn) /\ lo = Len(LeadOut) /\ lo > 1
    BY LeadSizes
  <2>3. CASE p = x
    <3>1. Stands(LeadIn, x)
      BY <1>1, <2>3 DEF Begun
    <3> QED
      BY <1>0, <3>1, ApartIs
  <2>4. CASE p < x
    <3>1. Tracks(p, n, m, j, "LEADOUT", i, x) /\ x < j + Len(LeadOut)
      BY <1>0, <1>1, <2>1, <2>2 DEF TracksAt
    <3>2. x <= p + li \/ (p + li < x /\ x <= n) \/ (n < x /\ x <= m) \/ (m < x /\ x <= j)
          \/ (m < x /\ j < x)
      BY <1>0, <2>1, <2>2
    <3>3. i = 0 \/ i = x - j
      BY <2>2, <2>4, <3>1, <3>2 DEF Tracks
    <3> QED
      BY <1>0, <1>1, <2>1, <2>2, <3>3
  <2> QED
    BY <1>0, <1>1, <2>1, <2>3, <2>4
<1> QED
  BY <1>1 DEF TracksAt, Tracks

-----------------------------------------------------------------------------
(* The order of what is written: the last unit written of a page says      *)
(* where the page is, in the file or in an insert.                         *)

Inserts == [kind : {"row", "text", "unknown"}, tag : Seq(Chars), block : 0 .. Blocks,
            part : Nat, last : BOOLEAN]

PageUnit(k) == [of |-> "page", at |-> k]
InsertUnit(i, k) == [of |-> "insert", insert |-> i, at |-> k]

Unit == [of : {"page"}, at : Nat] \cup [of : {"insert"}, insert : Inserts, at : Nat]

Latest(o) == IF o = << >> THEN PageUnit(0) ELSE o[Len(o)]
Chained(o) == \A k \in 1 .. Len(o) - 1 : Follows(o[k], o[k + 1])

(* The insert that is sent, and whether another one follows it. *)
InsertIn(hs) ==
  hs.state = "SENDING" =>
    /\ hs.insert \in Inserts /\ hs.index <= InsertLen
    /\ hs.part = LAST <=> hs.insert.last
    /\ hs.part # LAST => hs.insert.tag = hs.name /\ hs.part = hs.insert.part + 1

(* No tag ends between what is sent and what is parsed, but the one found. *)
Pending(hs) ==
  \A k \in hs.file + 1 .. hs.parsed :
    TagEnd(k) => hs.state = "SENDING" /\ k = hs.parsed

AtEnd(hs) == hs.state = "SENDING" /\ hs.file = hs.parsed
NotBegun(hs) == hs.state = "SENDING" => hs.index = 0 /\ hs.insert.part = 0

OnPage(hs, u) ==
  u = PageUnit(hs.file) /\ (TagEnd(hs.file) => AtEnd(hs)) /\ NotBegun(hs)
AfterInsert(hs, u) ==
  /\ \E i \in Inserts : u = InsertUnit(i, InsertLen) /\ i.last
  /\ TagEnd(hs.file) /\ ~AtEnd(hs) /\ NotBegun(hs)
InInsert(hs, u) ==
  AtEnd(hs) /\ hs.index > 0 /\ u = InsertUnit(hs.insert, hs.index)
BetweenRows(hs, u) ==
  /\ AtEnd(hs) /\ hs.index = 0
  /\ \E i \in Inserts : /\ u = InsertUnit(i, InsertLen) /\ ~i.last
                        /\ hs.insert.tag = i.tag /\ hs.insert.block = i.block
                        /\ hs.insert.part = i.part + 1

Where(hs, u) ==
  OnPage(hs, u) \/ AfterInsert(hs, u) \/ InInsert(hs, u) \/ BetweenRows(hs, u)

Reads(hs) ==
  /\ ReadsAt(hs.state, hs.index, hs.parsed) /\ TracksAt(hs.state, hs.index, hs.parsed)

(* A page and what was written of it. *)
PageOf(hs, o) ==
  /\ o \in Seq(Unit)
  /\ ~hs.open => o = << >>
  /\ hs.state = "PLAIN" => Latest(o) = PageUnit(hs.file)
  /\ hs.state # "PLAIN" =>
       Chained(o) /\ Reads(hs) /\ InsertIn(hs) /\ Pending(hs) /\ Where(hs, Latest(o))

(* The row that is sent is one of the array that holds the next one. *)
RowOf(hs, blocks) == hs.part # LAST => hs.insert.block = blocks[hs.name]

OInv ==
  /\ out \in [Conns -> Seq(Unit)]
  /\ \A c \in Conns : PageOf(conn[c], out[c]) /\ RowOf(conn[c], array)

(* Units that follow each other. *)
LEMMA UnitTypes ==
  /\ \A k \in Nat : PageUnit(k) \in Unit
  /\ \A i \in Inserts, k \in Nat : InsertUnit(i, k) \in Unit
BY DEF Unit, PageUnit, InsertUnit

LEMMA PageFollows ==
  ASSUME NEW k \in Nat, ~TagEnd(k)
  PROVE  Follows(PageUnit(k), PageUnit(k + 1))
BY DEF Follows, PageUnit

LEMMA InsertBegins ==
  ASSUME NEW k \in Nat, TagEnd(k), NEW i, i.part = 0
  PROVE  Follows(PageUnit(k), InsertUnit(i, 1))
BY DEF Follows, PageUnit, InsertUnit

LEMMA InsertFollows ==
  ASSUME NEW i, NEW k \in Nat
  PROVE  Follows(InsertUnit(i, k), InsertUnit(i, k + 1))
BY DEF Follows, InsertUnit

LEMMA PageGoesOn ==
  ASSUME NEW k \in Nat, TagEnd(k), NEW i, i.last
  PROVE  Follows(InsertUnit(i, InsertLen), PageUnit(k + 1))
<1>1. (k + 1) - 1 = k
  OBVIOUS
<1> QED
  BY <1>1 DEF Follows, PageUnit, InsertUnit

LEMMA RowFollows ==
  ASSUME NEW i \in Inserts, NEW e, ~i.last, e.tag = i.tag, e.block = i.block,
         e.part = i.part + 1
  PROVE  Follows(InsertUnit(i, InsertLen), InsertUnit(e, 1))
<1>1. e # i
  BY DEF Inserts
<1> QED
  BY <1>1 DEF Follows, InsertUnit

(* What is written follows what was written. *)
LEMMA JoinLatest ==
  ASSUME NEW o \in Seq(Unit), NEW w \in Seq(Unit), Len(w) > 0
  PROVE  /\ o \o w \in Seq(Unit) /\ o \o w # << >> /\ Latest(o \o w) = w[Len(w)]
         /\ Len(o \o w) = Len(o) + Len(w)
<1>1. PICK a \in Nat, b \in Nat : a = Len(o) /\ b = Len(w)
  OBVIOUS
<1>2. Len(o \o w) = a + b /\ o \o w \in Seq(Unit)
  BY <1>1
<1>3. (o \o w)[a + b] = w[b]
  BY <1>1
<1>4. o \o w # << >>
  BY <1>1, <1>2
<1> QED
  BY <1>1, <1>2, <1>3, <1>4 DEF Latest

LEMMA Extend ==
  ASSUME NEW o \in Seq(Unit), NEW w \in Seq(Unit), Len(w) > 0, Chained(o), Chained(w),
         Follows(Latest(o), w[1])
  PROVE  Chained(o \o w)
<1>1. PICK a \in Nat, b \in Nat : a = Len(o) /\ b = Len(w)
  OBVIOUS
<1>2. Len(o \o w) = a + b
  BY <1>1
<1>3. /\ \A k \in 1 .. a : (o \o w)[k] = o[k]
      /\ \A k \in 1 .. b : (o \o w)[a + k] = w[k]
  BY <1>1
<1>4. ASSUME NEW k \in 1 .. (a + b) - 1
      PROVE  Follows((o \o w)[k], (o \o w)[k + 1])
  <2>0. k \in Nat /\ 1 <= k /\ k <= (a + b) - 1
    OBVIOUS
  <2>1. CASE k < a
    <3>1. k \in 1 .. a - 1 /\ k \in 1 .. a /\ k + 1 \in 1 .. a
      BY <2>0, <2>1
    <3>2. (o \o w)[k] = o[k] /\ (o \o w)[k + 1] = o[k + 1]
      BY <1>3, <3>1
    <3> QED
      BY <1>1, <3>1, <3>2 DEF Chained
  <2>2. CASE k = a
    <3>1. (o \o w)[k] = o[a] /\ (o \o w)[k + 1] = w[1] /\ o # << >>
      BY <1>1, <1>3, <2>2
    <3> QED
      BY <1>1, <3>1 DEF Latest
  <2>3. CASE a < k
    <3>1. PICK j \in 1 .. b - 1 : k = a + j
      <4>1. k - a \in 1 .. b - 1 /\ k = a + (k - a)
        BY <2>0, <2>3
      <4> QED
        BY <4>1
    <3>2. k + 1 = a + (j + 1) /\ j \in 1 .. b /\ j + 1 \in 1 .. b
      BY <3>1
    <3>3. (o \o w)[k] = w[j] /\ (o \o w)[k + 1] = w[j + 1]
      BY <1>3, <3>1, <3>2
    <3> QED
      BY <1>1, <3>1, <3>3 DEF Chained
  <2>4. k < a \/ k = a \/ a < k
    BY <2>0
  <2> QED
    BY <2>1, <2>2, <2>3, <2>4
<1> QED
  BY <1>2, <1>4 DEF Chained

LEMMA FileUnitsAre ==
  ASSUME NEW hs, hs.file \in Nat, NEW m \in Nat \ {0}
  PROVE  LET w == FileUnits(hs, m) IN
         /\ w \in Seq(Unit) /\ Len(w) = m /\ Len(w) > 0
         /\ w[1] = PageUnit(hs.file + 1) /\ w[Len(w)] = PageUnit(hs.file + m)
         /\ (\A k \in hs.file + 1 .. (hs.file + m) - 1 : ~TagEnd(k)) => Chained(w)
<1>1. PICK f \in Nat : f = hs.file
  OBVIOUS
<1>2. PICK w : w = [k \in 1 .. m |-> PageUnit(f + k)]
  OBVIOUS
<1>3. w = FileUnits(hs, m)
  BY <1>1, <1>2 DEF FileUnits, PageUnit
<1>4. \A k \in 1 .. m : w[k] = PageUnit(f + k) /\ w[k] \in Unit
  BY <1>2, UnitTypes
<1>5. w \in Seq(Unit) /\ Len(w) = m
  BY <1>2, <1>4
<1>6. w[1] = PageUnit(f + 1) /\ w[m] = PageUnit(f + m)
  BY <1>4
<1>7. ASSUME \A k \in f + 1 .. (f + m) - 1 : ~TagEnd(k), NEW k \in 1 .. m - 1
      PROVE  Follows(w[k], w[k + 1])
  <2>1. f + k \in f + 1 .. (f + m) - 1 /\ f + k \in Nat /\ f + (k + 1) = (f + k) + 1
    OBVIOUS
  <2>2. w[k] = PageUnit(f + k) /\ w[k + 1] = PageUnit((f + k) + 1)
    BY <1>4, <2>1
  <2>3. ~TagEnd(f + k)
    BY <1>7, <2>1
  <2> QED
    BY <2>1, <2>2, <2>3, PageFollows
<1>8. (\A k \in f + 1 .. (f + m) - 1 : ~TagEnd(k)) => Chained(w)
  BY <1>5, <1>7 DEF Chained
<1> QED
  BY <1>1, <1>3, <1>5, <1>6, <1>8

LEMMA InsertUnitsAre ==
  ASSUME NEW hs, hs.insert \in Inserts, hs.index \in Nat, NEW m \in Nat \ {0}
  PROVE  LET w == InsertUnits(hs, m) IN
         /\ w \in Seq(Unit) /\ Len(w) = m /\ Len(w) > 0 /\ Chained(w)
         /\ w[1] = InsertUnit(hs.insert, hs.index + 1)
         /\ w[Len(w)] = InsertUnit(hs.insert, hs.index + m)
<1>1. PICK f \in Nat, i \in Inserts : f = hs.index /\ i = hs.insert
  OBVIOUS
<1>2. PICK w : w = [k \in 1 .. m |-> InsertUnit(i, f + k)]
  OBVIOUS
<1>3. w = InsertUnits(hs, m)
  BY <1>1, <1>2 DEF InsertUnits, InsertUnit
<1>4. \A k \in 1 .. m : w[k] = InsertUnit(i, f + k) /\ w[k] \in Unit
  BY <1>2, UnitTypes
<1>5. w \in Seq(Unit) /\ Len(w) = m
  BY <1>2, <1>4
<1>6. w[1] = InsertUnit(i, f + 1) /\ w[m] = InsertUnit(i, f + m)
  BY <1>4
<1>7. ASSUME NEW k \in 1 .. m - 1
      PROVE  Follows(w[k], w[k + 1])
  <2>1. f + k \in Nat /\ f + (k + 1) = (f + k) + 1
    OBVIOUS
  <2>2. w[k] = InsertUnit(i, f + k) /\ w[k + 1] = InsertUnit(i, (f + k) + 1)
    BY <1>4, <2>1
  <2> QED
    BY <2>1, <2>2, InsertFollows
<1>8. Chained(w)
  BY <1>5, <1>7 DEF Chained
<1> QED
  BY <1>1, <1>3, <1>5, <1>6, <1>8

-----------------------------------------------------------------------------
(* What a step makes of a page and of what was written of it. *)

(* Places of a page. *)
LEMMA PagePlaces ==
  ASSUME NEW hs, Sound(hs)
  PROVE  /\ hs.file \in Nat /\ hs.parsed \in Nat /\ hs.parsed \in Place /\ hs.file \in Place
         /\ hs.file <= Len(File) /\ hs.parsed <= Len(File) /\ hs.index \in Nat
         /\ hs.state # "PLAIN" => hs.file <= hs.parsed
         /\ hs.state = "SENDING" => hs.end = hs.parsed
BY Sizes DEF Sound, Place

(* A tag that is being sent has an end, where the parser stands. *)
LEMMA EndIsTag ==
  ASSUME NEW hs, Reads(hs), AtEnd(hs)
  PROVE  TagEnd(hs.file)
BY DEF Reads, AtEnd, ReadsAt

(* A page of which m tokens are written. *)
LEMMA WritePage ==
  ASSUME NEW hs, Sound(hs), hs.open, NEW o, PageOf(hs, o), NEW m \in Nat \ {0},
         hs.state # "PLAIN" => hs.file + m <= hs.parsed,
         NEW g, g.open = hs.open, g.file = hs.file + m, g.parsed = hs.parsed,
         g.state = hs.state, g.index = hs.index, g.name = hs.name,
         g.insert = hs.insert, g.part = hs.part
  PROVE  PageOf(g, o \o FileUnits(hs, m))
<1>0. PICK w : w = FileUnits(hs, m)
  OBVIOUS
<1>1. PICK f \in Nat, p \in Nat : f = hs.file /\ p = hs.parsed
  BY PagePlaces
<1>2. /\ w \in Seq(Unit) /\ Len(w) > 0
      /\ w[1] = PageUnit(f + 1) /\ w[Len(w)] = PageUnit(f + m)
      /\ (\A k \in f + 1 .. (f + m) - 1 : ~TagEnd(k)) => Chained(w)
  BY <1>0, <1>1, FileUnitsAre
<1>3. o \in Seq(Unit)
  BY DEF PageOf
<1>4. o \o w \in Seq(Unit) /\ Latest(o \o w) = PageUnit(f + m)
  BY <1>2, <1>3, JoinLatest
<1>5. CASE hs.state = "PLAIN"
  BY <1>0, <1>1, <1>4, <1>5 DEF PageOf
<1>6. CASE hs.state # "PLAIN"
  <2>1. f + m <= p /\ f < p
    BY <1>1, <1>6
  <2>2. Chained(o) /\ Reads(hs) /\ InsertIn(hs) /\ Pending(hs) /\ Where(hs, Latest(o))
    BY <1>6 DEF PageOf
  <2>3. ASSUME NEW k \in f + 1 .. p, TagEnd(k) PROVE hs.state = "SENDING" /\ k = p
    BY <1>1, <2>2, <2>3 DEF Pending
  <2>4. Chained(w)
    <3>1. ASSUME NEW k \in f + 1 .. (f + m) - 1 PROVE ~TagEnd(k)
      <4>1. k \in f + 1 .. p /\ k # p
        BY <2>1
      <4> QED
        BY <2>3, <4>1
    <3> QED
      BY <1>2, <3>1
  <2>5. ~AtEnd(hs)
    BY <1>1, <2>1 DEF AtEnd
  <2>6. Follows(Latest(o), w[1]) /\ NotBegun(hs)
    <3>1. CASE OnPage(hs, Latest(o))
      <4>1. Latest(o) = PageUnit(f) /\ ~TagEnd(f) /\ NotBegun(hs)
        BY <1>1, <2>5, <3>1 DEF OnPage
      <4> QED
        BY <1>2, <4>1, PageFollows
    <3>2. CASE AfterInsert(hs, Latest(o))
      <4>1. PICK i \in Inserts : Latest(o) = InsertUnit(i, InsertLen) /\ i.last
        BY <3>2 DEF AfterInsert
      <4>2. TagEnd(f) /\ NotBegun(hs)
        BY <1>1, <3>2 DEF AfterInsert
      <4> QED
        BY <1>2, <4>1, <4>2, PageGoesOn
    <3> QED
      BY <2>2, <2>5, <3>1, <3>2 DEF Where, InInsert, BetweenRows
  <2>7. Chained(o \o w)
    BY <1>2, <1>3, <2>2, <2>4, <2>6, Extend
  <2>8. Reads(g) /\ InsertIn(g)
    BY <2>2 DEF Reads, InsertIn
  <2>9. Pending(g)
    <3>1. ASSUME NEW k \in (f + m) + 1 .. p, TagEnd(k) PROVE hs.state = "SENDING" /\ k = p
      <4>1. k \in f + 1 .. p
        OBVIOUS
      <4> QED
        BY <2>3, <3>1, <4>1
    <3> QED
      BY <1>1, <3>1 DEF Pending
  <2>10. Where(g, PageUnit(f + m))
    <3>1. f + m \in f + 1 .. p
      BY <2>1
    <3>2. TagEnd(f + m) => AtEnd(g)
      BY <1>1, <2>3, <3>1 DEF AtEnd
    <3>3. NotBegun(g)
      BY <2>6 DEF NotBegun
    <3> QED
      BY <1>1, <3>2, <3>3 DEF Where, OnPage
  <2> QED
    BY <1>0, <1>1, <1>4, <1>6, <2>7, <2>8, <2>9, <2>10 DEF PageOf
<1> QED
  BY <1>5, <1>6

(* An insert of which m units are written. *)
LEMMA WriteRow ==
  ASSUME NEW hs, Sound(hs), hs.open, NEW o, PageOf(hs, o), NEW m \in Nat \ {0},
         AtEnd(hs), hs.index + m <= InsertLen,
         NEW g, g.open = hs.open, g.file = hs.file, g.parsed = hs.parsed,
         g.state = hs.state, g.index = hs.index + m, g.name = hs.name,
         g.insert = hs.insert, g.part = hs.part
  PROVE  PageOf(g, o \o InsertUnits(hs, m))
<1>1. hs.state = "SENDING" /\ hs.file = hs.parsed
  BY DEF AtEnd
<1>2. Chained(o) /\ Reads(hs) /\ InsertIn(hs) /\ Pending(hs) /\ Where(hs, Latest(o))
  BY <1>1 DEF PageOf
<1>0. PICK w : w = InsertUnits(hs, m)
  OBVIOUS
<1>3. PICK x \in Nat, f \in Nat, i \in Inserts :
        x = hs.index /\ f = hs.file /\ i = hs.insert
  BY <1>1, <1>2, PagePlaces DEF InsertIn
<1>4. /\ w \in Seq(Unit) /\ Len(w) > 0 /\ Chained(w)
      /\ w[1] = InsertUnit(i, x + 1) /\ w[Len(w)] = InsertUnit(i, x + m)
  BY <1>0, <1>3, InsertUnitsAre
<1>5. o \in Seq(Unit)
  BY DEF PageOf
<1>6. o \o w \in Seq(Unit) /\ Latest(o \o w) = InsertUnit(i, x + m)
  BY <1>4, <1>5, JoinLatest
<1>7. TagEnd(f)
  BY <1>2, <1>3, EndIsTag
<1>8. Follows(Latest(o), w[1])
  <2>1. CASE OnPage(hs, Latest(o))
    <3>1. Latest(o) = PageUnit(f) /\ x = 0 /\ i.part = 0
      BY <1>1, <1>3, <2>1 DEF OnPage, NotBegun
    <3>2. w[1] = InsertUnit(i, 1)
      BY <1>4, <3>1
    <3> QED
      BY <1>7, <3>1, <3>2, InsertBegins
  <2>2. CASE InInsert(hs, Latest(o))
    <3>1. Latest(o) = InsertUnit(i, x)
      BY <1>3, <2>2 DEF InInsert
    <3> QED
      BY <1>4, <3>1, InsertFollows
  <2>3. CASE BetweenRows(hs, Latest(o))
    <3>1. PICK e \in Inserts : /\ Latest(o) = InsertUnit(e, InsertLen) /\ ~e.last
                               /\ i.tag = e.tag /\ i.block = e.block
                               /\ i.part = e.part + 1
      BY <1>3, <2>3 DEF BetweenRows
    <3>2. x = 0
      BY <1>3, <2>3 DEF BetweenRows
    <3>3. w[1] = InsertUnit(i, 1)
      BY <1>4, <3>2
    <3> QED
      BY <3>1, <3>3, RowFollows
  <2> QED
    BY <1>2, <2>1, <2>2, <2>3 DEF Where, AfterInsert
<1>9. Chained(o \o w)
  BY <1>2, <1>4, <1>5, <1>8, Extend
<1>10. Reads(g)
  <2>1. hs.parsed \in Place
    BY PagePlaces
  <2>2. TracksAt("SENDING", hs.index, hs.parsed) /\ TagEnd(hs.parsed)
    BY <1>1, <1>2 DEF Reads, ReadsAt
  <2>3. TracksAt("SENDING", g.index, hs.parsed)
    BY <2>1, <2>2, TracksFree
  <2> QED
    BY <1>1, <2>2, <2>3 DEF Reads, ReadsAt
<1>11. InsertIn(g) /\ Pending(g)
  BY <1>1, <1>2 DEF InsertIn, Pending
<1>12. Where(g, InsertUnit(i, x + m))
  <2>1. AtEnd(g)
    BY DEF AtEnd
  <2>2. x + m > 0
    OBVIOUS
  <2> QED
    BY <1>3, <2>1, <2>2 DEF Where, InInsert
<1> QED
  BY <1>0, <1>1, <1>3, <1>6, <1>9, <1>10, <1>11, <1>12 DEF PageOf

(* A page of which nothing is written and nothing is parsed. *)
LEMMA SamePage ==
  ASSUME NEW hs, NEW o, PageOf(hs, o),
         NEW g, g.open = hs.open, g.file = hs.file, g.parsed = hs.parsed,
         g.state = hs.state, g.index = hs.index, g.name = hs.name,
         g.insert = hs.insert, g.part = hs.part
  PROVE  PageOf(g, o)
<1>1. CASE hs.state = "PLAIN"
  BY <1>1 DEF PageOf
<1>2. CASE hs.state # "PLAIN"
  <2>1. Chained(o) /\ Reads(hs) /\ InsertIn(hs) /\ Pending(hs) /\ Where(hs, Latest(o))
    BY <1>2 DEF PageOf
  <2>2. Reads(g) /\ InsertIn(g) /\ Pending(g)
    BY <2>1 DEF Reads, InsertIn, Pending
  <2>3. Where(g, Latest(o))
    BY <2>1 DEF Where, OnPage, AfterInsert, InInsert, BetweenRows, AtEnd, NotBegun
  <2> QED
    BY <1>2, <2>1, <2>2, <2>3 DEF PageOf
<1> QED
  BY <1>1, <1>2

(* A turn of the parser. *)
LEMMA ParsePage ==
  ASSUME NEW hs, Sound(hs), hs.parsed \in 0 .. Len(File) - 1, NEW o, PageOf(hs, o),
         NEW g, NEW d, NEW to, NEW index, NEW name,
         Parsed(g, hs, d, to, index, name),
         Turns(hs, File[hs.parsed + 1], d, to, index, name)
  PROVE  PageOf(g, o)
<1>1. /\ hs.state \in {"NONE", "LEADIN", "FOUND", "LEADOUT"} /\ d \in {0, 1}
      /\ to \in {"NONE", "LEADIN", "FOUND", "LEADOUT"}
  BY DEF Turns, FromNone, FromLeadin, FromFound, FromLeadout
<1>2. /\ Chained(o) /\ Reads(hs) /\ Pending(hs) /\ Where(hs, Latest(o))
      /\ o \in Seq(Unit) /\ (~hs.open => o = << >>)
  BY <1>1 DEF PageOf
<1>3. /\ g.open = hs.open /\ g.file = hs.file /\ g.parsed = hs.parsed + d
      /\ g.state = to /\ g.index = index /\ g.insert = hs.insert
  BY DEF Parsed, Kept
<1>4. hs.index \in Nat
  BY PagePlaces
<1>5. PICK x \in 0 .. Len(File) - 1 : x = hs.parsed
  OBVIOUS
<1>6. PICK f \in Nat : f = hs.file
  BY PagePlaces
<1>7. ReadsAt(hs.state, hs.index, x) /\ TracksAt(hs.state, hs.index, x)
      /\ Turns(hs, File[x + 1], d, to, index, name)
  BY <1>2, <1>5 DEF Reads
<1>8. ReadsAt(to, index, x + d)
  BY <1>4, <1>7, ReadsOn
<1>9. TracksAt(to, index, x + d) /\ (d = 1 => ~TagEnd(x + 1))
  BY <1>4, <1>7, TracksOn
<1>10. Reads(g)
  BY <1>3, <1>5, <1>8, <1>9 DEF Reads
<1>11. ASSUME NEW k \in f + 1 .. x + d, TagEnd(k) PROVE FALSE
  <2>1. CASE k <= x
    <3>1. k \in f + 1 .. x
      BY <2>1
    <3>2. k \in hs.file + 1 .. hs.parsed
      BY <1>5, <1>6, <3>1
    <3> QED
      BY <1>1, <1>2, <1>11, <3>2 DEF Pending
  <2>2. CASE ~(k <= x)
    <3>1. d = 1 /\ k = x + 1
      BY <1>1, <2>2
    <3> QED
      BY <1>9, <1>11, <3>1
  <2> QED
    BY <2>1, <2>2
<1>12. Pending(g)
  BY <1>3, <1>5, <1>6, <1>11 DEF Pending
<1>13. ~AtEnd(hs) /\ ~AtEnd(g) /\ InsertIn(g) /\ NotBegun(g)
  BY <1>1, <1>3 DEF AtEnd, InsertIn, NotBegun
<1>14. Where(g, Latest(o))
  BY <1>2, <1>3, <1>13 DEF Where, OnPage, AfterInsert, InInsert, BetweenRows
<1>15. g.state # "PLAIN"
  BY <1>1, <1>3
<1> QED
  BY <1>2, <1>3, <1>10, <1>12, <1>13, <1>14, <1>15 DEF PageOf

(* A tag that is complete. *)
LEMMA CompletePage ==
  ASSUME NEW hs, Sound(hs), hs.state = "LEADOUT", hs.parsed \in 0 .. Len(File) - 1,
         File[hs.parsed + 1] = LeadOut[hs.index + 1], hs.index = Len(LeadOut) - 1,
         NEW o, PageOf(hs, o),
         NEW g, g.open = hs.open, g.file = hs.file, g.parsed = hs.parsed + 1,
         g.state = "SENDING", g.index = 0, g.insert \in Inserts, g.insert.part = 0,
         g.part = LAST <=> g.insert.last,
         g.part # LAST => g.insert.tag = g.name /\ g.part = g.insert.part + 1
  PROVE  PageOf(g, o)
<1>1. /\ Chained(o) /\ Reads(hs) /\ Pending(hs) /\ Where(hs, Latest(o))
      /\ o \in Seq(Unit) /\ (~hs.open => o = << >>)
  BY DEF PageOf
<1>2. PICK x \in 0 .. Len(File) - 1, i \in Nat : x = hs.parsed /\ i = hs.index
  BY PagePlaces
<1>3. PICK f \in Nat : f = hs.file /\ f <= x
  BY <1>2, PagePlaces
<1>4. ReadsAt("LEADOUT", i, x) /\ TracksAt("LEADOUT", i, x)
  BY <1>1, <1>2 DEF Reads
<1>5. TagEnd(x + 1)
  BY <1>2, <1>4, ReadsTag
<1>6. TracksAt("SENDING", 0, x + 1)
  BY <1>2, <1>4, TracksTag
<1>7. Reads(g)
  BY <1>2, <1>5, <1>6 DEF Reads, ReadsAt
<1>8. InsertIn(g)
  BY Sizes DEF InsertIn
<1>9. ASSUME NEW k \in f + 1 .. x + 1, TagEnd(k) PROVE k = x + 1
  <2>1. CASE k <= x
    <3>1. k \in f + 1 .. x
      BY <2>1
    <3>2. k \in hs.file + 1 .. hs.parsed
      BY <1>2, <1>3, <3>1
    <3> QED
      BY <1>1, <1>9, <3>2 DEF Pending
  <2>2. CASE ~(k <= x)
    BY <2>2
  <2> QED
    BY <2>1, <2>2
<1>10. Pending(g)
  BY <1>2, <1>3, <1>9 DEF Pending
<1>11. ~AtEnd(hs) /\ ~AtEnd(g) /\ NotBegun(g)
  BY <1>2, <1>3 DEF AtEnd, NotBegun
<1>12. Where(g, Latest(o))
  BY <1>1, <1>11 DEF Where, OnPage, AfterInsert, InInsert, BetweenRows
<1> QED
  BY <1>1, <1>7, <1>8, <1>10, <1>12 DEF PageOf

(* The next row of a table. *)
LEMMA RenewPage ==
  ASSUME NEW hs, Sound(hs), hs.index >= InsertLen, hs.part # LAST, NEW o, PageOf(hs, o),
         AtEnd(hs),
         NEW g, g.open = hs.open, g.file = hs.file, g.parsed = hs.parsed,
         g.state = hs.state, g.index = 0, g.insert \in Inserts,
         g.insert.tag = hs.name, g.insert.block = hs.insert.block,
         g.insert.part = hs.part, g.name = hs.name,
         g.part = LAST <=> g.insert.last,
         g.part # LAST => g.part = g.insert.part + 1
  PROVE  PageOf(g, o)
<1>1. hs.state = "SENDING" /\ hs.file = hs.parsed
  BY DEF AtEnd
<1>2. /\ Chained(o) /\ Reads(hs) /\ InsertIn(hs) /\ Pending(hs) /\ Where(hs, Latest(o))
      /\ o \in Seq(Unit) /\ (~hs.open => o = << >>)
  BY <1>1 DEF PageOf
<1>3. /\ hs.insert \in Inserts /\ hs.index = InsertLen /\ hs.index > 0
      /\ hs.insert.tag = hs.name /\ hs.part = hs.insert.part + 1 /\ ~hs.insert.last
  <2>1. hs.index \in Nat
    BY PagePlaces
  <2>2. hs.index <= InsertLen
    BY <1>1, <1>2 DEF InsertIn
  <2> QED
    BY <1>1, <1>2, <2>1, <2>2, Sizes DEF InsertIn
<1>4. Latest(o) = InsertUnit(hs.insert, InsertLen)
  BY <1>1, <1>2, <1>3 DEF Where, OnPage, AfterInsert, InInsert, BetweenRows, NotBegun
<1>5. BetweenRows(g, Latest(o))
  BY <1>1, <1>3, <1>4 DEF BetweenRows, AtEnd
<1>6. Reads(g)
  <2>1. hs.parsed \in Place
    BY PagePlaces
  <2>2. TracksAt("SENDING", hs.index, hs.parsed) /\ TagEnd(hs.parsed)
    BY <1>1, <1>2 DEF Reads, ReadsAt
  <2>3. TracksAt("SENDING", g.index, hs.parsed)
    BY <2>1, <2>2, TracksFree
  <2> QED
    BY <1>1, <2>2, <2>3 DEF Reads, ReadsAt
<1>7. InsertIn(g)
  BY Sizes DEF InsertIn
<1>8. Pending(g)
  BY <1>1, <1>2 DEF Pending
<1> QED
  BY <1>1, <1>2, <1>5, <1>6, <1>7, <1>8 DEF PageOf, Where

(* A tag that is sent. *)
LEMMA LeavePage ==
  ASSUME NEW hs, Sound(hs), hs.index >= InsertLen, hs.part = LAST, NEW o, PageOf(hs, o),
         AtEnd(hs),
         NEW g, g.open = hs.open, g.file = hs.file, g.parsed = hs.parsed,
         g.state = "NONE"
  PROVE  PageOf(g, o)
<1>1. hs.state = "SENDING" /\ hs.file = hs.parsed
  BY DEF AtEnd
<1>2. /\ Chained(o) /\ Reads(hs) /\ InsertIn(hs) /\ Pending(hs) /\ Where(hs, Latest(o))
      /\ o \in Seq(Unit) /\ (~hs.open => o = << >>)
  BY <1>1 DEF PageOf
<1>3. hs.insert \in Inserts /\ hs.index = InsertLen /\ hs.index > 0 /\ hs.insert.last
  <2>1. hs.index \in Nat
    BY PagePlaces
  <2>2. hs.index <= InsertLen
    BY <1>1, <1>2 DEF InsertIn
  <2> QED
    BY <1>1, <1>2, <2>1, <2>2, Sizes DEF InsertIn
<1>4. Latest(o) = InsertUnit(hs.insert, InsertLen)
  BY <1>1, <1>2, <1>3 DEF Where, OnPage, AfterInsert, InInsert, BetweenRows, NotBegun
<1>5. TagEnd(hs.file)
  BY <1>2, EndIsTag
<1>6. AfterInsert(g, Latest(o))
  BY <1>3, <1>4, <1>5 DEF AfterInsert, AtEnd, NotBegun
<1>7. Reads(g)
  <2>1. hs.parsed \in Place
    BY PagePlaces
  <2>2. TracksAt("SENDING", hs.index, hs.parsed)
    BY <1>1, <1>2 DEF Reads
  <2>3. TracksAt("NONE", g.index, hs.parsed)
    BY <2>1, <2>2, TracksFree
  <2> QED
    BY <2>3 DEF Reads, ReadsAt
<1>8. InsertIn(g)
  BY DEF InsertIn
<1>9. Pending(g)
  <2>1. ASSUME NEW k \in hs.file + 1 .. hs.parsed PROVE FALSE
    <3>1. PICK f \in Nat : f = hs.file /\ f = hs.parsed
      BY <1>1, PagePlaces
    <3>2. k \in f + 1 .. f
      BY <3>1
    <3> QED
      BY <3>1, <3>2
  <2> QED
    BY <2>1 DEF Pending
<1> QED
  BY <1>1, <1>2, <1>6, <1>7, <1>8, <1>9 DEF PageOf, Where

(* A page that is asked for. *)
LEMMA ZeroIsNoTag == ~TagEnd(0)
<1> SUFFICES ASSUME TagEnd(0) PROVE FALSE
  OBVIOUS
<1>1. PICK p \in Place, n \in Place, m \in Place : Begun(p, n, m, 0 - Len(LeadOut), 0)
  BY DEF TagEnd, TagEnds
<1>2. p + Len(LeadIn) <= n /\ n <= m /\ m <= 0 - Len(LeadOut)
  BY <1>1 DEF Begun
<1> QED
  BY <1>2, PlaceNat, LeadSizes

LEMMA NewPage ==
  ASSUME NEW g, g.file = 0, g.parsed = 0, g.state \in {"NONE", "PLAIN"}
  PROVE  PageOf(g, << >>)
<1>1. << >> \in Seq(Unit) /\ Latest(<< >>) = PageUnit(0)
  BY DEF Latest
<1>2. Chained(<< >>)
  BY DEF Chained
<1>3. g.state = "NONE" => Reads(g)
  <2>1. TracksAt("NONE", g.index, 0)
    BY PlaceNat DEF TracksAt, Tracks
  <2> QED
    BY <2>1 DEF Reads, ReadsAt
<1>4. g.state = "NONE" => InsertIn(g) /\ Pending(g)
  BY DEF InsertIn, Pending
<1>5. g.state = "NONE" => Where(g, PageUnit(0))
  BY ZeroIsNoTag DEF Where, OnPage, NotBegun
<1> QED
  BY <1>1, <1>2, <1>3, <1>4, <1>5 DEF PageOf

(* What a handler or an unknown tag gives to be sent. *)
LEMMA InsertIs ==
  ASSUME HInv, NEW c \in Conns, NEW name \in Seq(Chars), NEW p \in Nat,
         NEW r \in TagInsert(c, name, p),
         p = 0 \/ (Holds(c) /\ name = conn[c].name)
  PROVE  /\ r.insert \in Inserts /\ r.insert.tag = name /\ r.insert.part = p
         /\ r.part = LAST <=> r.insert.last
         /\ r.part # LAST => r.insert.block = r.array[name] /\ r.part = p + 1
         /\ p # 0 => r.array = array /\ r.insert.block = array[name]
<1>1. CASE HandlersSet /\ name \in Tables
  <2>1. PICK heap \in IF p = 0 THEN Allocated(c, name) ELSE Unallocated :
          r = Shown(heap, name, p)
    BY <1>1 DEF TagInsert, TableRow
  <2>2. heap.array \in [Tables -> 0 .. Blocks] /\ (p # 0 => heap.array = array)
    <3>1. array \in [Tables -> 0 .. Blocks]
      BY DEF HInv, HeapTypes
    <3>2. CASE p = 0
      <4>1. PICK b \in Available, n \in RowCounts :
              heap = [array |-> [array EXCEPT ![name] = b],
                      number |-> [number EXCEPT ![name] = n],
                      owner |-> [owner EXCEPT ![b] = c]]
        BY <2>1, <3>2 DEF Allocated
      <4>2. b \in 0 .. Blocks /\ heap.array = [array EXCEPT ![name] = b]
        BY <4>1, PageAssumption DEF Available, Block
      <4> QED
        BY <3>1, <3>2, <4>2
    <3>3. CASE p # 0
      <4>1. heap = [array |-> array, number |-> number, owner |-> owner]
        BY <2>1, <3>3 DEF Unallocated
      <4> QED
        BY <3>1, <4>1
    <3> QED
      BY <3>2, <3>3
  <2>3. PICK last \in BOOLEAN : last = Last(heap, name, p)
    <3>1. Last(heap, name, p) \in BOOLEAN
      BY DEF Last
    <3> QED
      BY <3>1
  <2>4. /\ r.array = heap.array /\ r.part = (IF last THEN LAST ELSE p + 1)
        /\ r.insert = [kind |-> "row", tag |-> name, block |-> heap.array[name],
                       part |-> p, last |-> last]
    BY <2>1, <2>3 DEF Shown, Row
  <2>5. heap.array[name] \in 0 .. Blocks
    BY <1>1, <2>2
  <2>6. r.insert \in Inserts
    BY <2>4, <2>5 DEF Inserts
  <2>7. /\ r.insert.tag = name /\ r.insert.part = p /\ r.insert.last = last
        /\ r.insert.block = heap.array[name]
    BY <2>4
  <2>8. r.part = LAST <=> last
    BY <2>4 DEF LAST
  <2> QED
    BY <2>2, <2>4, <2>6, <2>7, <2>8
<1>2. CASE ~(HandlersSet /\ name \in Tables)
  <2>1. p = 0
    BY <1>2 DEF Holds, HandlersSet
  <2>0. PICK kind : kind = IF HandlersSet /\ name \in Texts THEN "text" ELSE "unknown"
    OBVIOUS
  <2>2. kind \in {"text", "unknown"}
    BY <2>0
  <2>6. r \in {[array |-> array, number |-> number, owner |-> owner, part |-> LAST,
                insert |-> Text(name, kind)]}
    BY <1>2, <2>0, Zenon DEF TagInsert
  <2>7. r.insert = [kind |-> kind, tag |-> name, block |-> 0, part |-> 0, last |-> TRUE]
    BY <2>6 DEF Text
  <2>3. r.part = LAST
    BY <1>2 DEF TagInsert
  <2>4. r.insert \in Inserts
    BY <2>2, <2>7, Sizes DEF Inserts
  <2>5. r.insert.tag = name /\ r.insert.part = 0 /\ r.insert.last = TRUE
    BY <2>7
  <2> QED
    BY <2>1, <2>3, <2>4, <2>5
<1> QED
  BY <1>1, <1>2

-----------------------------------------------------------------------------
(* The steps. *)

(* The call that is made is of the page that is open: no other one has an  *)
(* array.                                                                  *)
LEMMA CallOpen ==
  ASSUME HInv, TInv, OInv, run # Idle
  PROVE  /\ run.c \in Conns /\ conn[run.c].open /\ Sound(conn[run.c])
         /\ PageOf(conn[run.c], out[run.c]) /\ RowOf(conn[run.c], array)
         /\ conn[run.c].part = LAST \/ Holds(run.c)
         /\ \A d \in Conns : d # run.c => conn[d].part = LAST
<1>1. run.c \in Conns /\ conn[run.c].open
  BY DEF HInv, Running
<1>2. Tagged(run.c)
  BY <1>1 DEF HInv
<1>3. ASSUME NEW d \in Conns, d # run.c PROVE conn[d].part = LAST
  <2>1. ~conn[d].open /\ Tagged(d)
    BY <1>1, <1>3 DEF HInv, OneOpen
  <2> QED
    BY <2>1 DEF Tagged, Holds
<1> QED
  BY <1>1, <1>2, <1>3 DEF TInv, OInv, Tagged

LEMMA PageStep ==
  ASSUME TInv, OInv, NEW c \in Conns, NEW g, NEW o, PageOf(g, o), RowOf(g, array'),
         conn' = [conn EXCEPT ![c] = g], out' = [out EXCEPT ![c] = o],
         array' = array \/ \A d \in Conns : d # c => conn[d].part = LAST
  PROVE  OInv'
<1>1. DOMAIN conn = Conns /\ DOMAIN out = Conns
  BY DEF TInv, OInv
<1>2. out' \in [Conns -> Seq(Unit)]
  <2>1. o \in Seq(Unit)
    BY DEF PageOf
  <2> QED
    BY <2>1 DEF OInv
<1>3. ASSUME NEW d \in Conns PROVE PageOf(conn'[d], out'[d]) /\ RowOf(conn'[d], array')
  <2>1. CASE d = c
    <3>1. conn'[d] = g /\ out'[d] = o
      BY <1>1, <2>1
    <3> QED
      BY <3>1
  <2>2. CASE d # c
    <3>1. conn'[d] = conn[d] /\ out'[d] = out[d]
      BY <1>1, <2>2
    <3>2. PageOf(conn[d], out[d]) /\ RowOf(conn[d], array)
      BY DEF OInv
    <3>3. RowOf(conn[d], array')
      BY <2>2, <3>2 DEF RowOf
    <3> QED
      BY <3>1, <3>2, <3>3
  <2> QED
    BY <2>1, <2>2
<1> QED
  BY <1>2, <1>3 DEF OInv

(* A step that writes nothing. *)
LEMMA NothingWritten ==
  ASSUME TInv, OInv, NEW c \in Conns, NEW g, PageOf(g, out[c]), RowOf(g, array'),
         conn' = [conn EXCEPT ![c] = g],
         out' = out \/ out' = [out EXCEPT ![c] = @ \o << >>],
         array' = array \/ \A d \in Conns : d # c => conn[d].part = LAST
  PROVE  OInv'
<1>1. PICK o \in Seq(Unit) : o = out[c]
  BY DEF PageOf
<1>2. o \o << >> = o
  OBVIOUS
<1>3. out \in [Conns -> Seq(Unit)]
  BY DEF OInv
<1>4. out' = [out EXCEPT ![c] = o]
  <2>1. CASE out' = out
    BY <1>1, <1>3, <2>1
  <2>2. CASE out' = [out EXCEPT ![c] = @ \o << >>]
    BY <1>1, <1>2, <2>2
  <2> QED
    BY <2>1, <2>2
<1> QED
  BY <1>1, <1>4, PageStep

(* A step that writes of the page. *)
LEMMA PageWritten ==
  ASSUME TInv, OInv, NEW c \in Conns, NEW hs, Sound(hs), hs.open, PageOf(hs, out[c]),
         RowOf(hs, array'), NEW n \in Nat,
         hs.state = "PLAIN" => n <= Len(File) - hs.file,
         hs.state # "PLAIN" => n <= hs.parsed - hs.file,
         NEW m \in Taken(hs, n), NEW at, NEW len,
         Step(c, [hs EXCEPT !.file = @ + m, !.unacked = @ + m], at, len, FileUnits(hs, m)),
         array' = array \/ \A d \in Conns : d # c => conn[d].part = LAST
  PROVE  OInv'
<1>1. PICK g : g = [hs EXCEPT !.file = @ + m, !.unacked = @ + m]
  OBVIOUS
<1>2. m \in Nat \ {0} /\ m <= n
  BY TakenIs
<1>3. DOMAIN hs = FieldNames
  BY DEF Sound
<1>4. /\ g.open = hs.open /\ g.file = hs.file + m /\ g.parsed = hs.parsed
      /\ g.state = hs.state /\ g.index = hs.index /\ g.name = hs.name
      /\ g.insert = hs.insert /\ g.part = hs.part
  BY <1>1, <1>3, Names
<1>5. hs.state # "PLAIN" => hs.file + m <= hs.parsed
  <2>1. PICK x \in Nat, y \in Nat : x = hs.file /\ y = hs.parsed
    BY PagePlaces
  <2> QED
    BY <1>2, <2>1
<1>6. PageOf(g, out[c] \o FileUnits(hs, m))
  BY <1>2, <1>4, <1>5, WritePage
<1>7. RowOf(g, array')
  BY <1>4 DEF RowOf
<1>8. conn' = [conn EXCEPT ![c] = g] /\ out' = [out EXCEPT ![c] = out[c] \o FileUnits(hs, m)]
  BY <1>1 DEF Step
<1> QED
  BY <1>6, <1>7, <1>8, PageStep

(* A step that writes of an insert. *)
LEMMA RowWritten ==
  ASSUME TInv, OInv, NEW c \in Conns, NEW hs, Sound(hs), hs.open, PageOf(hs, out[c]),
         RowOf(hs, array'), AtEnd(hs), NEW n \in Nat, n <= InsertLen - hs.index,
         NEW m \in Taken(hs, n), NEW at, NEW len,
         Step(c, [hs EXCEPT !.index = @ + m, !.unacked = @ + m], at, len,
              InsertUnits(hs, m)),
         array' = array \/ \A d \in Conns : d # c => conn[d].part = LAST
  PROVE  OInv'
<1>1. PICK g : g = [hs EXCEPT !.index = @ + m, !.unacked = @ + m]
  OBVIOUS
<1>2. m \in Nat \ {0} /\ m <= n
  BY TakenIs
<1>3. DOMAIN hs = FieldNames
  BY DEF Sound
<1>4. /\ g.open = hs.open /\ g.file = hs.file /\ g.parsed = hs.parsed
      /\ g.state = hs.state /\ g.index = hs.index + m /\ g.name = hs.name
      /\ g.insert = hs.insert /\ g.part = hs.part
  BY <1>1, <1>3, Names
<1>5. hs.index + m <= InsertLen
  <2>1. PICK x \in Nat : x = hs.index
    BY PagePlaces
  <2> QED
    BY <1>2, <2>1, Sizes
<1>6. PageOf(g, out[c] \o InsertUnits(hs, m))
  BY <1>2, <1>4, <1>5, WriteRow
<1>7. RowOf(g, array')
  BY <1>4 DEF RowOf
<1>8. conn' = [conn EXCEPT ![c] = g]
      /\ out' = [out EXCEPT ![c] = out[c] \o InsertUnits(hs, m)]
  BY <1>1 DEF Step
<1> QED
  BY <1>6, <1>7, <1>8, PageStep

LEMMA FileWrite ==
  ASSUME TInv, OInv, NEW c \in Conns, NEW hs, Sound(hs), hs.open, PageOf(hs, out[c]),
         RowOf(hs, array'), hs.state # "PLAIN", NEW n \in Nat, n <= hs.parsed - hs.file,
         WriteFile(c, hs, n),
         array' = array \/ \A d \in Conns : d # c => conn[d].part = LAST
  PROVE  OInv'
<1>1. CASE Failed(c, hs, "end")
  BY <1>1, NothingWritten DEF Failed
<1>2. CASE ~Failed(c, hs, "end")
  <2>1. PICK m \in Taken(hs, n) :
          Step(c, [hs EXCEPT !.file = @ + m, !.unacked = @ + m], "loop", m,
               FileUnits(hs, m))
    BY <1>2 DEF WriteFile
  <2> QED
    BY <2>1, PageWritten
<1> QED
  BY <1>1, <1>2

LEMMA RowWrite ==
  ASSUME TInv, OInv, NEW c \in Conns, NEW hs, Sound(hs), hs.open, PageOf(hs, out[c]),
         RowOf(hs, array'), AtEnd(hs), NEW n \in Nat, n <= InsertLen - hs.index,
         WriteInsert(c, hs, n),
         array' = array \/ \A d \in Conns : d # c => conn[d].part = LAST
  PROVE  OInv'
<1>1. CASE Failed(c, hs, "end")
  BY <1>1, NothingWritten DEF Failed
<1>2. CASE ~Failed(c, hs, "end")
  <2>1. PICK m \in Taken(hs, n) :
          Step(c, [hs EXCEPT !.index = @ + m, !.unacked = @ + m], "loop", m,
               InsertUnits(hs, m))
    BY <1>2 DEF WriteInsert
  <2> QED
    BY <2>1, RowWritten
<1> QED
  BY <1>1, <1>2

LEMMA SendingOrder ==
  ASSUME HInv, TInv, OInv, SendBefore \/ SendInsert \/ TagSent
  PROVE  OInv'
<1>1. Turn("SENDING")
  BY DEF SendBefore, SendInsert, TagSent
<1>2. PICK c, hs : c = run.c /\ hs = conn[c]
  OBVIOUS
<1>3. run # Idle /\ hs.state = "SENDING" /\ run.len \in Nat
  BY <1>1, <1>2, TurnIs
<1>4. /\ c \in Conns /\ hs.open /\ Sound(hs) /\ PageOf(hs, out[c]) /\ RowOf(hs, array)
  BY <1>2, <1>3, CallOpen
<1>5. array' = array
  BY DEF SendBefore, SendInsert, TagSent, Scan
<1>6. RowOf(hs, array')
  BY <1>4, <1>5
<1>7. PICK f \in Nat, p \in Nat, e \in Nat, x \in Nat :
        f = hs.file /\ p = hs.parsed /\ e = hs.end /\ x = hs.index /\ e = p /\ f <= p
  BY <1>3, <1>4, PagePlaces
<1>8. CASE SendBefore
  <2>1. e > f /\ WriteFile(c, hs, Least(run.len, e - f))
    BY <1>2, <1>7, <1>8 DEF SendBefore
  <2>2. PICK n \in Nat : n = Least(run.len, e - f) /\ n <= e - f
    <3>1. e - f \in Nat
      BY <2>1
    <3> QED
      BY <1>3, <3>1, LeastNat
  <2>3. n <= hs.parsed - hs.file /\ WriteFile(c, hs, n)
    BY <1>7, <2>1, <2>2
  <2> QED
    BY <1>3, <1>4, <1>5, <1>6, <2>3, FileWrite
<1>9. CASE SendInsert
  <2>1. e <= f /\ x < InsertLen /\ WriteInsert(c, hs, Least(run.len, InsertLen - x))
    BY <1>2, <1>7, <1>9 DEF SendInsert
  <2>2. PICK n \in Nat : n = Least(run.len, InsertLen - x) /\ n <= InsertLen - x
    <3>1. InsertLen - x \in Nat
      BY <2>1, Sizes
    <3> QED
      BY <1>3, <3>1, LeastNat
  <2>3. n <= InsertLen - hs.index /\ WriteInsert(c, hs, n)
    BY <1>7, <2>1, <2>2
  <2>4. AtEnd(hs)
    BY <1>3, <1>7, <2>1 DEF AtEnd
  <2> QED
    BY <1>4, <1>5, <1>6, <2>3, <2>4, RowWrite
<1>10. CASE TagSent
  <2>1. e <= f /\ hs.index >= InsertLen /\ hs.part = LAST
    BY <1>2, <1>7, <1>10 DEF TagSent
  <2>2. AtEnd(hs)
    BY <1>3, <1>7, <2>1 DEF AtEnd
  <2>3. PICK g : g = [hs EXCEPT !.state = "NONE", !.index = 0]
    OBVIOUS
  <2>4. DOMAIN hs = FieldNames
    BY <1>4 DEF Sound
  <2>5. /\ g.open = hs.open /\ g.file = hs.file /\ g.parsed = hs.parsed
        /\ g.state = "NONE" /\ g.part = LAST
    BY <2>1, <2>3, <2>4, Names
  <2>6. PageOf(g, out[c])
    BY <1>4, <2>1, <2>2, <2>5, LeavePage
  <2>7. RowOf(g, array')
    BY <2>5 DEF RowOf
  <2>8. Scan(g)
    BY <1>2, <1>10, <2>3 DEF TagSent
  <2>9. conn' = [conn EXCEPT ![c] = g] /\ out' = [out EXCEPT ![c] = @ \o << >>]
    BY <1>2, <2>8 DEF Scan, Step
  <2> QED
    BY <1>4, <1>5, <2>6, <2>7, <2>9, NothingWritten
<1> QED
  BY <1>8, <1>9, <1>10

LEMMA ParserOrder ==
  ASSUME HInv, TInv, OInv, TagNone \/ TagLeadin \/ TagFound \/ TagLeadout
  PROVE  OInv'
<1>1. PICK g, d, to, index, name : ParsesTo(g, d, to, index, name)
  BY NoneTurns, LeadinTurns, FoundTurns, LeadoutTurns
<1>2. PICK c, hs : c = run.c /\ hs = conn[c]
  OBVIOUS
<1>3. /\ Scan(g) /\ Turn(hs.state) /\ Parsed(g, hs, d, to, index, name)
      /\ Turns(hs, Char, d, to, index, name)
  BY <1>1, <1>2 DEF ParsesTo
<1>4. /\ run # Idle /\ hs.parsed \in 0 .. Len(File) - 1
      /\ Char = File[hs.parsed + 1]
  BY <1>2, <1>3, TurnIs
<1>5. /\ c \in Conns /\ hs.open /\ Sound(hs) /\ PageOf(hs, out[c])
      /\ hs.part = LAST \/ Holds(c)
  BY <1>2, <1>4, CallOpen
<1>6. hs.state # "SENDING"
  BY <1>3 DEF Turns, FromNone, FromLeadin, FromFound, FromLeadout
<1>7. hs.part = LAST
  BY <1>2, <1>5, <1>6 DEF Holds
<1>8. PageOf(g, out[c])
  BY <1>3, <1>4, <1>5, ParsePage
<1>9. RowOf(g, array')
  BY <1>3, <1>7 DEF RowOf, Parsed, Kept
<1>10. /\ conn' = [conn EXCEPT ![c] = g] /\ out' = [out EXCEPT ![c] = @ \o << >>]
       /\ array' = array
  BY <1>2, <1>3 DEF Scan, Step
<1> QED
  BY <1>5, <1>8, <1>9, <1>10, NothingWritten

LEMMA CompleteOrder == ASSUME HInv, TInv, OInv, TagComplete PROVE OInv'
<1>1. Turn("LEADOUT")
  BY DEF TagComplete
<1>2. PICK c, a : c = run.c /\ a = conn[c]
  OBVIOUS
<1>3. PICK r, g :
        /\ r \in TagInsert(c, a.name, 0)
        /\ g = Completed(a, r.insert, r.part)
        /\ WriteFile(c, g, Least(run.len, g.end - g.file))
        /\ array' = r.array
  BY <1>2 DEF TagComplete, Completed, OneParsed
<1>4. /\ Char = LeadOut[a.index + 1] /\ a.index = Len(LeadOut) - 1
  BY <1>2 DEF TagComplete
<1>5. /\ run # Idle /\ a.state = "LEADOUT" /\ run.len \in Nat
      /\ a.parsed \in 0 .. Len(File) - 1 /\ Char = File[a.parsed + 1]
  BY <1>1, <1>2, TurnIs
<1>6. /\ c \in Conns /\ a.open /\ Sound(a) /\ PageOf(a, out[c])
      /\ \A d \in Conns : d # c => conn[d].part = LAST
  BY <1>2, <1>5, CallOpen
<1>7. a.name \in Seq(Chars) /\ 0 \in Nat
  BY <1>6 DEF Sound
<1>8. /\ r.insert \in Inserts /\ r.insert.tag = a.name /\ r.insert.part = 0
      /\ r.part = LAST <=> r.insert.last
      /\ r.part # LAST => r.insert.block = r.array[a.name] /\ r.part = 0 + 1
  BY <1>3, <1>6, <1>7, InsertIs
<1>9. r.part \in Nat \cup {LAST}
  BY <1>8
<1>10. /\ Sound(g) /\ g.state = "SENDING" /\ g.end = g.parsed
       /\ g.parsed = a.parsed + 1 /\ g.file = a.file
       /\ g.index = 0 /\ g.insert = r.insert /\ g.part = r.part
       /\ g.name = a.name /\ g.open = a.open
  <2>1. PICK i, p : i = r.insert /\ p = r.part
    OBVIOUS
  <2>2. p \in Nat \cup {LAST} /\ g = Completed(a, i, p)
    BY <1>3, <1>9, <2>1
  <2>3. Sound(a) /\ a.state = "LEADOUT" /\ a.parsed \in 0 .. Len(File) - 1
    BY <1>5, <1>6
  <2>4. /\ Sound(g) /\ g.state = "SENDING" /\ g.end = g.parsed
        /\ g.parsed = a.parsed + 1 /\ g.file = a.file
        /\ g.index = 0 /\ g.insert = i /\ g.part = p
        /\ g.name = a.name /\ g.open = a.open
    BY <2>2, <2>3, CompleteIs
  <2> QED
    BY <2>1, <2>4
<1>11. PageOf(g, out[c])
  <2>1. File[a.parsed + 1] = LeadOut[a.index + 1]
    BY <1>4, <1>5
  <2>2. /\ g.insert \in Inserts /\ g.insert.part = 0
        /\ g.part = LAST <=> g.insert.last
        /\ g.part # LAST => g.insert.tag = g.name /\ g.part = g.insert.part + 1
    BY <1>8, <1>10
  <2> QED
    BY <1>4, <1>5, <1>6, <1>10, <2>1, <2>2, CompletePage
<1>12. RowOf(g, array')
  BY <1>3, <1>8, <1>10 DEF RowOf
<1>13. PICK n \in Nat : n = Least(run.len, g.end - g.file) /\ n <= g.parsed - g.file
  <2>1. g.end - g.file \in Nat
    <3>1. PICK x \in Nat, y \in Nat : x = g.file /\ y = g.parsed /\ x <= y
      BY <1>10, PagePlaces
    <3> QED
      BY <1>10, <3>1
  <2> QED
    BY <1>5, <1>10, <2>1, LeastNat
<1>14. WriteFile(c, g, n)
  BY <1>3, <1>13
<1> QED
  BY <1>6, <1>10, <1>11, <1>12, <1>13, <1>14, FileWrite

LEMMA NextOrder == ASSUME HInv, TInv, OInv, NextInsert PROVE OInv'
<1>1. Turn("SENDING")
  BY DEF NextInsert
<1>2. PICK c, a : c = run.c /\ a = conn[c]
  OBVIOUS
<1>3. PICK r, g :
        /\ r \in TagInsert(c, a.name, a.part)
        /\ g = Renewed(a, r.insert, r.part)
        /\ WriteInsert(c, g, Least(run.len, InsertLen))
        /\ array' = r.array
  BY <1>2 DEF NextInsert, Renewed
<1>4. a.end <= a.file /\ a.index >= InsertLen /\ a.part # LAST
  BY <1>2 DEF NextInsert
<1>5. run # Idle /\ a.state = "SENDING" /\ run.len \in Nat
  BY <1>1, <1>2, TurnIs
<1>6. /\ c \in Conns /\ a.open /\ Sound(a) /\ PageOf(a, out[c]) /\ RowOf(a, array)
      /\ Holds(c) /\ \A d \in Conns : d # c => conn[d].part = LAST
  BY <1>2, <1>4, <1>5, CallOpen
<1>7. a.name \in Seq(Chars) /\ a.part \in Nat /\ a.part # 0
  BY <1>2, <1>6 DEF Sound, Holds
<1>8. /\ r.insert \in Inserts /\ r.insert.tag = a.name /\ r.insert.part = a.part
      /\ r.part = LAST <=> r.insert.last
      /\ r.part # LAST => r.insert.block = r.array[a.name] /\ r.part = a.part + 1
      /\ r.array = array /\ r.insert.block = array[a.name]
  <2>1. PICK p \in Nat : p = a.part
    BY <1>7
  <2>2. r \in TagInsert(c, a.name, p)
    BY <1>3, <2>1
  <2> QED
    BY <1>2, <1>6, <1>7, <2>1, <2>2, InsertIs
<1>9. r.part \in Nat \cup {LAST}
  BY <1>7, <1>8
<1>10. /\ Sound(g) /\ g.state = "SENDING" /\ g.end = a.end
       /\ g.parsed = a.parsed /\ g.file = a.file
       /\ g.index = 0 /\ g.insert = r.insert /\ g.part = r.part
       /\ g.name = a.name /\ g.open = a.open
  <2>1. PICK i, p : i = r.insert /\ p = r.part
    OBVIOUS
  <2>2. p \in Nat \cup {LAST} /\ g = Renewed(a, i, p)
    BY <1>3, <1>9, <2>1
  <2>3. Sound(a) /\ a.state = "SENDING"
    BY <1>5, <1>6
  <2>4. /\ Sound(g) /\ g.state = "SENDING" /\ g.end = a.end
        /\ g.parsed = a.parsed /\ g.file = a.file
        /\ g.index = 0 /\ g.insert = i /\ g.part = p
        /\ g.name = a.name /\ g.open = a.open
    BY <2>2, <2>3, NextIs
  <2> QED
    BY <2>1, <2>4
<1>11. AtEnd(a) /\ AtEnd(g)
  <2>1. PICK x \in Nat, y \in Nat : x = a.file /\ y = a.parsed /\ x <= y /\ a.end = y
    BY <1>5, <1>6, PagePlaces
  <2>2. x = y
    BY <1>4, <2>1
  <2> QED
    BY <1>5, <1>10, <2>1, <2>2 DEF AtEnd
<1>12. PageOf(g, out[c])
  <2>1. a.insert.block = array[a.name]
    BY <1>4, <1>6 DEF RowOf
  <2>2. /\ g.insert \in Inserts /\ g.insert.tag = a.name
        /\ g.insert.block = a.insert.block /\ g.insert.part = a.part
        /\ g.part = LAST <=> g.insert.last
        /\ g.part # LAST => g.part = g.insert.part + 1
    BY <1>8, <1>10, <2>1
  <2>3. g.state = a.state
    BY <1>5, <1>10
  <2> QED
    BY <1>4, <1>6, <1>10, <1>11, <2>2, <2>3, RenewPage
<1>13. RowOf(g, array')
  BY <1>3, <1>8, <1>10 DEF RowOf
<1>14. PICK n \in Nat : n = Least(run.len, InsertLen) /\ n <= InsertLen
  BY <1>5, Sizes, LeastNat
<1>15. n <= InsertLen - g.index /\ WriteInsert(c, g, n)
  BY <1>3, <1>10, <1>14, Sizes
<1> QED
  BY <1>6, <1>10, <1>11, <1>12, <1>13, <1>15, RowWrite

(* What comes before the loop and after it. *)
LEMMA SendOrder ==
  ASSUME HInv, TInv, OInv, SendParsed \/ LoopEnd \/ SendRest
  PROVE  OInv'
<1>1. PICK c, hs : c = run.c /\ hs = conn[c]
  OBVIOUS
<1>2. run # Idle
  <2>1. run.at \in {"begin", "loop", "end"}
    BY DEF SendParsed, LoopEnd, SendRest
  <2> QED
    BY <2>1 DEF Idle
<1>3. /\ c \in Conns /\ hs.open /\ Sound(hs) /\ PageOf(hs, out[c]) /\ RowOf(hs, array)
  BY <1>1, <1>2, CallOpen
<1>4. array' = array
  BY DEF SendParsed, LoopEnd, SendRest
<1>5. RowOf(hs, array')
  BY <1>3, <1>4
<1>6. ASSUME NEW at, NEW len, Step(c, hs, at, len, << >>) PROVE OInv'
  BY <1>3, <1>4, <1>5, <1>6, NothingWritten DEF Step
<1>7. ASSUME NEW at, Failed(c, hs, at) PROVE OInv'
  BY <1>3, <1>4, <1>5, <1>7, NothingWritten DEF Failed
<1>8. PICK f \in Nat, p \in Nat, l \in Nat :
        /\ f = hs.file /\ p = hs.parsed /\ l = Len(File) /\ f <= l
        /\ hs.state # "PLAIN" => f <= p
  BY <1>3, Sizes, PagePlaces
<1>9. ASSUME NEW n \in Nat, NEW m \in Taken(hs, n), NEW at,
             hs.state = "PLAIN" => n <= l - f, hs.state # "PLAIN" => n <= p - f,
             Step(c, [hs EXCEPT !.file = @ + m, !.unacked = @ + m], at, m,
                  FileUnits(hs, m))
      PROVE  OInv'
  <2>1. /\ hs.state = "PLAIN" => n <= Len(File) - hs.file
        /\ hs.state # "PLAIN" => n <= hs.parsed - hs.file
    BY <1>8, <1>9
  <2> QED
    BY <1>3, <1>4, <1>5, <1>9, <2>1, PageWritten
<1>10. CASE SendParsed
  <2>1. PICK left : left = IF hs.state = "PLAIN" THEN Len(File) - hs.file
                           ELSE hs.parsed - hs.file
    OBVIOUS
  <2>2. /\ left \in Nat
        /\ hs.state = "PLAIN" => left <= l - f
        /\ hs.state # "PLAIN" => left <= p - f
    <3>1. (hs.state = "PLAIN" => left = l - f) /\ (hs.state # "PLAIN" => left = p - f)
      BY <1>8, <2>1
    <3> QED
      BY <1>8, <3>1
  <2>3. \/ Step(c, hs, "loop", Space(hs), << >>)
        \/ Step(c, hs, "return", 0, << >>)
        \/ \E m \in Taken(hs, left), at \in {"return", "loop"} :
             Step(c, [hs EXCEPT !.file = @ + m, !.unacked = @ + m], at, m,
                  FileUnits(hs, m))
        \/ Failed(c, hs, IF hs.state = "PLAIN" THEN "return" ELSE "end")
    BY <1>1, <1>10, <2>1 DEF SendParsed
  <2> QED
    BY <1>6, <1>7, <1>9, <2>2, <2>3
<1>11. CASE LoopEnd
  BY <1>1, <1>6, <1>11 DEF LoopEnd
<1>12. CASE SendRest
  <2>1. PICK n : n = Least(Space(hs), hs.parsed - hs.file)
    OBVIOUS
  <2>2. \/ Step(c, hs, "return", 0, << >>)
        \/ /\ \E m \in Taken(hs, n) :
                Step(c, [hs EXCEPT !.file = @ + m, !.unacked = @ + m], "return", m,
                     FileUnits(hs, m))
        \/ Failed(c, hs, "return")
    BY <1>1, <1>12, <2>1 DEF SendRest
  <2>3. run.at = "end"
    BY <1>12 DEF SendRest
  <2>4. hs.state # "PLAIN" /\ Space(hs) \in Nat
    BY <1>1, <2>3, CallIs DEF Going
  <2>5. n \in Nat /\ n <= p - f
    <3>1. PICK x \in Nat : x = p - f
      BY <1>8, <2>4
    <3>2. n = Least(Space(hs), x)
      BY <1>8, <2>1, <3>1
    <3> QED
      BY <2>4, <3>1, <3>2, LeastNat
  <2> QED
    BY <1>6, <1>7, <1>9, <2>2, <2>4, <2>5
<1> QED
  BY <1>10, <1>11, <1>12

LEMMA CloseOrder ==
  ASSUME TInv, OInv, NEW c \in Conns, CloseConn(c), array' = array
  PROVE  OInv'
<1>1. PICK g : g = Closed
  OBVIOUS
<1>2. g.file = 0 /\ g.parsed = 0 /\ g.state = "NONE" /\ g.part = LAST
  BY <1>1 DEF Closed
<1>3. PageOf(g, << >>) /\ RowOf(g, array')
  BY <1>2, NewPage DEF RowOf
<1>4. conn' = [conn EXCEPT ![c] = g] /\ out' = [out EXCEPT ![c] = << >>]
  BY <1>1 DEF CloseConn
<1> QED
  BY <1>3, <1>4, PageStep

LEMMA CallbackOrder == ASSUME TInv, OInv, NEW c \in Conns, Callback(c) PROVE OInv'
<1>1. PICK hs : hs = conn[c]
  OBVIOUS
<1>2. DOMAIN hs = FieldNames /\ PageOf(hs, out[c]) /\ RowOf(hs, array)
  BY <1>1 DEF TInv, Sound, OInv
<1>3. ASSUME NEW g, g.open = hs.open, g.file = hs.file, g.parsed = hs.parsed,
             g.state = hs.state, g.index = hs.index, g.name = hs.name,
             g.insert = hs.insert, g.part = hs.part,
             conn' = [conn EXCEPT ![c] = g], UNCHANGED <<out, array>>
      PROVE  OInv'
  <2>1. PageOf(g, out[c])
    BY <1>2, <1>3, SamePage
  <2>2. RowOf(g, array')
    BY <1>2, <1>3 DEF RowOf
  <2> QED
    BY <1>3, <2>1, <2>2, NothingWritten
<1>4. CASE Request(c)
  <2>1. PICK state \in {"NONE", "PLAIN"} :
          Call(c, [Closed EXCEPT !.open = TRUE, !.state = state])
    BY <1>4 DEF Request
  <2>2. PICK g : g = [Closed EXCEPT !.open = TRUE, !.state = state]
    OBVIOUS
  <2>3. g.file = 0 /\ g.parsed = 0 /\ g.state \in {"NONE", "PLAIN"} /\ g.part = LAST
    BY <2>2 DEF Closed
  <2>4. ~hs.open /\ UNCHANGED <<out, array>>
    BY <1>1, <1>4 DEF Request
  <2>5. out[c] = << >>
    BY <1>2, <2>4 DEF PageOf
  <2>6. PageOf(g, out[c])
    BY <2>3, <2>5, NewPage
  <2>7. RowOf(g, array')
    BY <2>3 DEF RowOf
  <2>8. conn' = [conn EXCEPT ![c] = g]
    BY <2>1, <2>2 DEF Call
  <2> QED
    BY <2>4, <2>6, <2>7, <2>8, NothingWritten
<1>5. CASE Sent(c)
  <2>1. PICK k : Call(c, [hs EXCEPT !.unacked = k, !.retries = 0])
    BY <1>1, <1>5 DEF Sent
  <2>2. PICK g : g = [hs EXCEPT !.unacked = k, !.retries = 0]
    OBVIOUS
  <2>3. /\ g.open = hs.open /\ g.file = hs.file /\ g.parsed = hs.parsed
        /\ g.state = hs.state /\ g.index = hs.index /\ g.name = hs.name
        /\ g.insert = hs.insert /\ g.part = hs.part
    BY <1>2, <2>2, Names
  <2>4. conn' = [conn EXCEPT ![c] = g] /\ UNCHANGED <<out, array>>
    BY <1>5, <2>1, <2>2 DEF Call, Sent
  <2> QED
    BY <1>3, <2>3, <2>4
<1>6. CASE Poll(c)
  <2>2. PICK g : g = [hs EXCEPT !.retries = @ + 1]
    OBVIOUS
  <2>3. /\ g.open = hs.open /\ g.file = hs.file /\ g.parsed = hs.parsed
        /\ g.state = hs.state /\ g.index = hs.index /\ g.name = hs.name
        /\ g.insert = hs.insert /\ g.part = hs.part
    BY <1>2, <2>2, Names
  <2>4. conn' = [conn EXCEPT ![c] = g] /\ UNCHANGED <<out, array>>
    BY <1>1, <1>6, <2>2 DEF Call, Poll
  <2> QED
    BY <1>3, <2>3, <2>4
<1>7. CASE GiveUp(c) \/ Cut(c)
  BY <1>7, CloseOrder DEF GiveUp, Cut
<1> QED
  BY <1>4, <1>5, <1>6, <1>7 DEF Callback

LEMMA OInvInit == Init => OInv
<1> SUFFICES ASSUME Init PROVE OInv
  OBVIOUS
<1>1. out \in [Conns -> Seq(Unit)]
  BY DEF Init
<1>2. ASSUME NEW c \in Conns PROVE PageOf(conn[c], out[c]) /\ RowOf(conn[c], array)
  <2>1. PICK g : g = conn[c]
    OBVIOUS
  <2>2. g.file = 0 /\ g.parsed = 0 /\ g.state = "NONE" /\ g.part = LAST /\ out[c] = << >>
    BY <2>1 DEF Init, Closed
  <2>3. PageOf(g, << >>) /\ RowOf(g, array)
    BY <2>2, NewPage DEF RowOf
  <2> QED
    BY <2>1, <2>2, <2>3
<1> QED
  BY <1>1, <1>2 DEF OInv

LEMMA OInvStep == HInv /\ TInv /\ OInv /\ [Next]_vars => OInv'
<1> SUFFICES ASSUME HInv, TInv, OInv, [Next]_vars PROVE OInv'
  OBVIOUS
<1>1. CASE UNCHANGED <<conn, array, out>>
  BY <1>1 DEF OInv
<1>2. CASE Start
  BY <1>1, <1>2 DEF Start
<1>3. CASE SendDone
  <2>1. run.at = "return" /\ array' = array
    BY <1>3 DEF SendDone
  <2>2. run.c \in Conns
    BY <2>1, CallIs
  <2>3. CASE CloseConn(run.c)
    BY <2>1, <2>2, <2>3, CloseOrder
  <2>4. CASE UNCHANGED <<conn, owner, out>>
    BY <1>1, <2>1, <2>4
  <2> QED
    BY <1>3, <2>3, <2>4 DEF SendDone
<1>4. CASE HttpSend /\ ~SendDone
  BY <1>4, ParserOrder, CompleteOrder, NextOrder, SendingOrder, SendOrder
     DEF HttpSend, Parse, Sending
<1>5. CASE \E c \in Conns : Callback(c)
  BY <1>5, CallbackOrder
<1>6. CASE UNCHANGED vars
  BY <1>1, <1>6 DEF vars
<1> QED
  BY <1>2, <1>3, <1>4, <1>5, <1>6 DEF Next

(* A page is written in order and without a gap or a repetition, however   *)
(* tcp_write splits it and whenever it fails, with all the rows of one     *)
(* array, the text or the mark of an unknown tag after each of its tags:   *)
(* for every page whose lead-ins are apart, and if one page is sent at a   *)
(* time (http_send_data_ssi, httpd.c:1142-1482).                           *)
THEOREM InOrder ==
  ASSUME "overlap" \notin Faults
  PROVE  Spec => []PageInOrder
<1>1. OInv => PageInOrder
  <2> SUFFICES ASSUME OInv, NEW c \in Conns, conn[c].state # "PLAIN",
                      NEW k \in 1 .. Len(out[c]) - 1
               PROVE  Follows(out[c][k], out[c][k + 1])
    BY DEF PageInOrder
  <2>1. Chained(out[c])
    BY DEF OInv, PageOf
  <2> QED
    BY <2>1 DEF Chained
<1>2. Init => HInv /\ TInv /\ OInv
  BY InitHolds, TInvInit, OInvInit
<1>3. HInv /\ TInv /\ OInv /\ [Next]_vars => (HInv /\ TInv /\ OInv)'
  BY InvStep, TInvStep, OInvStep
<1> QED
  BY <1>1, <1>2, <1>3, PTL DEF Spec

(* A page that is closed because all of it was sent was written to its     *)
(* end, with every row of its last tag, and leaves no array behind, if one *)
(* page is sent at a time (http_send_data_ssi, httpd.c:1142-1482).         *)
THEOREM CompleteWhenClosed ==
  ASSUME "overlap" \notin Faults
  PROVE  Spec => ClosedWhenComplete
<1>1. HInv /\ TInv /\ OInv /\ [Next]_vars =>
        [SendDone /\ conn'[run.c] # conn[run.c] =>
           /\ out[run.c][Len(out[run.c])] = [of |-> "page", at |-> Len(File)]
           /\ owner' = owner]_vars
  <2> SUFFICES ASSUME HInv, TInv, OInv, SendDone, conn'[run.c] # conn[run.c]
               PROVE  /\ out[run.c][Len(out[run.c])] = PageUnit(Len(File))
                      /\ owner' = owner
    BY DEF PageUnit
  <2>1. PICK c, hs, o : c = run.c /\ hs = conn[c] /\ o = out[c]
    OBVIOUS
  <2>2. hs.file = Len(File) /\ CloseConn(c) /\ run.at = "return"
    BY <2>1 DEF SendDone
  <2>3. run # Idle
    BY <2>2 DEF Idle
  <2>4. /\ c \in Conns /\ Sound(hs) /\ PageOf(hs, o) /\ (hs.part = LAST \/ Holds(c))
    BY <2>1, <2>3, CallOpen
  <2>5. ~TagEnd(hs.file)
    BY <2>2, TagsApart
  <2>6. hs.state # "SENDING"
    <3>1. ASSUME hs.state = "SENDING" PROVE FALSE
      <4>1. PICK x \in Nat, y \in Nat, l \in Nat :
              x = hs.file /\ y = hs.parsed /\ l = Len(File) /\ x <= y /\ y <= l
        BY <2>4, <3>1, Sizes, PagePlaces
      <4>2. AtEnd(hs)
        BY <2>2, <3>1, <4>1 DEF AtEnd
      <4>3. Reads(hs)
        BY <2>4, <3>1 DEF PageOf
      <4> QED
        BY <2>5, <4>2, <4>3, EndIsTag
    <3> QED
      BY <3>1
  <2>7. Latest(o) = PageUnit(Len(File))
    <3>1. CASE hs.state = "PLAIN"
      BY <2>2, <2>4, <3>1 DEF PageOf
    <3>2. CASE hs.state # "PLAIN"
      <4>1. Where(hs, Latest(o)) /\ ~AtEnd(hs)
        BY <2>4, <2>6, <3>2 DEF PageOf, AtEnd
      <4> QED
        BY <2>2, <2>5, <4>1 DEF Where, OnPage, AfterInsert, InInsert, BetweenRows
    <3> QED
      BY <3>1, <3>2
  <2>8. o[Len(o)] = PageUnit(Len(File))
    <3>1. PageUnit(0) # PageUnit(Len(File))
      BY Sizes DEF PageUnit
    <3> QED
      BY <2>7, <3>1 DEF Latest
  <2>9. owner' = owner
    <3>1. HoldsNone(c)
      <4>1. Tagged(c) /\ hs.part = LAST
        BY <2>1, <2>4, <2>6 DEF HInv, Holds
      <4> QED
        BY <2>1, <4>1 DEF Tagged
    <3>2. owner \in [Block -> Conns \cup {"free", "lost"}]
      BY DEF HInv, HeapTypes
    <3>3. owner' = [b \in Block |-> IF owner[b] = c THEN "lost" ELSE owner[b]]
      BY <2>2 DEF CloseConn
    <3> QED
      BY <3>1, <3>2, <3>3 DEF HoldsNone
  <2> QED
    BY <2>1, <2>8, <2>9
<1>2. Init => HInv /\ TInv /\ OInv
  BY InitHolds, TInvInit, OInvInit
<1>3. HInv /\ TInv /\ OInv /\ [Next]_vars => (HInv /\ TInv /\ OInv)'
  BY InvStep, TInvStep, OInvStep
<1> QED
  BY <1>1, <1>2, <1>3, PTL DEF Spec, ClosedWhenComplete
=============================================================================
