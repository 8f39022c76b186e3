------------------------ MODULE MacbReceive_proofs -------------------------
(***************************************************************************)
(* Proofs about MacbReceive, for a ring, buffers, pbufs and a pool of any  *)
(* size, frames of any length that fits, and with or without frames that   *)
(* break off.                                                              *)
(***************************************************************************)
EXTENDS MacbReceive, TLAPS

-----------------------------------------------------------------------------
(* What a frame needs. *)
LEMMA DivIs ==
  ASSUME NEW a \in Nat, NEW s \in Nat \ {0}
  PROVE  /\ a = s * (a \div s) + (a % s)
         /\ a % s \in 0 .. s - 1 /\ a \div s \in Int
<1>1. a = s * (a \div s) + (a % s)
  OBVIOUS
<1>2. a \div s \in Int
  OBVIOUS
<1>3. a % s \in 0 .. s - 1
  OBVIOUS
<1> QED
  BY <1>1, <1>2, <1>3

(* Enough buffers for it, and not one too many. *)
LEMMA NeededIs ==
  ASSUME NEW n \in Nat \ {0}, NEW s \in Nat \ {0}
  PROVE  /\ Needed(n, s) \in Nat \ {0}
         /\ Needed(n, s) * s >= n /\ (Needed(n, s) - 1) * s < n
<1>1. PICK a \in Nat : a = n + s - 1
  OBVIOUS
<1>2. PICK q : q = Needed(n, s)
  OBVIOUS
<1>3. PICK r : r = a % s
  OBVIOUS
<1>4. a = s * q + r /\ r \in 0 .. s - 1 /\ q \in Int
  BY <1>1, <1>2, <1>3, DivIs DEF Needed
<1>5. PICK p \in Int : p = s * q
  BY <1>4
<1>6. p >= n /\ p - s < n /\ p > 0
  BY <1>1, <1>4, <1>5
<1>7. q > 0
  <2> SUFFICES ASSUME q <= 0 PROVE FALSE
    BY <1>4
  <2>1. s * q <= 0
    BY <1>4
  <2> QED
    BY <2>1, <1>5, <1>6
<1>8. (q - 1) * s = p - s /\ q * s = p
  BY <1>4, <1>5
<1> QED
  BY <1>2, <1>4, <1>6, <1>7, <1>8

(* How far slot k is from slot i, around the ring. *)
Off(i, k) == (k - i) % NbRx

LEMMA OffValue ==
  ASSUME NEW i \in Slots, NEW k \in Slots
  PROVE  Off(i, k) = (IF i <= k THEN k - i ELSE k - i + NbRx) /\ Off(i, k) \in Slots
<1>1. NbRx \in Nat \ {0} /\ i \in 0 .. NbRx - 1 /\ k \in 0 .. NbRx - 1
  BY RingAssumption DEF Slots
<1>2. CASE i <= k
  <2>1. 0 <= k - i /\ k - i < NbRx /\ k - i \in Int
    BY <1>1, <1>2
  <2> QED
    BY <1>1, <1>2, <2>1 DEF Off, Slots
<1>3. CASE ~(i <= k)
  <2>1. 0 - NbRx <= k - i /\ k - i < 0 /\ k - i \in Int
    BY <1>1, <1>3
  <2>2. (k - i) % NbRx = k - i + NbRx
    BY <1>1, <2>1
  <2> QED
    BY <1>1, <1>3, <2>1, <2>2 DEF Off, Slots
<1> QED
  BY <1>2, <1>3

LEMMA AfterValue ==
  ASSUME NEW i \in Slots
  PROVE  After(i) = (IF i = NbRx - 1 THEN 0 ELSE i + 1) /\ After(i) \in Slots
<1>1. NbRx \in Nat \ {0} /\ i \in 0 .. NbRx - 1
  BY RingAssumption DEF Slots
<1>2. CASE i = NbRx - 1
  <2>1. (i + 1) % NbRx = 0
    BY <1>1, <1>2
  <2> QED
    BY <1>1, <1>2, <2>1 DEF After, Slots
<1>3. CASE i # NbRx - 1
  <2>1. 0 <= i + 1 /\ i + 1 < NbRx /\ i + 1 \in Int
    BY <1>1, <1>3
  <2>2. (i + 1) % NbRx = i + 1
    BY <1>1, <2>1
  <2> QED
    BY <1>1, <1>3, <2>1, <2>2 DEF After, Slots
<1> QED
  BY <1>2, <1>3

LEMMA SlotsNat ==
  /\ NbRx \in Nat /\ NbRx >= 2 /\ 0 \in Slots
  /\ \A i \in Slots : i \in Nat /\ i < NbRx
BY RingAssumption DEF Slots

(* The offset tells the slot; the next slot has the next offset. *)
LEMMA OffSlot ==
  ASSUME NEW i \in Slots, NEW k \in Slots, NEW l \in Slots
  PROVE  /\ Off(i, k) = Off(i, l) => k = l
         /\ Off(i, k) = 0 <=> k = i
         /\ Off(i, After(k)) = IF Off(i, k) = NbRx - 1 THEN 0 ELSE Off(i, k) + 1
<1>1. /\ Off(i, k) = (IF i <= k THEN k - i ELSE k - i + NbRx)
      /\ Off(i, l) = (IF i <= l THEN l - i ELSE l - i + NbRx)
  BY OffValue
<1>2. /\ After(k) = (IF k = NbRx - 1 THEN 0 ELSE k + 1) /\ After(k) \in Slots
  BY AfterValue
<1>3. Off(i, After(k)) = (IF i <= After(k) THEN After(k) - i ELSE After(k) - i + NbRx)
  BY <1>2, OffValue
<1> QED
  BY <1>1, <1>2, <1>3, SlotsNat

(* Offsets from the next slot. *)
LEMMA OffAfter ==
  ASSUME NEW i \in Slots, NEW k \in Slots
  PROVE  Off(After(i), k) = IF Off(i, k) > 0 THEN Off(i, k) - 1 ELSE NbRx - 1
<1>1. Off(i, k) = (IF i <= k THEN k - i ELSE k - i + NbRx)
  BY OffValue
<1>2. /\ After(i) = (IF i = NbRx - 1 THEN 0 ELSE i + 1) /\ After(i) \in Slots
  BY AfterValue
<1>3. Off(After(i), k) = (IF After(i) <= k THEN k - After(i) ELSE k - After(i) + NbRx)
  BY <1>2, OffValue
<1> QED
  BY <1>1, <1>2, <1>3, SlotsNat

LEMMA SlotAt ==
  ASSUME NEW i \in Slots, NEW r \in 0 .. NbRx - 1
  PROVE  \E k \in Slots : Off(i, k) = r
<1>1. NbRx \in Nat \ {0} /\ i \in 0 .. NbRx - 1
  BY RingAssumption DEF Slots
<1>2. CASE i + r < NbRx
  <2>1. i + r \in Slots
    BY <1>1, <1>2 DEF Slots
  <2>2. Off(i, i + r) = r
    BY <1>1, <2>1, OffValue
  <2> QED
    BY <2>1, <2>2
<1>3. CASE ~(i + r < NbRx)
  <2>1. i + r - NbRx \in Slots
    BY <1>1, <1>3 DEF Slots
  <2>2. Off(i, i + r - NbRx) = r
    BY <1>1, <2>1, OffValue
  <2> QED
    BY <2>1, <2>2
<1> QED
  BY <1>2, <1>3

LEMMA SeqIs ==
  ASSUME NEW S, NEW s \in Seq(S)
  PROVE  Len(s) \in Nat /\ s = [k \in 1 .. Len(s) |-> s[k]]
OBVIOUS

-----------------------------------------------------------------------------
(* The invariant. *)

Buffers ==
  [own: BOOLEAN, sof: BOOLEAN, len: Lengths \cup {0}, id: Ids \cup {0}, part: Nat]
Macs == [at: Slots, lap: {0, 1}, id: Ids \cup {0}, len: Lengths \cup {0}, got: Nat]
Labels == {"input", "skip", "walk", "peek", "drop", "alloc", "read", "deliver", "wait"}
Tasks ==
  [pc: Labels, i: Slots, to: Slots, len: Lengths \cup {0},
   data: Seq((Ids \cup {0}) \X Nat), section: Nat, pos: Nat]

Types ==
  /\ desc \in [Slots -> Buffers]
  /\ mac \in Macs
  /\ bna \in BOOLEAN /\ irq \in BOOLEAN /\ sem \in BOOLEAN
  /\ next \in Slots
  /\ task \in Tasks
  /\ held \in Nat
  /\ line \in Seq(Ids)

(* How far slot k is from where the software is. *)
R(k) == Off(Behind, k)

(* The c slots from there on are the software's. *)
Owned(c) ==
  /\ c \in 0 .. NbRx
  /\ IF c = NbRx THEN mac.at = Behind ELSE R(mac.at) = c
  /\ \A k \in Slots : desc[k].own <=> R(k) < c

(* A buffer that ends a frame has as many before it as the frame needs.    *)
Parts(c) ==
  \A k \in Slots : R(k) < c =>
    /\ desc[k].id \in Ids
    /\ desc[k].sof <=> desc[k].part = 0
    /\ \E n \in Lengths : /\ desc[k].part < Needed(n, BufferSize)
                          /\ desc[k].len # 0 =>
                               desc[k].len = n /\ desc[k].part + 1 = Needed(n, BufferSize)

(* Buffers between which no frame begins are of one frame. *)
NoStart(k, l) == \A x \in Slots : R(k) < R(x) /\ R(x) <= R(l) => ~desc[x].sof
Joined(c) ==
  \A k, l \in Slots : R(k) < R(l) /\ R(l) < c /\ NoStart(k, l) =>
    /\ desc[l].id = desc[k].id /\ desc[l].part = desc[k].part + (R(l) - R(k))
    /\ desc[k].len = 0

(* The frame that comes in ends at the last of the software's buffers.     *)
ComesIn(c) ==
  IF mac.id = 0 THEN mac.got = 0
  ELSE /\ c > 0 /\ mac.len \in Lengths
       /\ mac.got > 0 /\ mac.got < Needed(mac.len, BufferSize)
       /\ \A k \in Slots : R(k) + 1 = c =>
            desc[k].id = mac.id /\ desc[k].part + 1 = mac.got /\ desc[k].len = 0

(* The frames in the ring are those of line, but for one that was read.    *)
Taken == IF task.pc = "deliver" THEN 1 ELSE 0
Lines(F, c) ==
  /\ F \in [Slots -> Nat]
  /\ Taken <= Len(line)
  /\ \A k \in Slots : R(k) < c /\ desc[k].len # 0 =>
       F[k] > Taken /\ F[k] <= Len(line) /\ line[F[k]] = desc[k].id
  /\ \A k, l \in Slots :
       R(k) < R(l) /\ R(l) < c /\ desc[k].len # 0 /\ desc[l].len # 0 => F[k] < F[l]
  /\ \A n \in Taken + 1 .. Len(line) :
       \E k \in Slots : R(k) < c /\ desc[k].len # 0 /\ F[k] = n

(* Where the task has got to. *)
Starts(c) ==
  task.pc \notin {"read", "drop"} /\ c > 0 => \A k \in Slots : R(k) = 0 => desc[k].sof

Walking(c) ==
  /\ task.pc = "walk" =>
       /\ R(task.i) = 0 \/ R(task.i) < c
       /\ \A x \in Slots : 0 < R(x) /\ R(x) <= R(task.i) => ~desc[x].sof
  /\ task.pc = "peek" =>
       /\ R(task.i) <= c /\ R(task.i) > 0
       /\ \A x \in Slots : R(x) < R(task.i) => desc[x].len = 0
       /\ \A x \in Slots : 0 < R(x) /\ R(x) < R(task.i) => ~desc[x].sof

Dropping(c) ==
  task.pc = "drop" =>
    /\ R(task.to) > 0 /\ R(task.to) < c /\ desc[task.to].sof
    /\ \A x \in Slots : R(x) < R(task.to) => desc[x].len = 0

Reading(c) ==
  task.pc \in {"alloc", "read"} =>
    \E e \in Slots : /\ R(e) < c /\ desc[e].len = task.len /\ task.len # 0
                     /\ \A x \in Slots : 0 < R(x) /\ R(x) <= R(e) => ~desc[x].sof

Copying ==
  /\ task.pc = "read" =>
       /\ Len(task.data) < task.len
       /\ Len(task.data) = desc[next].part * BufferSize + task.pos
       /\ \A n \in 1 .. Len(task.data) : task.data[n] = <<desc[next].id, n>>
  /\ task.pc = "deliver" =>
       /\ Len(task.data) = task.len /\ task.len # 0
       /\ \A n \in 1 .. Len(task.data) : task.data[n] = <<line[1], n>>
  /\ task.pc \notin {"read", "deliver"} => Len(task.data) = 0
  /\ task.pos < BufferSize /\ task.section < PbufSize

Ring(F, c) == Owned(c) /\ Parts(c) /\ Joined(c) /\ ComesIn(c) /\ Lines(F, c)
Place(c) == Starts(c) /\ Walking(c) /\ Dropping(c) /\ Reading(c)

Pbufs == held + Chain <= Pool

IInv ==
  /\ Types /\ Pbufs /\ Copying /\ NoSleepOnFrame
  /\ \E F, c : Ring(F, c) /\ Place(c)

LEMMA BehindSlot ==
  ASSUME Types
  PROVE  /\ Behind \in Slots
         /\ \A k \in Slots : R(k) \in Nat /\ R(k) < NbRx
         /\ \A k \in Slots : R(k) = 0 <=> k = Behind
         /\ \A k, l \in Slots : R(k) = R(l) => k = l
<1>1. Behind \in Slots
  BY DEF Types, Tasks, Behind
<1> QED
  BY <1>1, OffValue, OffSlot, SlotsNat DEF R

LEMMA WholeFromInvariant ==
  ASSUME IInv PROVE FrameWhole
<1> SUFFICES ASSUME task.pc = "deliver"
             PROVE  /\ line # << >>
                    /\ task.data = [k \in 1 .. task.len |-> <<Head(line), k>>]
  BY DEF FrameWhole
<1>1. line \in Seq(Ids) /\ task.data \in Seq((Ids \cup {0}) \X Nat)
  BY DEF IInv, Types, Tasks
<1>2. 1 <= Len(line)
  BY DEF IInv, Ring, Lines, Taken
<1>3. line # << >> /\ line[1] = Head(line)
  BY <1>1, <1>2
<1>4. /\ Len(task.data) = task.len
      /\ \A n \in 1 .. Len(task.data) : task.data[n] = <<line[1], n>>
  BY DEF IInv, Copying
<1>5. task.data = [k \in 1 .. Len(task.data) |-> task.data[k]]
  BY <1>1, SeqIs
<1> QED
  BY <1>3, <1>4, <1>5

LEMMA AgreesFromInvariant ==
  ASSUME IInv PROVE RingAgrees
<1>1. PICK F, c : Ring(F, c) /\ Place(c)
  BY DEF IInv
<1>2. /\ Behind \in Slots /\ \A k \in Slots : R(k) \in Nat /\ R(k) < NbRx
      /\ \A k \in Slots : R(k) = 0 <=> k = Behind
      /\ next \in Slots
  BY BehindSlot DEF IInv, Types
<1>3. /\ c \in 0 .. NbRx /\ (IF c = NbRx THEN mac.at = Behind ELSE R(mac.at) = c)
      /\ \A k \in Slots : desc[k].own <=> R(k) < c
  BY <1>1 DEF Ring, Owned
<1>4. NbRx \in Nat /\ NbRx >= 2 /\ c \in Nat
  BY <1>3, SlotsNat
<1>5. PICK count : count = (mac.at - Behind) % NbRx
  OBVIOUS
<1>6. count = IF c = NbRx THEN 0 ELSE c
  <2>1. count = R(mac.at)
    BY <1>5 DEF R, Off
  <2> QED
    BY <1>2, <1>3, <2>1
<1>7. ASSUME NEW i \in Slots
      PROVE  desc[i].own <=> (i - Behind) % NbRx < count \/ (count = 0 /\ desc[Behind].own)
  <2>1. (i - Behind) % NbRx = R(i)
    BY DEF R, Off
  <2>2. desc[Behind].own <=> 0 < c
    BY <1>2, <1>3
  <2> QED
    BY <1>2, <1>3, <1>4, <1>6, <2>1, <2>2
<1>8. task.pc \notin {"read", "drop"} /\ desc[next].own => desc[next].sof
  <2> SUFFICES ASSUME task.pc \notin {"read", "drop"}, desc[next].own PROVE desc[next].sof
    OBVIOUS
  <2>1. Behind = next /\ R(next) = 0
    BY <1>2 DEF Behind
  <2>2. c > 0
    BY <1>2, <1>3, <2>1
  <2> QED
    BY <1>1, <1>2, <2>1, <2>2 DEF Place, Starts
<1> QED
  BY <1>5, <1>7, <1>8 DEF RingAgrees

LEMMA ChainNat ==
  ASSUME IInv PROVE Chain \in Nat /\ held \in Nat /\ Pool \in Nat
<1>1. PbufSize \in Nat \ {0} /\ Lengths \subseteq Nat \ {0} /\ Pool \in Nat
  BY RingAssumption
<1>2. CASE task.pc \in {"read", "deliver"}
  <2>1. task.data \in Seq((Ids \cup {0}) \X Nat) /\ task.len \in Lengths \cup {0}
    BY DEF IInv, Types, Tasks
  <2>2. task.len # 0
    <3>1. Len(task.data) \in Nat
      BY <2>1, SeqIs
    <3>2. task.pc = "read" => Len(task.data) < task.len
      BY DEF IInv, Copying
    <3>3. task.pc = "deliver" => task.len # 0
      BY DEF IInv, Copying
    <3> QED
      BY <1>2, <3>1, <3>2, <3>3
  <2>3. task.len \in Nat \ {0}
    BY <1>1, <2>1, <2>2
  <2> QED
    BY <1>1, <1>2, <2>3, NeededIs DEF Chain, IInv, Types
<1>3. CASE task.pc \notin {"read", "deliver"}
  BY <1>1, <1>3 DEF Chain, IInv, Types
<1> QED
  BY <1>2, <1>3

LEMMA TypeFromInvariant ==
  ASSUME IInv PROVE TypeOK
<1>1. PICK F, c : Ring(F, c) /\ Place(c)
  BY DEF IInv
<1>2. /\ desc \in [Slots -> Buffers] /\ mac \in Macs /\ task \in Tasks
      /\ bna \in BOOLEAN /\ irq \in BOOLEAN /\ sem \in BOOLEAN
      /\ next \in Slots /\ held \in Nat
  BY DEF IInv, Types
<1>3. /\ BufferSize \in Nat \ {0} /\ PbufSize \in Nat \ {0} /\ Pool \in Nat /\ NbRx \in Nat
      /\ Lengths \subseteq Nat \ {0}
      /\ \A n \in Lengths : 2 * Needed(n, BufferSize) <= NbRx
  BY RingAssumption
<1>4. mac.got \in 0 .. NbRx
  <2>1. CASE mac.id = 0
    BY <1>1, <1>3, <2>1 DEF Ring, ComesIn
  <2>2. CASE mac.id # 0
    <3>1. mac.len \in Lengths /\ mac.got > 0 /\ mac.got < Needed(mac.len, BufferSize)
      BY <1>1, <2>2 DEF Ring, ComesIn
    <3>2. Needed(mac.len, BufferSize) \in Nat /\ 2 * Needed(mac.len, BufferSize) <= NbRx
      BY <1>3, <3>1, NeededIs
    <3>3. mac.got \in Nat
      BY <1>2 DEF Macs
    <3> QED
      BY <1>3, <3>1, <3>2, <3>3
  <2> QED
    BY <2>1, <2>2
<1>5. Chain \in Nat
  BY ChainNat
<1>6. FreePbufs \in 0 .. Pool
  BY <1>2, <1>3, <1>5 DEF IInv, Pbufs, FreePbufs
<1>7. task.pos \in 0 .. BufferSize - 1 /\ task.section \in 0 .. PbufSize - 1
  <2>1. task.pos \in Nat /\ task.section \in Nat
    BY <1>2 DEF Tasks
  <2>2. task.pos < BufferSize /\ task.section < PbufSize
    BY DEF IInv, Copying
  <2> QED
    BY <1>3, <2>1, <2>2
<1>8. Len(task.data) <= task.len
  <2>1. task.len \in Nat /\ Len(task.data) \in Nat
    <3>1. task.data \in Seq((Ids \cup {0}) \X Nat) /\ task.len \in Lengths \cup {0}
      BY <1>2 DEF Tasks
    <3> QED
      BY <1>3, <3>1, SeqIs
  <2>2. Len(task.data) < task.len \/ Len(task.data) = task.len \/ Len(task.data) = 0
    BY DEF IInv, Copying
  <2> QED
    BY <2>1, <2>2
<1>9. desc \in [Slots -> [own : BOOLEAN, sof : BOOLEAN, len : Lengths \cup {0},
                         id : Ids \cup {0}, part : Nat]]
  BY <1>2 DEF Buffers
<1>10. /\ mac.at \in Slots /\ mac.lap \in 0 .. 1 /\ mac.id \in Ids \cup {0}
       /\ mac.len \in Lengths \cup {0}
  BY <1>2 DEF Macs
<1>11. /\ task.pc \in {"input", "skip", "walk", "peek", "drop", "alloc", "read",
                       "deliver", "wait"}
       /\ task.i \in Slots /\ task.to \in Slots /\ task.len \in Lengths \cup {0}
  BY <1>2 DEF Tasks, Labels
<1> QED
  BY <1>2, <1>4, <1>6, <1>7, <1>8, <1>9, <1>10, <1>11 DEF TypeOK

-----------------------------------------------------------------------------
(* Steps of the task that leave the ring alone. *)

LEMMA AtTyped ==
  ASSUME NEW pc \in Labels, NEW i \in Slots, NEW n \in Lengths \cup {0}
  PROVE  /\ At(pc) \in Tasks /\ [At(pc) EXCEPT !.i = i] \in Tasks
         /\ [At(pc) EXCEPT !.len = n] \in Tasks
<1>1. 0 \in Slots /\ << >> \in Seq((Ids \cup {0}) \X Nat)
  BY SlotsNat
<1> QED
  BY <1>1 DEF At, Tasks

LEMMA SameRing ==
  ASSUME NEW F, NEW c, Ring(F, c), UNCHANGED <<desc, mac, line>>,
         Behind' = Behind, Taken' = Taken
  PROVE  /\ Ring(F, c)' /\ \A k : R(k)' = R(k)
<1>1. \A k : R(k)' = R(k)
  BY DEF R
<1>2. Owned(c)' /\ Parts(c)' /\ ComesIn(c)'
  BY <1>1 DEF Ring, Owned, Parts, ComesIn
<1>3. Joined(c)'
  BY <1>1 DEF Ring, Joined, NoStart
<1>4. Lines(F, c)'
  BY <1>1 DEF Ring, Lines
<1> QED
  BY <1>1, <1>2, <1>3, <1>4 DEF Ring

(* Where the task looks for no frame yet, or no longer, little is needed.  *)
LEMMA Idle ==
  ASSUME NEW F, NEW c, Ring(F, c), Starts(c), task.pc \notin {"read", "drop"},
         UNCHANGED <<desc, mac, line, next>>,
         task.pc # "deliver",
         \E pc \in {"input", "skip", "wait"} : \E n : task' = [At(pc) EXCEPT !.len = n]
  PROVE  Ring(F, c)' /\ Place(c)' /\ Copying' /\ Chain' = 0
<1>0. PICK pc \in {"input", "skip", "wait"} : \E n : task' = [At(pc) EXCEPT !.len = n]
  OBVIOUS
<1>1. PICK n : task' = [At(pc) EXCEPT !.len = n]
  BY <1>0
<1>2. /\ task'.pc = pc /\ task'.data = << >> /\ task'.section = 0 /\ task'.pos = 0
  BY <1>1 DEF At
<1>3. Behind' = Behind /\ Taken' = Taken
  BY <1>1, <1>2 DEF Behind, Taken
<1>4. Ring(F, c)' /\ \A k : R(k)' = R(k)
  BY <1>3, SameRing
<1>5. Starts(c)'
  BY <1>4 DEF Starts
<1>6. Walking(c)' /\ Dropping(c)' /\ Reading(c)' /\ Chain' = 0
  BY <1>1, <1>2 DEF Walking, Dropping, Reading, Chain
<1>7. Copying'
  <2>1. BufferSize > 0 /\ PbufSize > 0
    BY RingAssumption
  <2> QED
    BY <1>1, <1>2, <2>1 DEF Copying
<1> QED
  BY <1>4, <1>5, <1>6, <1>7 DEF Place

LEMMA AtHasLen ==
  ASSUME NEW pc PROVE At(pc) = [At(pc) EXCEPT !.len = 0]
BY DEF At

LEMMA InitHolds == Init => IInv
<1> SUFFICES ASSUME Init PROVE IInv
  OBVIOUS
<1>1. /\ NbRx \in Nat /\ NbRx >= 2 /\ 0 \in Slots
      /\ BufferSize > 0 /\ PbufSize > 0 /\ Pool \in Nat
  BY RingAssumption, SlotsNat
<1>2. Types
  <2>1. Unused \in Buffers /\ mac \in Macs /\ << >> \in Seq(Ids)
    BY <1>1 DEF Unused, Buffers, Macs, Init
  <2>2. task \in Tasks
    BY <1>1, AtTyped DEF Init, Labels
  <2> QED
    BY <1>1, <2>1, <2>2 DEF Init, Types
<1>3. /\ task.pc = "input" /\ task.data = << >> /\ task.pos = 0 /\ task.section = 0
      /\ held = 0 /\ line = << >>
  BY DEF Init, At
<1>4. Pbufs /\ Copying /\ NoSleepOnFrame
  BY <1>1, <1>3 DEF Pbufs, Chain, Copying, NoSleepOnFrame
<1>5. /\ Behind = 0 /\ mac.at = 0
      /\ \A k \in Slots : R(k) \in Nat /\ R(k) < NbRx
      /\ R(0) = 0
  BY <1>1, <1>2, <1>3, BehindSlot DEF Init, Behind
<1>6. \A k \in Slots : ~desc[k].own /\ ~(R(k) < 0)
  BY <1>5 DEF Init, Unused
<1>7. Owned(0)
  BY <1>1, <1>5, <1>6 DEF Owned
<1>8. Parts(0) /\ ComesIn(0) /\ Place(0)
  BY <1>3, <1>6 DEF Init, Parts, ComesIn, Place, Starts, Walking, Dropping, Reading
<1>9. Joined(0)
  BY <1>6 DEF Joined
<1>10. PICK F : F = [k \in Slots |-> 0]
  OBVIOUS
<1>11. Lines(F, 0)
  <2>1. Len(line) = 0 /\ Taken = 0
    BY <1>3 DEF Taken
  <2>2. F \in [Slots -> Nat]
    BY <1>10
  <2> QED
    BY <1>6, <2>1, <2>2 DEF Lines
<1> QED
  BY <1>2, <1>4, <1>7, <1>8, <1>9, <1>11 DEF IInv, Ring

LEMMA OthersHold ==
  ASSUME IInv, Interrupt \/ StackFrees \/ UNCHANGED vars PROVE IInv'
<1>1. PICK F, c : Ring(F, c) /\ Place(c)
  BY DEF IInv
<1>2. UNCHANGED <<desc, mac, bna, next, task, line>>
  BY DEF Interrupt, StackFrees, vars, ring
<1>3. Behind' = Behind /\ Taken' = Taken /\ Chain' = Chain
  BY <1>2 DEF Behind, Taken, Chain
<1>4. Ring(F, c)' /\ \A k : R(k)' = R(k)
  BY <1>1, <1>2, <1>3, SameRing
<1>5. Place(c)'
  BY <1>1, <1>2, <1>4 DEF Place, Starts, Walking, Dropping, Reading
<1>6. Copying'
  BY <1>2 DEF IInv, Copying
<1>7. Types' /\ Pbufs'
  <2>1. /\ held' \in Nat /\ held' <= held
        /\ irq' \in BOOLEAN /\ sem' \in BOOLEAN
    <3>1. held \in Nat /\ irq \in BOOLEAN /\ sem \in BOOLEAN
      BY DEF IInv, Types
    <3>2. CASE StackFrees
      <4>1. held > 0 /\ held' = held - 1
        BY <3>2 DEF StackFrees
      <4>2. irq' = irq /\ sem' = sem
        BY <3>2 DEF StackFrees
      <4>3. held' \in Nat /\ held' <= held
        BY <3>1, <4>1
      <4> QED
        BY <3>1, <4>2, <4>3
    <3>3. CASE Interrupt \/ UNCHANGED vars
      <4>1. held' = held
        BY <3>3 DEF Interrupt, vars
      <4>2. irq' \in BOOLEAN /\ sem' \in BOOLEAN
        BY <3>1, <3>3 DEF Interrupt, vars
      <4>3. held' \in Nat /\ held' <= held
        BY <3>1, <4>1
      <4> QED
        BY <4>2, <4>3
    <3> QED
      BY <3>2, <3>3
  <2>2. held' + Chain <= Pool
    BY <2>1, ChainNat DEF IInv, Pbufs
  <2> QED
    BY <1>2, <1>3, <2>1, <2>2 DEF IInv, Types, Pbufs
<1>8. NoSleepOnFrame'
  BY <1>2 DEF IInv, NoSleepOnFrame, Interrupt, StackFrees, vars
<1> QED
  BY <1>4, <1>5, <1>6, <1>7, <1>8 DEF IInv

(* The task goes on to look, or to where it looks from. *)
LEMMA InputHolds ==
  ASSUME IInv, InputLength \/ Woken \/ TimedOut PROVE IInv'
<1>1. PICK F, c : Ring(F, c) /\ Place(c)
  BY DEF IInv
<1>2. PICK pc \in {"input", "skip"} :
        /\ task' = At(pc) /\ UNCHANGED <<desc, mac, bna, irq, next, held, line>>
        /\ sem' \in BOOLEAN
  BY DEF InputLength, Woken, TimedOut, ring, IInv, Types
<1>3. task.pc \in {"input", "wait"}
  BY DEF InputLength, Woken, TimedOut
<1>4. task' = [At(pc) EXCEPT !.len = 0]
  BY <1>2, AtHasLen
<1>5. Ring(F, c)' /\ Place(c)' /\ Copying' /\ Chain' = 0
  <2>1. \E p \in {"input", "skip", "wait"} : \E n : task' = [At(p) EXCEPT !.len = n]
    BY <1>4
  <2> QED
    BY <1>1, <1>2, <1>3, <2>1, Idle DEF Place
<1>6. Types' /\ Pbufs'
  <2>1. task' \in Tasks
    <3>1. pc \in Labels /\ 0 \in Slots
      BY SlotsNat DEF Labels
    <3> QED
      BY <1>2, <3>1, AtTyped
  <2>2. held + 0 <= Pool
    BY ChainNat DEF IInv, Pbufs
  <2> QED
    BY <1>2, <1>5, <2>1, <2>2 DEF IInv, Types, Pbufs
<1>7. NoSleepOnFrame'
  BY <1>2 DEF NoSleepOnFrame, At
<1> QED
  BY <1>5, <1>6, <1>7 DEF IInv

LEMMA SkipHolds ==
  ASSUME IInv, SkipFragments PROVE IInv'
<1>1. PICK F, c : Ring(F, c) /\ Place(c)
  BY DEF IInv
<1>2. /\ task.pc = "skip" /\ task' = [At("walk") EXCEPT !.i = next]
      /\ UNCHANGED <<desc, mac, bna, irq, sem, next, held, line>>
  BY DEF SkipFragments, ring
<1>3. /\ task'.pc = "walk" /\ task'.i = next /\ task'.data = << >>
      /\ task'.pos = 0 /\ task'.section = 0
  BY <1>2 DEF At
<1>4. Behind = next /\ Behind' = Behind /\ Taken' = Taken /\ Chain' = 0
  BY <1>2, <1>3 DEF Behind, Taken, Chain
<1>5. Ring(F, c)' /\ \A k : R(k)' = R(k)
  BY <1>1, <1>2, <1>4, SameRing
<1>6. R(next) = 0 /\ \A k \in Slots : R(k) \in Nat
  BY <1>4, BehindSlot DEF IInv
<1>7. Starts(c)'
  BY <1>1, <1>2, <1>5 DEF Place, Starts
<1>8. Walking(c)' /\ Dropping(c)' /\ Reading(c)'
  BY <1>3, <1>5, <1>6 DEF Walking, Dropping, Reading
<1>9. Copying'
  <2>1. BufferSize > 0 /\ PbufSize > 0
    BY RingAssumption
  <2> QED
    BY <1>3, <2>1 DEF Copying
<1>10. Types' /\ Pbufs'
  <2>1. task' \in Tasks
    <3>1. "walk" \in Labels /\ next \in Slots
      BY DEF Labels, IInv, Types
    <3> QED
      BY <1>2, <3>1, AtTyped
  <2>2. held + 0 <= Pool
    BY ChainNat DEF IInv, Pbufs
  <2> QED
    BY <1>2, <1>4, <2>1, <2>2 DEF IInv, Types, Pbufs
<1>11. NoSleepOnFrame'
  BY <1>3 DEF NoSleepOnFrame
<1> QED
  BY <1>5, <1>7, <1>8, <1>9, <1>10, <1>11 DEF IInv, Place

LEMMA EmptyLine ==
  ASSUME Types, NEW F, NEW c, Ring(F, c), task.pc # "deliver",
         \A k \in Slots : R(k) < c => desc[k].len = 0
  PROVE  line = << >>
<1>1. line \in Seq(Ids) /\ Len(line) \in Nat /\ Taken = 0
  BY DEF Types, Taken
<1>2. ~(Len(line) >= 1)
  <2> SUFFICES ASSUME Len(line) >= 1 PROVE FALSE
    OBVIOUS
  <2>1. Len(line) \in Taken + 1 .. Len(line)
    BY <1>1
  <2> QED
    BY <2>1 DEF Ring, Lines
<1> QED
  BY <1>1, <1>2

(* The task finds that no frame has come in: it goes to wait. *)
LEMMA WaitHolds ==
  ASSUME IInv, NEW F, NEW c, Ring(F, c), Place(c),
         task.pc \notin {"read", "drop", "deliver"},
         \E n \in Lengths \cup {0} :
           task' = [At("wait") EXCEPT !.len = n] /\ (n = 0 => line = << >>),
         UNCHANGED <<desc, mac, bna, irq, sem, next, held, line>>
  PROVE  IInv'
<1>1. PICK n \in Lengths \cup {0} :
        task' = [At("wait") EXCEPT !.len = n] /\ (n = 0 => line = << >>)
  OBVIOUS
<1>2. Ring(F, c)' /\ Place(c)' /\ Copying' /\ Chain' = 0
  <2>1. \E p \in {"input", "skip", "wait"} : \E l : task' = [At(p) EXCEPT !.len = l]
    BY <1>1
  <2> QED
    BY <2>1, Idle DEF Place
<1>3. Types' /\ Pbufs'
  <2>1. task' \in Tasks
    <3>1. "wait" \in Labels /\ 0 \in Slots
      BY SlotsNat DEF Labels
    <3> QED
      BY <1>1, <3>1, AtTyped
  <2>2. held + 0 <= Pool
    BY ChainNat DEF IInv, Pbufs
  <2> QED
    BY <1>2, <2>1, <2>2 DEF IInv, Types, Pbufs
<1>4. NoSleepOnFrame'
  <2>1. task'.len = n
    BY <1>1 DEF At
  <2> QED
    BY <1>1, <2>1 DEF NoSleepOnFrame
<1> QED
  BY <1>2, <1>3, <1>4 DEF IInv

LEMMA WalkHolds ==
  ASSUME IInv, Walk PROVE IInv'
<1>1. PICK F, c : Ring(F, c) /\ Place(c)
  BY DEF IInv
<1>2. PICK i : i = task.i
  OBVIOUS
<1>3. /\ task.pc = "walk"
      /\ task' = IF ~desc[i].own THEN At("wait")
                 ELSE IF desc[i].len # 0 THEN [At("alloc") EXCEPT !.len = desc[i].len]
                 ELSE [task EXCEPT !.pc = "peek", !.i = After(@)]
      /\ UNCHANGED <<desc, mac, bna, irq, sem, next, held, line>>
  BY <1>2 DEF Walk, ring
<1>4. /\ i \in Slots /\ Behind \in Slots /\ Behind = next /\ next \in Slots
      /\ \A k \in Slots : R(k) \in Nat /\ R(k) < NbRx
      /\ \A k \in Slots : R(k) = 0 <=> k = Behind
      /\ \A k, l \in Slots : R(k) = R(l) => k = l
      /\ task \in Tasks /\ desc[i] \in Buffers
  BY <1>2, <1>3, BehindSlot DEF IInv, Types, Tasks, Behind
<1>5. /\ R(i) = 0 \/ R(i) < c
      /\ \A x \in Slots : 0 < R(x) /\ R(x) <= R(i) => ~desc[x].sof
  BY <1>1, <1>2, <1>3 DEF Place, Walking
<1>6. c \in Nat /\ \A k \in Slots : desc[k].own <=> R(k) < c
  <2>1. c \in 0 .. NbRx
    BY <1>1 DEF Ring, Owned
  <2> QED
    BY <1>1, <2>1, SlotsNat DEF Ring, Owned
<1>7. CASE ~desc[i].own
  <2>1. c = 0
    BY <1>4, <1>5, <1>6, <1>7
  <2>2. line = << >>
    <3>1. \A k \in Slots : ~(R(k) < c)
      BY <1>4, <2>1
    <3> QED
      BY <1>1, <1>3, <3>1, EmptyLine DEF IInv
  <2>3. task' = [At("wait") EXCEPT !.len = 0]
    BY <1>3, <1>7, AtHasLen
  <2>4. \E n \in Lengths \cup {0} :
          task' = [At("wait") EXCEPT !.len = n] /\ (n = 0 => line = << >>)
    BY <2>2, <2>3
  <2> QED
    BY <1>1, <1>3, <2>4, WaitHolds
<1>8. CASE desc[i].own /\ desc[i].len # 0
  <2>1. /\ task' = [At("alloc") EXCEPT !.len = desc[i].len]
        /\ desc[i].len \in Lengths \cup {0}
    BY <1>3, <1>4, <1>8 DEF Buffers
  <2>2. /\ task'.pc = "alloc" /\ task'.len = desc[i].len /\ task'.data = << >>
        /\ task'.pos = 0 /\ task'.section = 0
    BY <2>1 DEF At
  <2>3. Behind' = Behind /\ Taken' = Taken /\ Chain' = 0
    BY <1>3, <2>2 DEF Behind, Taken, Chain
  <2>4. Ring(F, c)' /\ \A k : R(k)' = R(k)
    BY <1>1, <1>3, <2>3, SameRing
  <2>5. Starts(c)'
    BY <1>1, <1>3, <2>4 DEF Place, Starts
  <2>6. Walking(c)' /\ Dropping(c)'
    BY <2>2 DEF Walking, Dropping
  <2>7. Reading(c)'
    <3>1. R(i) < c
      BY <1>4, <1>6, <1>8
    <3> QED
      BY <1>3, <1>4, <1>5, <1>8, <2>2, <2>4, <3>1 DEF Reading
  <2>8. Copying'
    <3>1. BufferSize > 0 /\ PbufSize > 0
      BY RingAssumption
    <3> QED
      BY <2>2, <3>1 DEF Copying
  <2>9. Types' /\ Pbufs'
    <3>1. task' \in Tasks
      <4>1. "alloc" \in Labels /\ 0 \in Slots
        BY SlotsNat DEF Labels
      <4> QED
        BY <2>1, <4>1, AtTyped
    <3>2. held + 0 <= Pool
      BY ChainNat DEF IInv, Pbufs
    <3> QED
      BY <1>3, <2>3, <3>1, <3>2 DEF IInv, Types, Pbufs
  <2>10. NoSleepOnFrame'
    BY <2>2 DEF NoSleepOnFrame
  <2> QED
    BY <2>4, <2>5, <2>6, <2>7, <2>8, <2>9, <2>10 DEF IInv, Place
<1>9. CASE desc[i].own /\ desc[i].len = 0
  <2>1. task' = [task EXCEPT !.pc = "peek", !.i = After(i)]
    BY <1>2, <1>3, <1>4, <1>9
  <2>2. /\ task'.pc = "peek" /\ task'.i = After(i) /\ task'.len = task.len
        /\ task'.data = task.data /\ task'.pos = task.pos /\ task'.section = task.section
    BY <1>4, <2>1 DEF Tasks
  <2>3. Behind' = Behind /\ Taken' = Taken /\ Chain' = 0 /\ Chain = 0
    BY <1>3, <2>2 DEF Behind, Taken, Chain
  <2>4. Ring(F, c)' /\ \A k : R(k)' = R(k)
    BY <1>1, <1>3, <2>3, SameRing
  <2>5. R(i) < c
    BY <1>4, <1>6, <1>9
  <2>6. R(i) + 1 < NbRx
    <3>1. CASE R(i) = 0
      BY <3>1, SlotsNat
    <3>2. CASE R(i) # 0
      <4>1. R(Behind) = 0 /\ R(Behind) < R(i)
        BY <1>4, <3>2
      <4>2. NoStart(Behind, i)
        BY <1>5, <4>1 DEF NoStart
      <4>3. desc[i].part = desc[Behind].part + (R(i) - R(Behind))
        BY <1>1, <1>4, <2>5, <4>1, <4>2 DEF Ring, Joined
      <4>4. desc[Behind].part \in Nat /\ desc[i].part \in Nat
        BY <1>4 DEF IInv, Types, Buffers
      <4>5. PICK n \in Lengths : desc[i].part < Needed(n, BufferSize)
        BY <1>1, <1>4, <2>5 DEF Ring, Parts
      <4>6. Needed(n, BufferSize) \in Nat /\ 2 * Needed(n, BufferSize) <= NbRx
        BY RingAssumption, NeededIs
      <4>7. desc[i].part >= R(i)
        BY <1>4, <4>1, <4>3, <4>4
      <4> QED
        BY <1>4, <4>4, <4>5, <4>6, <4>7, SlotsNat
    <3> QED
      BY <3>1, <3>2
  <2>7. After(i) \in Slots /\ R(After(i)) = R(i) + 1
    <3>1. After(i) \in Slots
      BY <1>4, AfterValue
    <3>2. R(After(i)) = IF R(i) = NbRx - 1 THEN 0 ELSE R(i) + 1
      BY <1>4, OffSlot DEF R
    <3> QED
      BY <1>4, <2>6, <3>1, <3>2, SlotsNat
  <2>8. Starts(c)' /\ Dropping(c)' /\ Reading(c)'
    BY <1>1, <1>3, <2>2, <2>4 DEF Place, Starts, Dropping, Reading
  <2>9. ASSUME NEW x \in Slots, R(x) < R(i) + 1
        PROVE  desc[x].len = 0 /\ (0 < R(x) => ~desc[x].sof)
    <3>1. CASE R(x) = R(i)
      BY <1>4, <1>5, <1>9, <3>1
    <3>2. CASE R(x) < R(i)
      <4>1. NoStart(x, i)
        BY <1>4, <1>5 DEF NoStart
      <4>2. desc[x].len = 0
        BY <1>1, <1>4, <2>5, <3>2, <4>1 DEF Ring, Joined
      <4>3. R(x) <= R(i)
        BY <1>4, <3>2
      <4> QED
        BY <1>5, <4>2, <4>3
    <3> QED
      BY <1>4, <2>9, <3>1, <3>2
  <2>10. Walking(c)'
    <3>1. R(After(i)) <= c /\ R(After(i)) > 0
      BY <1>4, <1>6, <2>5, <2>7
    <3> QED
      BY <1>3, <2>2, <2>4, <2>7, <2>9, <3>1 DEF Walking
  <2>11. Copying'
    BY <1>3, <2>2 DEF IInv, Copying
  <2>12. Types' /\ Pbufs'
    <3>1. task' \in Tasks
      BY <1>4, <2>1, <2>7 DEF Tasks, Labels
    <3> QED
      BY <1>3, <2>3, <3>1 DEF IInv, Types, Pbufs
  <2>13. NoSleepOnFrame'
    BY <2>2 DEF NoSleepOnFrame
  <2> QED
    BY <2>4, <2>8, <2>10, <2>11, <2>12, <2>13 DEF IInv, Place
<1> QED
  BY <1>7, <1>8, <1>9

LEMMA PeekHolds ==
  ASSUME IInv, Peek PROVE IInv'
<1>1. PICK F, c : Ring(F, c) /\ Place(c)
  BY DEF IInv
<1>2. PICK i : i = task.i
  OBVIOUS
<1>3. /\ task.pc = "peek"
      /\ task' = IF ~desc[i].own THEN At("wait")
                 ELSE IF desc[i].sof
                 THEN [task EXCEPT !.pc = "drop", !.i = next, !.to = i]
                 ELSE [task EXCEPT !.pc = "walk"]
      /\ UNCHANGED <<desc, mac, bna, irq, sem, next, held, line>>
  BY <1>2 DEF Peek, ring
<1>4. /\ i \in Slots /\ Behind \in Slots /\ Behind = next /\ next \in Slots
      /\ \A k \in Slots : R(k) \in Nat /\ R(k) < NbRx
      /\ \A k \in Slots : R(k) = 0 <=> k = Behind
      /\ \A k, l \in Slots : R(k) = R(l) => k = l
      /\ task \in Tasks
  BY <1>2, <1>3, BehindSlot DEF IInv, Types, Tasks, Behind
<1>5. /\ R(i) <= c /\ R(i) > 0
      /\ \A x \in Slots : R(x) < R(i) => desc[x].len = 0
      /\ \A x \in Slots : 0 < R(x) /\ R(x) < R(i) => ~desc[x].sof
  BY <1>1, <1>2, <1>3 DEF Place, Walking
<1>6. c \in Nat /\ \A k \in Slots : desc[k].own <=> R(k) < c
  <2>1. c \in 0 .. NbRx
    BY <1>1 DEF Ring, Owned
  <2> QED
    BY <1>1, <2>1, SlotsNat DEF Ring, Owned
<1>7. CASE ~desc[i].own
  <2>1. c = R(i)
    BY <1>4, <1>5, <1>6, <1>7
  <2>2. line = << >>
    BY <1>1, <1>3, <1>5, <2>1, EmptyLine DEF IInv
  <2>3. task' = [At("wait") EXCEPT !.len = 0]
    BY <1>3, <1>7, AtHasLen
  <2>4. \E n \in Lengths \cup {0} :
          task' = [At("wait") EXCEPT !.len = n] /\ (n = 0 => line = << >>)
    BY <2>2, <2>3
  <2> QED
    BY <1>1, <1>3, <2>4, WaitHolds
<1>8. CASE desc[i].own
  <2>1. task' = IF desc[i].sof THEN [task EXCEPT !.pc = "drop", !.i = next, !.to = i]
               ELSE [task EXCEPT !.pc = "walk"]
    BY <1>3, <1>8
  <2>2. /\ desc[i].sof => task'.pc = "drop" /\ task'.i = next /\ task'.to = i
        /\ ~desc[i].sof => task'.pc = "walk" /\ task'.i = i
        /\ task'.len = task.len
        /\ task'.data = task.data /\ task'.pos = task.pos /\ task'.section = task.section
    BY <1>2, <1>4, <2>1 DEF Tasks
  <2>3. Behind' = Behind /\ Taken' = Taken /\ Chain' = 0 /\ Chain = 0
    BY <1>3, <1>4, <2>2 DEF Behind, Taken, Chain
  <2>4. Ring(F, c)' /\ \A k : R(k)' = R(k)
    BY <1>1, <1>3, <2>3, SameRing
  <2>5. R(i) < c
    BY <1>4, <1>6, <1>8
  <2>6. Starts(c)' /\ Reading(c)'
    BY <1>1, <1>3, <2>2, <2>4 DEF Place, Starts, Reading
  <2>7. Walking(c)'
    <3>1. \A x \in Slots : 0 < R(x) /\ R(x) <= R(i) /\ ~desc[i].sof => ~desc[x].sof
      <4> SUFFICES ASSUME NEW x \in Slots, 0 < R(x), R(x) <= R(i), ~desc[i].sof
                   PROVE  ~desc[x].sof
        OBVIOUS
      <4>1. R(x) < R(i) \/ x = i
        BY <1>4
      <4> QED
        BY <1>5, <4>1
    <3> QED
      BY <1>3, <2>2, <2>4, <2>5, <3>1 DEF Walking
  <2>8. Dropping(c)'
    BY <1>3, <1>5, <2>2, <2>4, <2>5 DEF Dropping
  <2>9. Copying'
    BY <1>3, <2>2 DEF IInv, Copying
  <2>10. Types' /\ Pbufs'
    <3>1. task' \in Tasks
      BY <1>4, <2>1 DEF Tasks, Labels
    <3> QED
      BY <1>3, <2>3, <3>1 DEF IInv, Types, Pbufs
  <2>11. NoSleepOnFrame'
    BY <2>2 DEF NoSleepOnFrame
  <2> QED
    BY <2>4, <2>6, <2>7, <2>8, <2>9, <2>10, <2>11 DEF IInv, Place
<1> QED
  BY <1>7, <1>8

LEMMA AllocateHolds ==
  ASSUME IInv, AllocatePbufs PROVE IInv'
<1>1. PICK F, c : Ring(F, c) /\ Place(c)
  BY DEF IInv
<1>2. /\ task.pc = "alloc"
      /\ task' = IF Needed(task.len, PbufSize) <= FreePbufs
                 THEN [At("read") EXCEPT !.len = task.len]
                 ELSE [At("wait") EXCEPT !.len = task.len]
      /\ UNCHANGED <<desc, mac, bna, irq, sem, next, held, line>>
  BY DEF AllocatePbufs, ring
<1>3. PICK e \in Slots : /\ R(e) < c /\ desc[e].len = task.len /\ task.len # 0
                         /\ \A x \in Slots : 0 < R(x) /\ R(x) <= R(e) => ~desc[x].sof
  BY <1>1, <1>2 DEF Place, Reading
<1>4. /\ Behind \in Slots /\ Behind = next /\ next \in Slots
      /\ \A k \in Slots : R(k) \in Nat /\ R(k) < NbRx
      /\ \A k \in Slots : R(k) = 0 <=> k = Behind
      /\ task.len \in Lengths \cup {0} /\ task.len \in Nat \ {0} /\ desc[next] \in Buffers
  <2>1. task.len \in Lengths \cup {0}
    BY DEF IInv, Types, Tasks
  <2>2. task.len \in Nat \ {0}
    BY <1>3, <2>1, RingAssumption
  <2> QED
    BY <1>2, <2>1, <2>2, BehindSlot DEF IInv, Types, Behind
<1>5. CASE ~(Needed(task.len, PbufSize) <= FreePbufs)
  <2>1. task' = [At("wait") EXCEPT !.len = task.len]
    BY <1>2, <1>5
  <2>2. \E n \in Lengths \cup {0} :
          task' = [At("wait") EXCEPT !.len = n] /\ (n = 0 => line = << >>)
    BY <1>3, <1>4, <2>1
  <2> QED
    BY <1>1, <1>2, <2>2, WaitHolds
<1>6. CASE Needed(task.len, PbufSize) <= FreePbufs
  <2>1. task' = [At("read") EXCEPT !.len = task.len]
    BY <1>2, <1>6
  <2>2. /\ task'.pc = "read" /\ task'.len = task.len /\ task'.data = << >>
        /\ task'.pos = 0 /\ task'.section = 0
    BY <2>1 DEF At
  <2>3. Behind' = Behind /\ Taken' = Taken /\ Chain = 0 /\ Chain' = Needed(task.len, PbufSize)
    BY <1>2, <1>4, <2>2 DEF Behind, Taken, Chain
  <2>4. Ring(F, c)' /\ \A k : R(k)' = R(k)
    BY <1>1, <1>2, <2>3, SameRing
  <2>5. Starts(c)' /\ Walking(c)' /\ Dropping(c)'
    BY <2>2 DEF Starts, Walking, Dropping
  <2>6. Reading(c)'
    BY <1>2, <1>3, <2>2, <2>4 DEF Reading
  <2>7. desc[next].part = 0
    <3>1. c > 0
      <4>1. c \in 0 .. NbRx
        BY <1>1 DEF Ring, Owned
      <4> QED
        BY <1>3, <1>4, <4>1, SlotsNat
    <3>2. R(next) = 0 /\ R(next) < c
      BY <1>4, <3>1
    <3>3. desc[next].sof
      BY <1>1, <1>2, <1>4, <3>1, <3>2 DEF Place, Starts
    <3> QED
      BY <1>1, <1>4, <3>2, <3>3 DEF Ring, Parts
  <2>8. Copying'
    <3>1. BufferSize > 0 /\ PbufSize > 0 /\ BufferSize \in Nat
      BY RingAssumption
    <3>2. Len(task'.data) = 0 /\ 0 < task'.len
      BY <1>4, <2>2
    <3>3. desc'[next'].part * BufferSize + task'.pos = 0
      BY <1>2, <2>2, <2>7, <3>1
    <3> QED
      BY <2>2, <3>1, <3>2, <3>3 DEF Copying
  <2>9. Types' /\ Pbufs'
    <3>1. task' \in Tasks
      <4>1. "read" \in Labels /\ 0 \in Slots
        BY SlotsNat DEF Labels
      <4> QED
        BY <1>4, <2>1, <4>1, AtTyped
    <3>2. held + Needed(task.len, PbufSize) <= Pool
      <4>1. Needed(task.len, PbufSize) \in Nat
        BY <1>4, NeededIs, RingAssumption
      <4>2. FreePbufs = Pool - held - 0
        BY <2>3 DEF FreePbufs
      <4> QED
        BY <1>6, <4>1, <4>2, ChainNat
    <3> QED
      BY <1>2, <2>3, <3>1, <3>2 DEF IInv, Types, Pbufs
  <2>10. NoSleepOnFrame'
    BY <2>2 DEF NoSleepOnFrame
  <2> QED
    BY <2>4, <2>5, <2>6, <2>8, <2>9, <2>10 DEF IInv, Place
<1> QED
  BY <1>5, <1>6

-----------------------------------------------------------------------------
(* A frame that breaks off, or for which there is no buffer. *)
LEMMA SilentHolds ==
  ASSUME IInv, NoBuffer \/ BreaksOff PROVE IInv'
<1>1. PICK F, c : Ring(F, c) /\ Place(c)
  BY DEF IInv
<1>2. /\ mac' = Silent /\ bna' \in BOOLEAN
      /\ UNCHANGED <<desc, irq, sem, next, task, held, line>>
  BY DEF NoBuffer, BreaksOff, IInv, Types
<1>3. /\ mac' \in Macs /\ mac'.at = mac.at /\ mac'.id = 0 /\ mac'.got = 0
  BY <1>2 DEF Silent, IInv, Types, Macs
<1>4. /\ Behind' = Behind /\ Taken' = Taken /\ Chain' = Chain
      /\ \A k : R(k)' = R(k)
  BY <1>2 DEF Behind, Taken, Chain, R
<1>5. Owned(c)' /\ Parts(c)' /\ Joined(c)' /\ Lines(F, c)'
  BY <1>1, <1>2, <1>3, <1>4 DEF Ring, Owned, Parts, Joined, NoStart, Lines
<1>6. ComesIn(c)'
  BY <1>3 DEF ComesIn
<1>7. Place(c)'
  BY <1>1, <1>2, <1>4 DEF Place, Starts, Walking, Dropping, Reading
<1>8. Types' /\ Pbufs' /\ Copying' /\ NoSleepOnFrame'
  BY <1>2, <1>3, <1>4 DEF IInv, Types, Pbufs, Copying, NoSleepOnFrame
<1> QED
  BY <1>5, <1>6, <1>7, <1>8 DEF IInv, Ring

(* After a reset of the ring it is as at the start. *)
LEMMA ResetHolds ==
  ASSUME IInv, ResetMacbRxFrames PROVE IInv'
<1>1. /\ desc' = [i \in Slots |-> Unused]
      /\ mac' = [Silent EXCEPT !.at = 0, !.lap = 0]
      /\ bna' = FALSE /\ next' = 0 /\ line' = << >> /\ task' = At("wait")
      /\ UNCHANGED <<irq, sem, held>> /\ task.pc = "input"
  BY DEF ResetMacbRxFrames
<1>2. /\ task'.pc = "wait" /\ task'.data = << >> /\ task'.pos = 0 /\ task'.section = 0
  BY <1>1 DEF At
<1>3. /\ NbRx \in Nat /\ NbRx >= 2 /\ 0 \in Slots
      /\ BufferSize > 0 /\ PbufSize > 0
  BY RingAssumption, SlotsNat
<1>4. mac' \in Macs /\ mac'.at = 0 /\ mac'.id = 0 /\ mac'.got = 0
  BY <1>1, <1>3 DEF Silent, IInv, Types, Macs
<1>5. Types'
  <2>1. Unused \in Buffers /\ << >> \in Seq(Ids)
    BY DEF Unused, Buffers
  <2>2. task' \in Tasks
    <3>1. "wait" \in Labels
      BY DEF Labels
    <3> QED
      BY <1>1, <1>3, <3>1, AtTyped
  <2>3. desc' \in [Slots -> Buffers]
    BY <1>1, <2>1
  <2> QED
    BY <1>1, <1>3, <1>4, <2>1, <2>2, <2>3 DEF IInv, Types
<1>6. Pbufs' /\ Copying' /\ NoSleepOnFrame'
  <2>1. Chain' = 0 /\ held + 0 <= Pool
    BY <1>2, ChainNat DEF Chain, IInv, Pbufs
  <2> QED
    BY <1>1, <1>2, <1>3, <2>1 DEF Pbufs, Copying, NoSleepOnFrame
<1>7. Behind' = 0
  BY <1>1, <1>2 DEF Behind
<1>8. \A k \in Slots : ~desc'[k].own /\ ~(R(k)' < 0) /\ Off(0, k) \in Nat
  BY <1>1, <1>3, <1>7, OffValue, SlotsNat DEF Unused, R
<1>9. R(mac.at)' = 0
  BY <1>3, <1>4, <1>7, OffSlot DEF R
<1>10. Owned(0)'
  BY <1>3, <1>8, <1>9 DEF Owned
<1>11. Parts(0)' /\ ComesIn(0)' /\ Place(0)'
  BY <1>2, <1>4, <1>8 DEF Parts, ComesIn, Place, Starts, Walking, Dropping, Reading
<1>12. Joined(0)'
  BY <1>8 DEF Joined
<1>13. PICK F : F = [k \in Slots |-> 0]
  OBVIOUS
<1>14. Lines(F, 0)'
  <2>1. Len(line') = 0 /\ Taken' = 0
    BY <1>1, <1>2 DEF Taken
  <2>2. F \in [Slots -> Nat]
    BY <1>13
  <2> QED
    BY <1>8, <2>1, <2>2 DEF Lines
<1> QED
  BY <1>5, <1>6, <1>10, <1>11, <1>12, <1>14 DEF IInv, Ring

(* The frame is handed on: those after it in the ring move up. *)
LEMMA DeliverHolds ==
  ASSUME IInv, Deliver PROVE IInv'
<1>1. PICK F, c : Ring(F, c) /\ Place(c)
  BY DEF IInv
<1>2. /\ task.pc = "deliver" /\ task' = At("input") /\ line' = Tail(line)
      /\ held' \in {held, held + Chain}
      /\ UNCHANGED <<desc, mac, bna, irq, sem, next>>
  BY DEF Deliver, ring
<1>3. /\ task'.pc = "input" /\ task'.data = << >> /\ task'.pos = 0 /\ task'.section = 0
  BY <1>2 DEF At
<1>4. /\ Taken = 1 /\ Taken' = 0 /\ Chain' = 0 /\ Behind' = Behind
      /\ \A k : R(k)' = R(k)
  BY <1>2, <1>3 DEF Taken, Chain, Behind, R
<1>5. /\ line \in Seq(Ids) /\ Len(line) \in Nat /\ Len(line) >= 1 /\ F \in [Slots -> Nat]
  BY <1>1, <1>4 DEF IInv, Types, Ring, Lines
<1>6. /\ line' \in Seq(Ids) /\ Len(line') = Len(line) - 1
      /\ \A n \in Nat : n >= 1 /\ n <= Len(line') => line'[n] = line[n + 1]
  BY <1>2, <1>5
<1>7. Owned(c)' /\ Parts(c)' /\ Joined(c)' /\ ComesIn(c)'
  BY <1>1, <1>2, <1>4 DEF Ring, Owned, Parts, Joined, NoStart, ComesIn
<1>8. PICK G \in [Slots -> Nat] : \A k \in Slots : F[k] >= 1 => G[k] = F[k] - 1
  <2>1. [k \in Slots |-> IF F[k] >= 1 THEN F[k] - 1 ELSE 0] \in [Slots -> Nat]
    BY <1>5
  <2> QED
    BY <2>1
<1>9. \A k \in Slots : R(k) < c /\ desc[k].len # 0 =>
        /\ F[k] \in Nat /\ F[k] > 1 /\ F[k] <= Len(line) /\ line[F[k]] = desc[k].id
        /\ G[k] = F[k] - 1
  BY <1>1, <1>4, <1>5, <1>8 DEF Ring, Lines
<1>10. Lines(G, c)'
  <2>1. ASSUME NEW k \in Slots, R(k) < c, desc[k].len # 0
        PROVE  G[k] > 0 /\ G[k] <= Len(line') /\ line'[G[k]] = desc[k].id
    <3>1. /\ F[k] \in Nat /\ F[k] > 1 /\ F[k] <= Len(line) /\ line[F[k]] = desc[k].id
          /\ G[k] = F[k] - 1
      BY <1>9, <2>1
    <3>2. G[k] \in Nat /\ G[k] >= 1 /\ G[k] <= Len(line') /\ G[k] + 1 = F[k]
      BY <1>5, <1>6, <3>1
    <3> QED
      BY <1>6, <3>1, <3>2
  <2>2. ASSUME NEW k \in Slots, NEW l \in Slots,
               R(k) < R(l), R(l) < c, desc[k].len # 0, desc[l].len # 0
        PROVE  G[k] < G[l]
    <3>1. F[k] < F[l]
      BY <1>1, <2>2 DEF Ring, Lines
    <3>2. R(k) < c
      <4>1. R(k) \in Nat /\ R(l) \in Nat /\ c \in 0 .. NbRx
        BY <1>1, BehindSlot DEF IInv, Ring, Owned
      <4> QED
        BY <2>2, <4>1, SlotsNat
    <3> QED
      BY <1>9, <2>2, <3>1, <3>2
  <2>3. ASSUME NEW n \in 0 + 1 .. Len(line')
        PROVE  \E k \in Slots : R(k) < c /\ desc[k].len # 0 /\ G[k] = n
    <3>1. n \in Nat /\ n + 1 \in Taken + 1 .. Len(line)
      BY <1>4, <1>5, <1>6
    <3>2. PICK k \in Slots : R(k) < c /\ desc[k].len # 0 /\ F[k] = n + 1
      BY <1>1, <3>1 DEF Ring, Lines
    <3>3. G[k] = n
      BY <1>9, <3>1, <3>2
    <3> QED
      BY <3>2, <3>3
  <2>4. 0 <= Len(line')
    BY <1>5, <1>6
  <2> QED
    BY <1>2, <1>4, <2>1, <2>2, <2>3, <2>4 DEF Lines
<1>11. Place(c)'
  BY <1>1, <1>2, <1>3, <1>4 DEF Place, Starts, Walking, Dropping, Reading
<1>12. Copying' /\ NoSleepOnFrame'
  <2>1. BufferSize > 0 /\ PbufSize > 0
    BY RingAssumption
  <2> QED
    BY <1>3, <2>1 DEF Copying, NoSleepOnFrame
<1>13. Types' /\ Pbufs'
  <2>1. task' \in Tasks
    <3>1. "input" \in Labels /\ 0 \in Slots
      BY SlotsNat DEF Labels
    <3> QED
      BY <1>2, <3>1, AtTyped
  <2>2. held' \in Nat /\ held' + 0 <= Pool
    BY <1>2, ChainNat DEF IInv, Pbufs
  <2> QED
    BY <1>2, <1>4, <1>6, <2>1, <2>2 DEF IInv, Types, Pbufs
<1> QED
  BY <1>7, <1>10, <1>11, <1>12, <1>13 DEF IInv, Ring

-----------------------------------------------------------------------------
(* The software gives the first of its buffers back. *)
LEMMA FreeHolds ==
  ASSUME Types, NEW F, NEW c, Ring(F, c), c > 0, UNCHANGED <<mac, line>>,
         desc' = Freed(Behind), Behind' = After(Behind),
         mac.id # 0 => c > 1,
         \/ desc[Behind].len = 0 /\ Taken' = Taken
         \/ desc[Behind].len # 0 /\ Taken = 0 /\ Taken' = 1
  PROVE  /\ Ring(F, c - 1)'
         /\ \A k \in Slots : R(k)' = IF R(k) > 0 THEN R(k) - 1 ELSE NbRx - 1
         /\ \A k \in Slots : k # Behind => desc'[k] = desc[k]
         /\ desc' \in [Slots -> Buffers]
<1>1. PICK b : b = Behind
  OBVIOUS
<1>2. /\ b \in Slots /\ desc \in [Slots -> Buffers] /\ mac.at \in Slots
      /\ \A k \in Slots : R(k) \in Nat /\ R(k) < NbRx
      /\ \A k \in Slots : R(k) = 0 <=> k = b
  BY <1>1, BehindSlot DEF Types, Macs
<1>3. /\ c \in 0 .. NbRx /\ (IF c = NbRx THEN mac.at = b ELSE R(mac.at) = c)
      /\ \A k \in Slots : desc[k].own <=> R(k) < c
  BY <1>1 DEF Ring, Owned
<1>4. NbRx \in Nat /\ NbRx >= 2 /\ c \in Nat /\ c <= NbRx /\ c - 1 \in Nat
  BY <1>3, SlotsNat
<1>5. \A k \in Slots : R(k)' = IF R(k) > 0 THEN R(k) - 1 ELSE NbRx - 1
  BY <1>1, <1>2, OffAfter DEF R
<1>6. /\ desc' = [desc EXCEPT ![b] = Unused] /\ Unused \in Buffers
      /\ desc'[b] = Unused /\ ~desc'[b].own
  BY <1>1, <1>2 DEF Freed, Unused, Buffers
<1>7. desc' \in [Slots -> Buffers] /\ \A k \in Slots : k # b => desc'[k] = desc[k]
  BY <1>2, <1>6
<1>8. \A k \in Slots : R(k)' < c - 1 <=> (k # b /\ R(k) < c)
  BY <1>2, <1>4, <1>5
<1>9. \A k \in Slots : k # b => R(k)' = R(k) - 1 /\ R(k) > 0 /\ R(k) \in Nat
  BY <1>2, <1>5
<1>10. Owned(c - 1)'
  <2>1. c - 1 \in 0 .. NbRx /\ c - 1 # NbRx
    BY <1>4
  <2>2. R(mac.at)' = c - 1
    <3>1. Off(Behind', mac.at) = IF R(mac.at) > 0 THEN R(mac.at) - 1 ELSE NbRx - 1
      BY <1>2, <1>5 DEF R
    <3>2. Off(Behind', mac.at) = c - 1
      BY <1>2, <1>3, <1>4, <3>1
    <3> QED
      BY <3>2 DEF R
  <2>3. \A k \in Slots : desc'[k].own <=> R(k)' < c - 1
    BY <1>3, <1>6, <1>7, <1>8
  <2> QED
    BY <2>1, <2>2, <2>3 DEF Owned
<1>11. Parts(c - 1)'
  BY <1>7, <1>8 DEF Ring, Parts
<1>12. Joined(c - 1)'
  <2> SUFFICES ASSUME NEW k \in Slots, NEW l \in Slots, R(k)' < R(l)', R(l)' < c - 1,
                      NoStart(k, l)'
               PROVE  /\ desc'[l].id = desc'[k].id
                      /\ desc'[l].part = desc'[k].part + (R(l)' - R(k)')
                      /\ desc'[k].len = 0
    BY DEF Joined
  <2>1. R(k)' < c - 1
    <3>1. R(k)' \in Nat /\ R(l)' \in Nat
      BY <1>2, <1>4, <1>5
    <3> QED
      BY <1>4, <3>1
  <2>2. k # b /\ l # b /\ R(k) < c /\ R(l) < c
    BY <1>8, <2>1
  <2>3. R(k) < R(l) /\ R(l)' - R(k)' = R(l) - R(k)
    BY <1>9, <2>2
  <2>4. NoStart(k, l)
    <3> SUFFICES ASSUME NEW x \in Slots, R(k) < R(x), R(x) <= R(l) PROVE ~desc[x].sof
      BY DEF NoStart
    <3>1. x # b
      BY <1>2
    <3>2. R(k)' < R(x)' /\ R(x)' <= R(l)'
      BY <1>9, <2>2, <3>1
    <3> QED
      BY <1>7, <3>1, <3>2 DEF NoStart
  <2> QED
    BY <1>7, <2>2, <2>3, <2>4 DEF Ring, Joined
<1>13. ComesIn(c - 1)'
  <2>1. CASE mac.id = 0
    BY <2>1 DEF Ring, ComesIn
  <2>2. CASE mac.id # 0
    <3>1. c - 1 > 0
      BY <1>4, <2>2
    <3>2. ASSUME NEW k \in Slots, R(k)' + 1 = c - 1
          PROVE  desc'[k] = desc[k] /\ R(k) + 1 = c
      BY <1>2, <1>4, <1>5, <1>7, <3>2
    <3> QED
      BY <2>2, <3>1, <3>2 DEF Ring, ComesIn
  <2> QED
    BY <2>1, <2>2
<1>14. \A k \in Slots : R(k)' < c - 1 /\ desc'[k].len # 0
                        <=> (k # b /\ R(k) < c /\ desc[k].len # 0)
  BY <1>7, <1>8
<1>15. F \in [Slots -> Nat] /\ line \in Seq(Ids) /\ Len(line) \in Nat
  BY DEF Ring, Lines, Types
<1>16. \A k, l \in Slots :
         R(k)' < R(l)' /\ R(l)' < c - 1 /\ desc'[k].len # 0 /\ desc'[l].len # 0 => F[k] < F[l]
  <2> SUFFICES ASSUME NEW k \in Slots, NEW l \in Slots, R(k)' < R(l)', R(l)' < c - 1,
                      desc'[k].len # 0, desc'[l].len # 0
               PROVE  F[k] < F[l]
    OBVIOUS
  <2>1. R(k)' < c - 1
    <3>1. R(k)' \in Nat /\ R(l)' \in Nat
      BY <1>2, <1>4, <1>5
    <3> QED
      BY <1>4, <3>1
  <2>2. /\ k # b /\ l # b /\ R(k) < c /\ R(l) < c /\ desc[k].len # 0 /\ desc[l].len # 0
    BY <1>14, <2>1
  <2>3. R(k) < R(l)
    BY <1>9, <2>2
  <2> QED
    BY <2>2, <2>3 DEF Ring, Lines
<1>17. Lines(F, c - 1)'
  <2>1. CASE desc[b].len = 0 /\ Taken' = Taken
    <3>1. \A k \in Slots : R(k)' < c - 1 /\ desc'[k].len # 0 <=> (R(k) < c /\ desc[k].len # 0)
      BY <1>14, <2>1
    <3>2. \A k \in Slots : R(k)' < c - 1 /\ desc'[k].len # 0 =>
            F[k] > Taken' /\ F[k] <= Len(line) /\ line[F[k]] = desc'[k].id
      BY <1>7, <1>14, <2>1 DEF Ring, Lines
    <3>3. \A n \in Taken' + 1 .. Len(line) :
            \E k \in Slots : R(k)' < c - 1 /\ desc'[k].len # 0 /\ F[k] = n
      BY <2>1, <3>1 DEF Ring, Lines
    <3> QED
      BY <1>15, <1>16, <2>1, <3>2, <3>3 DEF Ring, Lines
  <2>2. CASE desc[b].len # 0 /\ Taken = 0 /\ Taken' = 1
    <3>1. R(b) = 0 /\ R(b) < c
      BY <1>2
    <3>2. F[b] > 0 /\ F[b] <= Len(line) /\ F[b] \in Nat
      BY <1>2, <1>15, <2>2, <3>1 DEF Ring, Lines
    <3>3. ASSUME NEW k \in Slots, k # b, R(k) < c, desc[k].len # 0
          PROVE  F[k] > 1 /\ F[k] <= Len(line) /\ line[F[k]] = desc[k].id /\ F[k] > F[b]
      <4>1. F[b] < F[k]
        <5>1. R(b) < R(k)
          BY <1>2, <3>1, <3>3
        <5> QED
          BY <1>2, <2>2, <3>3, <5>1 DEF Ring, Lines
      <4>2. F[k] \in Nat
        BY <1>15
      <4>3. F[k] <= Len(line) /\ line[F[k]] = desc[k].id
        BY <3>3 DEF Ring, Lines
      <4> QED
        BY <3>2, <4>1, <4>2, <4>3
    <3>4. F[b] = 1
      <4>1. 1 \in Taken + 1 .. Len(line)
        BY <1>15, <2>2, <3>2
      <4>2. PICK k \in Slots : R(k) < c /\ desc[k].len # 0 /\ F[k] = 1
        BY <4>1 DEF Ring, Lines
      <4>3. k = b
        BY <3>3, <4>2
      <4> QED
        BY <4>2, <4>3
    <3>5. \A k \in Slots : R(k)' < c - 1 /\ desc'[k].len # 0 =>
            F[k] > 1 /\ F[k] <= Len(line) /\ line[F[k]] = desc'[k].id
      BY <1>7, <1>14, <3>3
    <3>6. ASSUME NEW n \in 1 + 1 .. Len(line)
          PROVE  \E k \in Slots : R(k)' < c - 1 /\ desc'[k].len # 0 /\ F[k] = n
      <4>1. n \in Taken + 1 .. Len(line) /\ n # 1
        BY <1>15, <2>2
      <4>2. PICK k \in Slots : R(k) < c /\ desc[k].len # 0 /\ F[k] = n
        BY <4>1 DEF Ring, Lines
      <4>3. k # b
        BY <3>4, <4>1, <4>2
      <4> QED
        BY <1>14, <4>2, <4>3
    <3>7. 1 <= Len(line)
      BY <1>15, <3>2
    <3> QED
      BY <1>15, <1>16, <2>2, <3>5, <3>6, <3>7 DEF Lines
  <2> QED
    BY <1>1, <2>1, <2>2
<1> QED
  BY <1>1, <1>5, <1>7, <1>10, <1>11, <1>12, <1>13, <1>17 DEF Ring

LEMMA DropHolds ==
  ASSUME IInv, DropFaulty PROVE IInv'
<1>1. PICK F, c : Ring(F, c) /\ Place(c)
  BY DEF IInv
<1>2. PICK i, to : i = task.i /\ to = task.to
  OBVIOUS
<1>3. /\ task.pc = "drop" /\ desc' = Freed(i)
      /\ UNCHANGED <<mac, bna, irq, sem, held, line>>
  BY <1>2 DEF DropFaulty, Quiet
<1>4. /\ After(i) = to => task' = [At("walk") EXCEPT !.i = to] /\ next' = to
      /\ After(i) # to => task' = [task EXCEPT !.i = After(i)] /\ next' = next
  BY <1>2, <1>3 DEF DropFaulty, IInv, Types, Tasks
<1>5. /\ Behind = i /\ i \in Slots /\ to \in Slots /\ next \in Slots /\ task \in Tasks
      /\ \A k \in Slots : R(k) \in Nat /\ R(k) < NbRx
      /\ \A k \in Slots : R(k) = 0 <=> k = i
  BY <1>2, <1>3, BehindSlot DEF IInv, Types, Tasks, Behind
<1>6. /\ R(to) > 0 /\ R(to) < c /\ desc[to].sof
      /\ \A x \in Slots : R(x) < R(to) => desc[x].len = 0
  BY <1>1, <1>2, <1>3 DEF Place, Dropping
<1>7. NbRx \in Nat /\ NbRx >= 2 /\ c \in Nat /\ c <= NbRx /\ c > 1
  <2>1. c \in 0 .. NbRx
    BY <1>1 DEF Ring, Owned
  <2> QED
    BY <1>5, <1>6, <2>1, SlotsNat
<1>8. desc[i].len = 0
  BY <1>5, <1>6
<1>9. After(i) \in Slots /\ R(After(i)) = 1
  <2>1. R(After(i)) = IF R(i) = NbRx - 1 THEN 0 ELSE R(i) + 1
    BY <1>5, OffSlot DEF R
  <2> QED
    BY <1>5, <1>7, <2>1, AfterValue
<1>10. /\ After(i) = to => task'.pc = "walk" /\ task'.i = to /\ task'.data = << >>
                          /\ task'.pos = 0 /\ task'.section = 0
       /\ After(i) # to => task'.pc = "drop" /\ task'.i = After(i) /\ task'.to = to
                          /\ task'.data = task.data /\ task'.len = task.len
                          /\ task'.pos = task.pos /\ task'.section = task.section
  BY <1>2, <1>3, <1>4, <1>5 DEF At, Tasks
<1>11. Behind' = After(i) /\ Taken' = Taken /\ Chain' = 0 /\ Chain = 0
  BY <1>3, <1>4, <1>10 DEF Behind, Taken, Chain
<1>12. /\ Ring(F, c - 1)'
       /\ \A k \in Slots : R(k)' = IF R(k) > 0 THEN R(k) - 1 ELSE NbRx - 1
       /\ \A k \in Slots : k # i => desc'[k] = desc[k]
       /\ desc' \in [Slots -> Buffers]
  <2>1. c > 0
    BY <1>7
  <2> QED
    BY <1>1, <1>3, <1>5, <1>7, <1>8, <1>11, <2>1, FreeHolds DEF IInv
<1>13. Types' /\ Pbufs'
  <2>1. task' \in Tasks /\ next' \in Slots
    <3>1. CASE After(i) = to
      <4>1. "walk" \in Labels
        BY DEF Labels
      <4> QED
        BY <1>4, <1>5, <3>1, <4>1, AtTyped
    <3>2. CASE After(i) # to
      BY <1>4, <1>5, <1>9, <3>2 DEF Tasks
    <3> QED
      BY <3>1, <3>2
  <2> QED
    BY <1>3, <1>11, <1>12, <2>1 DEF IInv, Types, Pbufs
<1>14. Copying' /\ NoSleepOnFrame'
  <2>1. BufferSize > 0 /\ PbufSize > 0
    BY RingAssumption
  <2>2. CASE After(i) = to
    BY <1>10, <2>1, <2>2 DEF Copying, NoSleepOnFrame
  <2>3. CASE After(i) # to
    BY <1>3, <1>10, <2>3 DEF IInv, Copying, NoSleepOnFrame
  <2> QED
    BY <2>2, <2>3
<1>15. Place(c - 1)'
  <2>1. CASE After(i) = to
    <3>1. R(to) = 1 /\ to # i
      BY <1>5, <1>9, <2>1
    <3>2. \A k \in Slots : R(k)' = 0 => k = to
      <4> SUFFICES ASSUME NEW k \in Slots, R(k)' = 0 PROVE k = to
        OBVIOUS
      <4>1. R(k) = 1
        BY <1>5, <1>7, <1>12
      <4> QED
        BY <1>5, <3>1, <4>1, BehindSlot DEF IInv
    <3>3. Off(Behind', to) = 0
      BY <1>5, <1>11, <2>1, OffSlot
    <3>4. Starts(c - 1)'
      BY <1>5, <1>6, <1>12, <3>1, <3>2 DEF Starts
    <3>5. \A x \in Slots : R(x)' \in Nat
      BY <1>5, <1>7, <1>12
    <3>6. Walking(c - 1)'
      BY <1>10, <2>1, <3>3, <3>5 DEF Walking, R
    <3> QED
      BY <1>10, <2>1, <3>4, <3>6 DEF Place, Dropping, Reading
  <2>2. CASE After(i) # to
    <3>1. R(to) > 1
      <4>1. R(to) # 1
        BY <1>5, <1>9, <2>2, BehindSlot DEF IInv
      <4> QED
        BY <1>5, <1>6, <4>1
    <3>2. to # i
      BY <1>5, <3>1
    <3>3. R(to)' = R(to) - 1
      BY <1>5, <1>6, <1>12
    <3>4. R(to)' > 0 /\ R(to)' < c - 1 /\ desc'[to].sof
      BY <1>5, <1>6, <1>7, <1>12, <3>1, <3>2, <3>3
    <3>5. \A x \in Slots : R(x)' < R(to)' => desc'[x].len = 0
      <4> SUFFICES ASSUME NEW x \in Slots, R(x)' < R(to)' PROVE desc'[x].len = 0
        OBVIOUS
      <4>1. x # i /\ R(x) < R(to)
        BY <1>5, <1>7, <1>12, <3>3
      <4> QED
        BY <1>6, <1>12, <4>1
    <3>6. Dropping(c - 1)'
      BY <1>10, <2>2, <3>4, <3>5 DEF Dropping
    <3> QED
      BY <1>10, <2>2, <3>6 DEF Place, Starts, Walking, Reading
  <2> QED
    BY <2>1, <2>2
<1> QED
  BY <1>12, <1>13, <1>14, <1>15 DEF IInv

-----------------------------------------------------------------------------
(* The MACB writes a buffer. *)
LEMMA ReceiveHolds ==
  ASSUME IInv, NEW frame \in Macs, Receive(frame),
         frame.at = mac.at, frame.lap = mac.lap, frame.id \in Ids, frame.len \in Lengths,
         \/ mac.id = 0 /\ frame.got = 0
         \/ mac.id # 0 /\ frame = mac
  PROVE  IInv'
<1>1. PICK F, c : Ring(F, c) /\ Place(c)
  BY DEF IInv
<1>2. PICK i : i = mac.at
  OBVIOUS
<1>3. PICK last \in BOOLEAN : last = (frame.got + 1 = Needed(frame.len, BufferSize))
  OBVIOUS
<1>4. /\ ~desc[i].own
      /\ desc' = [desc EXCEPT ![i] =
           [own |-> TRUE, sof |-> frame.got = 0, len |-> IF last THEN frame.len ELSE 0,
            id |-> frame.id, part |-> frame.got]]
      /\ mac' = IF last THEN [Silent EXCEPT !.at = After(i), !.lap = Wrapped(i)]
                ELSE [frame EXCEPT !.at = After(i), !.lap = Wrapped(i), !.got = @ + 1]
      /\ line' = IF last THEN Append(line, frame.id) ELSE line
      /\ irq' = (irq \/ last)
      /\ UNCHANGED <<bna, sem, next, task, held>>
  BY <1>2, <1>3 DEF Receive
<1>5. /\ i \in Slots /\ Behind \in Slots /\ After(i) \in Slots
      /\ \A k \in Slots : R(k) \in Nat /\ R(k) < NbRx
      /\ \A k \in Slots : R(k) = 0 <=> k = Behind
      /\ \A k, l \in Slots : R(k) = R(l) => k = l
      /\ desc \in [Slots -> Buffers] /\ mac \in Macs /\ task \in Tasks /\ next \in Slots
      /\ line \in Seq(Ids) /\ Len(line) \in Nat
  <2>1. mac.at \in Slots
    BY DEF IInv, Types, Macs
  <2>2. line \in Seq(Ids) /\ Len(line) \in Nat
    BY DEF IInv, Types
  <2> QED
    BY <1>2, <2>1, <2>2, BehindSlot, AfterValue DEF IInv, Types
<1>6. /\ c \in 0 .. NbRx /\ (IF c = NbRx THEN i = Behind ELSE R(i) = c)
      /\ \A k \in Slots : desc[k].own <=> R(k) < c
  BY <1>1, <1>2 DEF Ring, Owned
<1>7. /\ NbRx \in Nat /\ NbRx >= 2 /\ c \in Nat /\ c < NbRx /\ R(i) = c
  BY <1>4, <1>5, <1>6, SlotsNat
<1>8. /\ frame.got \in Nat /\ frame.len \in Nat \ {0} /\ BufferSize \in Nat \ {0}
      /\ frame.id # 0 /\ frame.len \in Lengths
  <2>1. frame.id # 0
    BY SlotsNat DEF Ids
  <2> QED
    BY <2>1, RingAssumption DEF Macs
<1>9. /\ Needed(frame.len, BufferSize) \in Nat \ {0}
      /\ frame.got < Needed(frame.len, BufferSize)
  <2>1. Needed(frame.len, BufferSize) \in Nat \ {0}
    BY <1>8, NeededIs
  <2>2. frame.got # 0 => frame.got < Needed(frame.len, BufferSize)
    BY <1>1 DEF Ring, ComesIn
  <2> QED
    BY <1>8, <2>1, <2>2
<1>10. frame.got # 0 =>
         /\ mac.id # 0 /\ frame = mac /\ c > 0
         /\ \A k \in Slots : R(k) + 1 = c =>
              desc[k].id = frame.id /\ desc[k].part + 1 = frame.got /\ desc[k].len = 0
  BY <1>1 DEF Ring, ComesIn
<1>11. /\ desc'[i].own /\ (desc'[i].sof <=> frame.got = 0)
       /\ last => desc'[i].len = frame.len
       /\ ~last => desc'[i].len = 0
       /\ desc'[i].id = frame.id /\ desc'[i].part = frame.got
       /\ \A k \in Slots : k # i => desc'[k] = desc[k]
  BY <1>4, <1>5
<1>12. desc' \in [Slots -> Buffers]
  <2>1. PICK n \in Lengths \cup {0} : n = IF last THEN frame.len ELSE 0
    BY <1>8
  <2>2. PICK sof \in BOOLEAN : sof = (frame.got = 0)
    OBVIOUS
  <2>3. [own |-> TRUE, sof |-> sof, len |-> n, id |-> frame.id, part |-> frame.got] \in Buffers
    BY <1>8, <2>1, <2>2 DEF Buffers
  <2> QED
    BY <1>4, <1>5, <2>1, <2>2, <2>3
<1>13. /\ mac' \in Macs /\ mac'.at = After(i)
       /\ last => mac'.id = 0 /\ mac'.got = 0
       /\ ~last => /\ mac'.id = frame.id /\ mac'.len = frame.len
                   /\ mac'.got = frame.got + 1
  <2>1. Wrapped(i) \in {0, 1}
    BY <1>5 DEF Wrapped, Macs
  <2>2. CASE last
    <3>1. mac' = [Silent EXCEPT !.at = After(i), !.lap = Wrapped(i)]
      BY <1>4, <2>2
    <3> QED
      BY <1>5, <2>1, <2>2, <3>1 DEF Silent, Macs
  <2>3. CASE ~last
    <3>1. PICK got \in Nat : got = frame.got + 1
      BY <1>8
    <3>2. mac' = [frame EXCEPT !.at = After(i), !.lap = Wrapped(i), !.got = got]
      BY <1>4, <2>3, <3>1
    <3> QED
      BY <1>5, <2>1, <2>3, <3>1, <3>2 DEF Macs
  <2> QED
    BY <2>2, <2>3
<1>14. /\ Behind' = Behind /\ Taken' = Taken /\ Chain' = Chain
       /\ \A k : R(k)' = R(k)
  BY <1>4 DEF Behind, Taken, Chain, R
<1>15. /\ \A k \in Slots : R(k) < c => k # i
       /\ \A k \in Slots : R(k) < c + 1 => R(k) < c \/ k = i
       /\ \A k \in Slots : k # i /\ R(k) < c + 1 => R(k) < c
  BY <1>5, <1>7
<1>16. Owned(c + 1)'
  <2>1. c + 1 \in 0 .. NbRx
    BY <1>7
  <2>2. R(After(i)) = IF c = NbRx - 1 THEN 0 ELSE c + 1
    BY <1>5, <1>7, OffSlot DEF R
  <2>3. IF c + 1 = NbRx THEN After(i) = Behind ELSE R(After(i)) = c + 1
    BY <1>5, <1>7, <2>2
  <2>4. R(mac.at)' = R(After(i))
    BY <1>13, <1>14 DEF R
  <2>5. \A k \in Slots : desc'[k].own <=> R(k) < c + 1
    <3> SUFFICES ASSUME NEW k \in Slots PROVE desc'[k].own <=> R(k) < c + 1
      OBVIOUS
    <3>1. CASE k = i
      BY <1>7, <1>11, <3>1
    <3>2. CASE k # i
      <4>1. R(k) < c <=> R(k) < c + 1
        BY <1>5, <1>7, <1>15, <3>2
      <4> QED
        BY <1>6, <1>11, <3>2, <4>1
    <3> QED
      BY <3>1, <3>2
  <2> QED
    BY <1>13, <1>14, <2>1, <2>3, <2>4, <2>5 DEF Owned
<1>17. Parts(c + 1)'
  <2> SUFFICES ASSUME NEW k \in Slots, R(k) < c + 1
               PROVE  /\ desc'[k].id \in Ids
                      /\ desc'[k].sof <=> desc'[k].part = 0
                      /\ \E n \in Lengths :
                           /\ desc'[k].part < Needed(n, BufferSize)
                           /\ desc'[k].len # 0 =>
                                desc'[k].len = n /\ desc'[k].part + 1 = Needed(n, BufferSize)
    BY <1>14 DEF Parts
  <2>1. CASE k = i
    <3>1. desc'[k].id \in Ids /\ (desc'[k].sof <=> desc'[k].part = 0)
      BY <1>11, <2>1
    <3>2. desc'[k].part < Needed(frame.len, BufferSize)
      BY <1>9, <1>11, <2>1
    <3>3. desc'[k].len # 0 => /\ desc'[k].len = frame.len
                             /\ desc'[k].part + 1 = Needed(frame.len, BufferSize)
      BY <1>3, <1>11, <2>1
    <3> QED
      BY <1>8, <3>1, <3>2, <3>3
  <2>2. CASE k # i
    <3>1. R(k) < c /\ desc'[k] = desc[k]
      BY <1>11, <1>15, <2>2
    <3> QED
      BY <1>1, <3>1 DEF Ring, Parts
  <2> QED
    BY <2>1, <2>2
<1>18. Joined(c + 1)'
  <2> SUFFICES ASSUME NEW k \in Slots, NEW l \in Slots, R(k) < R(l), R(l) < c + 1,
                      \A x \in Slots : R(k) < R(x) /\ R(x) <= R(l) => ~desc'[x].sof
               PROVE  /\ desc'[l].id = desc'[k].id
                      /\ desc'[l].part = desc'[k].part + (R(l) - R(k))
                      /\ desc'[k].len = 0
    BY <1>14 DEF Joined, NoStart
  <2>1. R(k) < c /\ k # i /\ desc'[k] = desc[k]
    BY <1>5, <1>7, <1>11, <1>15
  <2>2. CASE l # i
    <3>1. R(l) < c /\ desc'[l] = desc[l]
      BY <1>11, <1>15, <2>2
    <3>2. NoStart(k, l)
      <4> SUFFICES ASSUME NEW x \in Slots, R(k) < R(x), R(x) <= R(l) PROVE ~desc[x].sof
        BY DEF NoStart
      <4>1. x # i
        BY <1>5, <1>7, <3>1
      <4> QED
        BY <1>11, <4>1
    <3> QED
      BY <1>1, <2>1, <3>1, <3>2 DEF Ring, Joined
  <2>3. CASE l = i
    <3>1. ~desc'[i].sof
      BY <1>5, <2>3
    <3>2. frame.got # 0
      BY <1>11, <3>1
    <3>3. c > 0 /\ c - 1 \in 0 .. NbRx - 1
      BY <1>7, <1>10, <3>2
    <3>4. PICK p \in Slots : R(p) = c - 1
      BY <1>5, <3>3, SlotAt DEF R
    <3>5. /\ desc[p].id = frame.id /\ desc[p].part + 1 = frame.got /\ desc[p].len = 0
          /\ desc[p].part \in Nat
      <4>1. R(p) + 1 = c
        BY <1>7, <3>4
      <4>2. desc[p].part \in Nat
        BY <1>5 DEF Buffers
      <4> QED
        BY <1>10, <3>2, <4>1, <4>2
    <3>6. CASE k = p
      <4>1. R(l) - R(k) = 1
        BY <1>7, <2>3, <3>4, <3>6
      <4> QED
        BY <1>11, <2>1, <2>3, <3>5, <3>6, <4>1
    <3>7. CASE k # p
      <4>1. R(k) < R(p) /\ R(p) < c /\ R(p) \in Nat /\ R(k) \in Nat
        <5>1. R(k) # R(p)
          BY <1>5, <3>7
        <5> QED
          BY <1>5, <1>7, <2>1, <3>4, <5>1
      <4>2. NoStart(k, p)
        <5> SUFFICES ASSUME NEW x \in Slots, R(k) < R(x), R(x) <= R(p) PROVE ~desc[x].sof
          BY DEF NoStart
        <5>1. x # i /\ R(x) <= R(l)
          BY <1>5, <1>7, <2>3, <4>1
        <5> QED
          BY <1>11, <5>1
      <4>3. /\ desc[p].id = desc[k].id /\ desc[p].part = desc[k].part + (R(p) - R(k))
            /\ desc[k].len = 0
        BY <1>1, <4>1, <4>2 DEF Ring, Joined
      <4>4. frame.got = desc[k].part + (R(l) - R(k))
        <5>1. desc[k].part \in Nat /\ R(l) = R(p) + 1
          BY <1>5, <1>7, <2>3, <3>4 DEF Buffers
        <5> QED
          BY <3>5, <4>1, <4>3, <5>1
      <4> QED
        BY <1>11, <2>1, <2>3, <3>5, <4>3, <4>4
    <3> QED
      BY <3>6, <3>7
  <2> QED
    BY <2>2, <2>3
<1>19. ComesIn(c + 1)'
  <2>1. CASE last
    BY <1>13, <2>1 DEF ComesIn
  <2>2. CASE ~last
    <3>1. frame.got + 1 < Needed(frame.len, BufferSize)
      <4>1. frame.got + 1 # Needed(frame.len, BufferSize)
        BY <1>3, <2>2
      <4> QED
        BY <1>8, <1>9, <4>1
    <3>2. c + 1 > 0 /\ frame.got + 1 > 0
      BY <1>7, <1>8
    <3>3. \A k \in Slots : R(k) + 1 = c + 1 => k = i
      BY <1>5, <1>7
    <3> QED
      BY <1>8, <1>11, <1>13, <1>14, <2>2, <3>1, <3>2, <3>3 DEF ComesIn
  <2> QED
    BY <2>1, <2>2
<1>20. /\ line' \in Seq(Ids) /\ Len(line') \in Nat
       /\ last => Len(line') = Len(line) + 1 /\ line'[Len(line) + 1] = frame.id
       /\ ~last => line' = line
       /\ \A n \in Nat : n >= 1 /\ n <= Len(line) => line'[n] = line[n]
  <2>1. CASE last
    BY <1>4, <1>5, <2>1
  <2>2. CASE ~last
    BY <1>4, <1>5, <2>2
  <2> QED
    BY <2>1, <2>2
<1>21. F \in [Slots -> Nat] /\ Taken <= Len(line) /\ Taken \in {0, 1}
  BY <1>1 DEF Ring, Lines, Taken
<1>22. \A k \in Slots : R(k) < c /\ desc[k].len # 0 =>
         /\ k # i /\ F[k] > Taken /\ F[k] <= Len(line) /\ F[k] \in Nat
         /\ line'[F[k]] = desc[k].id
  <2> SUFFICES ASSUME NEW k \in Slots, R(k) < c, desc[k].len # 0
               PROVE  /\ k # i /\ F[k] > Taken /\ F[k] <= Len(line) /\ F[k] \in Nat
                      /\ line'[F[k]] = desc[k].id
    OBVIOUS
  <2>1. F[k] > Taken /\ F[k] <= Len(line) /\ line[F[k]] = desc[k].id
    BY <1>1 DEF Ring, Lines
  <2>2. F[k] \in Nat /\ F[k] >= 1
    BY <1>21, <2>1
  <2> QED
    BY <1>15, <1>20, <2>1, <2>2
<1>23. ASSUME ~last PROVE \E G : Lines(G, c + 1)'
  <2>1. \A k \in Slots : R(k) < c + 1 /\ desc'[k].len # 0 =>
          k # i /\ R(k) < c /\ desc'[k] = desc[k] /\ desc[k].len # 0
    BY <1>11, <1>15, <1>23
  <2>2. ASSUME NEW n \in Taken + 1 .. Len(line)
        PROVE  \E k \in Slots : R(k) < c + 1 /\ desc'[k].len # 0 /\ F[k] = n
    <3>1. PICK k \in Slots : R(k) < c /\ desc[k].len # 0 /\ F[k] = n
      BY <1>1 DEF Ring, Lines
    <3>2. R(k) < c + 1 /\ desc'[k] = desc[k]
      BY <1>5, <1>7, <1>11, <1>15, <3>1
    <3> QED
      BY <3>1, <3>2
  <2>3. \A k, l \in Slots :
          R(k) < R(l) /\ R(l) < c + 1 /\ desc'[k].len # 0 /\ desc'[l].len # 0 => F[k] < F[l]
    <3> SUFFICES ASSUME NEW k \in Slots, NEW l \in Slots, R(k) < R(l), R(l) < c + 1,
                        desc'[k].len # 0, desc'[l].len # 0
                 PROVE  F[k] < F[l]
      OBVIOUS
    <3>1. R(k) < c + 1
      BY <1>5, <1>7
    <3> QED
      BY <1>1, <2>1, <3>1 DEF Ring, Lines
  <2>4. \A k \in Slots : R(k) < c + 1 /\ desc'[k].len # 0 =>
          F[k] > Taken /\ F[k] <= Len(line) /\ line[F[k]] = desc'[k].id
    BY <1>20, <1>22, <1>23, <2>1
  <2>5. Lines(F, c + 1)'
    BY <1>14, <1>20, <1>21, <1>23, <2>2, <2>3, <2>4 DEF Lines
  <2> QED
    BY <2>5
<1>24. ASSUME last PROVE \E G : Lines(G, c + 1)'
  <2>1. PICK n \in Nat : n = Len(line) + 1
    BY <1>5
  <2>2. PICK G : G = [F EXCEPT ![i] = n]
    OBVIOUS
  <2>3. G \in [Slots -> Nat] /\ G[i] = n /\ \A k \in Slots : k # i => G[k] = F[k]
    BY <1>5, <1>21, <2>1, <2>2
  <2>4. Len(line') = n /\ line'[n] = frame.id
    BY <1>20, <1>24, <2>1
  <2>5. \A k \in Slots : R(k) < c + 1 /\ desc'[k].len # 0 /\ k # i =>
          R(k) < c /\ desc'[k] = desc[k] /\ desc[k].len # 0 /\ G[k] = F[k]
    BY <1>11, <1>15, <2>3
  <2>6. ASSUME NEW k \in Slots, R(k) < c + 1, desc'[k].len # 0
        PROVE  G[k] > Taken /\ G[k] <= Len(line') /\ line'[G[k]] = desc'[k].id
    <3>1. CASE k = i
      BY <1>5, <1>11, <1>21, <2>1, <2>3, <2>4, <3>1
    <3>2. CASE k # i
      <4>1. R(k) < c /\ desc'[k] = desc[k] /\ desc[k].len # 0 /\ G[k] = F[k]
        BY <2>5, <2>6, <3>2
      <4>2. /\ F[k] > Taken /\ F[k] <= Len(line) /\ F[k] \in Nat
            /\ line'[F[k]] = desc[k].id
        BY <1>22, <4>1
      <4> QED
        BY <1>5, <2>1, <2>4, <4>1, <4>2
    <3> QED
      BY <3>1, <3>2
  <2>7. ASSUME NEW k \in Slots, NEW l \in Slots, R(k) < R(l), R(l) < c + 1,
               desc'[k].len # 0, desc'[l].len # 0
        PROVE  G[k] < G[l]
    <3>1. R(k) < c /\ R(k) < c + 1
      BY <1>5, <1>7, <2>7
    <3>2. k # i
      BY <1>15, <3>1
    <3>3. desc[k].len # 0 /\ G[k] = F[k] /\ F[k] <= Len(line) /\ F[k] \in Nat
      BY <1>22, <2>5, <2>7, <3>1, <3>2
    <3>4. CASE l = i
      BY <1>5, <2>1, <2>3, <3>3, <3>4
    <3>5. CASE l # i
      <4>1. R(l) < c /\ desc[l].len # 0 /\ G[l] = F[l]
        BY <2>5, <2>7, <3>5
      <4> QED
        BY <1>1, <2>7, <3>3, <4>1 DEF Ring, Lines
    <3> QED
      BY <3>4, <3>5
  <2>8. ASSUME NEW m \in Taken + 1 .. Len(line')
        PROVE  \E k \in Slots : R(k) < c + 1 /\ desc'[k].len # 0 /\ G[k] = m
    <3>1. CASE m = n
      <4>1. R(i) < c + 1 /\ desc'[i].len # 0
        BY <1>7, <1>8, <1>11, <1>24
      <4> QED
        BY <1>5, <2>3, <3>1, <4>1
    <3>2. CASE m # n
      <4>1. m \in Taken + 1 .. Len(line)
        BY <1>5, <1>21, <2>1, <2>4, <3>2
      <4>2. PICK k \in Slots : R(k) < c /\ desc[k].len # 0 /\ F[k] = m
        BY <1>1, <4>1 DEF Ring, Lines
      <4>3. R(k) < c + 1 /\ k # i
        BY <1>5, <1>7, <1>15, <4>2
      <4> QED
        BY <1>11, <2>3, <4>2, <4>3
    <3> QED
      BY <3>1, <3>2
  <2>9. Taken <= Len(line')
    BY <1>5, <1>21, <2>1, <2>4
  <2>10. Lines(G, c + 1)'
    BY <1>14, <2>3, <2>6, <2>7, <2>8, <2>9 DEF Lines
  <2> QED
    BY <2>10
<1>25. PICK G : Lines(G, c + 1)'
  BY <1>23, <1>24
<1>26. Starts(c + 1)'
  <2> SUFFICES ASSUME task.pc \notin {"read", "drop"}, NEW k \in Slots, R(k) = 0
               PROVE  desc'[k].sof
    BY <1>4, <1>14 DEF Starts
  <2>1. CASE c = 0
    <3>1. k = i /\ frame.got = 0
      BY <1>5, <1>7, <1>10, <2>1
    <3> QED
      BY <1>11, <3>1
  <2>2. CASE c # 0
    <3>1. c > 0 /\ k # i
      BY <1>7, <2>2
    <3> QED
      BY <1>1, <1>11, <3>1 DEF Place, Starts
  <2> QED
    BY <2>1, <2>2
<1>27. Walking(c + 1)'
  <2>1. task.i \in Slots
    BY <1>5 DEF Tasks
  <2>2. CASE task.pc = "walk"
    <3>1. R(task.i) = 0 \/ R(task.i) < c
      BY <1>1, <2>2 DEF Place, Walking
    <3>2. \A x \in Slots : 0 < R(x) /\ R(x) <= R(task.i) => ~desc'[x].sof
      <4> SUFFICES ASSUME NEW x \in Slots, 0 < R(x), R(x) <= R(task.i) PROVE ~desc'[x].sof
        OBVIOUS
      <4>1. x # i
        BY <1>5, <1>7, <2>1, <3>1
      <4> QED
        BY <1>1, <1>11, <2>2, <4>1 DEF Place, Walking
    <3>3. R(task.i) = 0 \/ R(task.i) < c + 1
      BY <1>5, <1>7, <2>1, <3>1
    <3> QED
      BY <1>4, <1>14, <2>2, <3>2, <3>3 DEF Walking
  <2>3. CASE task.pc = "peek"
    <3>1. R(task.i) <= c /\ R(task.i) > 0
      BY <1>1, <2>3 DEF Place, Walking
    <3>2. \A x \in Slots : R(x) < R(task.i) => x # i
      BY <1>5, <1>7, <2>1, <3>1
    <3>3. /\ \A x \in Slots : R(x) < R(task.i) => desc'[x].len = 0
          /\ \A x \in Slots : 0 < R(x) /\ R(x) < R(task.i) => ~desc'[x].sof
      BY <1>1, <1>11, <2>3, <3>2 DEF Place, Walking
    <3>4. R(task.i) <= c + 1
      BY <1>5, <1>7, <2>1, <3>1
    <3> QED
      BY <1>4, <1>14, <2>3, <3>1, <3>3, <3>4 DEF Walking
  <2> QED
    BY <1>4, <2>2, <2>3 DEF Walking
<1>28. Dropping(c + 1)'
  <2> SUFFICES ASSUME task.pc = "drop" PROVE Dropping(c + 1)'
    BY <1>4 DEF Dropping
  <2>1. /\ R(task.to) > 0 /\ R(task.to) < c /\ desc[task.to].sof /\ task.to \in Slots
        /\ \A x \in Slots : R(x) < R(task.to) => desc[x].len = 0
    BY <1>1, <1>5 DEF Place, Dropping, Tasks
  <2>2. /\ task.to # i /\ R(task.to) < c + 1
        /\ \A x \in Slots : R(x) < R(task.to) => x # i
    BY <1>5, <1>7, <2>1
  <2> QED
    BY <1>4, <1>11, <1>14, <2>1, <2>2 DEF Dropping
<1>29. Reading(c + 1)'
  <2> SUFFICES ASSUME task.pc \in {"alloc", "read"} PROVE Reading(c + 1)'
    BY <1>4 DEF Reading
  <2>1. PICK e \in Slots : /\ R(e) < c /\ desc[e].len = task.len /\ task.len # 0
                           /\ \A x \in Slots : 0 < R(x) /\ R(x) <= R(e) => ~desc[x].sof
    BY <1>1 DEF Place, Reading
  <2>2. /\ e # i /\ R(e) < c + 1
        /\ \A x \in Slots : R(x) <= R(e) => x # i
    BY <1>5, <1>7, <2>1
  <2> QED
    BY <1>4, <1>11, <1>14, <2>1, <2>2 DEF Reading
<1>30. Copying'
  <2>1. task.pc = "read" => desc'[next] = desc[next]
    <3> SUFFICES ASSUME task.pc = "read" PROVE desc'[next] = desc[next]
      OBVIOUS
    <3>1. PICK e \in Slots : R(e) < c
      BY <1>1 DEF Place, Reading
    <3>2. R(next) = 0
      BY <1>5 DEF Behind
    <3>3. next # i
      BY <1>5, <1>7, <3>1, <3>2
    <3> QED
      BY <1>5, <1>11, <3>3
  <2>2. task.pc = "deliver" => line'[1] = line[1]
    <3>1. task.pc = "deliver" => 1 <= Len(line)
      BY <1>21 DEF Taken
    <3> QED
      BY <1>20, <3>1
  <2>3. task' = task /\ next' = next
    BY <1>4
  <2> QED
    BY <2>1, <2>2, <2>3 DEF IInv, Copying
<1>31. Types' /\ Pbufs'
  <2>1. irq' \in BOOLEAN
    BY <1>4
  <2> QED
    BY <1>4, <1>12, <1>13, <1>14, <1>20, <2>1 DEF IInv, Types, Pbufs
<1>32. NoSleepOnFrame'
  <2>1. last => irq'
    BY <1>4
  <2>2. ~last => line' = line /\ (irq' <=> irq)
    BY <1>4, <1>20
  <2> QED
    BY <1>4, <2>1, <2>2 DEF IInv, NoSleepOnFrame
<1>33. Ring(G, c + 1)' /\ Place(c + 1)'
  BY <1>16, <1>17, <1>18, <1>19, <1>25, <1>26, <1>27, <1>28, <1>29 DEF Ring, Place
<1> QED
  BY <1>30, <1>31, <1>32, <1>33 DEF IInv

LEMMA MacbHolds ==
  ASSUME IInv, FrameStarts \/ FrameGoesOn PROVE IInv'
<1>1. mac \in Macs
  BY DEF IInv, Types
<1>2. CASE FrameGoesOn
  <2>1. PICK F, c : ComesIn(c)
    BY DEF IInv, Ring
  <2>2. mac.id # 0 /\ mac.id \in Ids /\ mac.len \in Lengths
    BY <1>1, <1>2, <2>1 DEF FrameGoesOn, ComesIn, Macs
  <2> QED
    BY <1>1, <1>2, <2>2, ReceiveHolds DEF FrameGoesOn
<1>3. CASE FrameStarts
  <2>1. PICK n \in Lengths : Receive([mac EXCEPT !.id = 1 + mac.at + mac.lap * NbRx, !.len = n])
    BY <1>3 DEF FrameStarts
  <2>2. PICK id : id = 1 + mac.at + mac.lap * NbRx
    OBVIOUS
  <2>3. PICK frame : frame = [mac EXCEPT !.id = id, !.len = n]
    OBVIOUS
  <2>4. id \in Ids
    <3>1. mac.at \in Nat /\ mac.at < NbRx /\ mac.lap \in {0, 1} /\ NbRx \in Nat
      BY <1>1, SlotsNat DEF Macs
    <3>2. CASE mac.lap = 0
      BY <2>2, <3>1, <3>2 DEF Ids
    <3>3. CASE mac.lap = 1
      BY <2>2, <3>1, <3>3 DEF Ids
    <3> QED
      BY <3>1, <3>2, <3>3
  <2>5. /\ frame \in Macs /\ frame.at = mac.at /\ frame.lap = mac.lap
        /\ frame.id = id /\ frame.len = n /\ frame.got = mac.got
    BY <1>1, <2>3, <2>4 DEF Macs
  <2>6. PICK F, c : ComesIn(c)
    BY DEF IInv, Ring
  <2>7. mac.id = 0 /\ mac.got = 0
    BY <1>3, <2>6 DEF FrameStarts, ComesIn
  <2>8. Receive(frame)
    BY <2>1, <2>2, <2>3
  <2> QED
    BY <2>4, <2>5, <2>7, <2>8, ReceiveHolds
<1> QED
  BY <1>2, <1>3

-----------------------------------------------------------------------------
(* The task reads a frame, which ends in buffer e: it is the oldest in the *)
(* ring, and there is more of it than in the buffer at hand if and only if *)
(* that is not the last of its buffers.                                    *)
ReadAt(e) ==
  /\ task.len \in Lengths /\ task.len \in Nat \ {0}
  /\ Len(line) >= 1 /\ line[1] = desc[next].id
  /\ R(e) = 0 => desc[next].len # 0 /\ Read + InBuffer >= task.len
  /\ R(e) > 0 =>
       /\ desc[next].len = 0 /\ Read + InBuffer < task.len
       /\ \A x \in Slots : R(x) = 1 =>
            desc[x].id = desc[next].id /\ desc[x].part = desc[next].part + 1

LEMMA ReadFacts ==
  ASSUME Types, Copying, task.pc = "read", NEW F, NEW c, Ring(F, c),
         NEW e \in Slots, R(e) < c, desc[e].len = task.len, task.len # 0,
         \A x \in Slots : 0 < R(x) /\ R(x) <= R(e) => ~desc[x].sof
  PROVE  ReadAt(e)
<1>1. /\ Behind = next /\ next \in Slots /\ desc \in [Slots -> Buffers]
      /\ \A k \in Slots : R(k) \in Nat /\ R(k) < NbRx
      /\ \A k \in Slots : R(k) = 0 <=> k = next
      /\ \A k, l \in Slots : R(k) = R(l) => k = l
  BY BehindSlot DEF Behind, Types
<1>2. task.len \in Lengths /\ task.len \in Nat \ {0}
  BY RingAssumption DEF Types, Tasks
<1>3. c \in Nat /\ R(next) = 0 /\ 0 < c
  <2>1. c \in 0 .. NbRx
    BY DEF Ring, Owned
  <2> QED
    BY <1>1, <2>1, SlotsNat
<1>4. R(e) > 0 => /\ desc[e].id = desc[next].id /\ desc[next].len = 0
                  /\ desc[e].part = desc[next].part + R(e)
  <2> SUFFICES ASSUME R(e) > 0
               PROVE  /\ desc[e].id = desc[next].id /\ desc[next].len = 0
                      /\ desc[e].part = desc[next].part + R(e)
    OBVIOUS
  <2>1. NoStart(next, e)
    BY <1>3 DEF NoStart
  <2>2. /\ desc[e].id = desc[next].id /\ desc[next].len = 0
        /\ desc[e].part = desc[next].part + (R(e) - R(next))
    BY <1>1, <1>3, <2>1 DEF Ring, Joined
  <2> QED
    BY <1>1, <1>3, <2>2
<1>5. R(e) = 0 => e = next
  BY <1>1
<1>6. desc[e].part + 1 = Needed(task.len, BufferSize)
  BY DEF Ring, Parts
<1>7. F[e] = 1 /\ Len(line) >= 1
  <2>1. F \in [Slots -> Nat] /\ Taken = 0
    BY DEF Ring, Lines, Taken
  <2>2. F[e] > 0 /\ F[e] <= Len(line) /\ F[e] \in Nat
    BY <2>1 DEF Ring, Lines
  <2>3. Len(line) \in Nat
    BY DEF Types
  <2>4. Len(line) >= 1 /\ 1 \in 0 + 1 .. Len(line)
    BY <2>2, <2>3
  <2>5. PICK k \in Slots : R(k) < c /\ desc[k].len # 0 /\ F[k] = 1
    BY <2>1, <2>4 DEF Ring, Lines
  <2>6. ~(R(k) < R(e))
    <3> SUFFICES ASSUME R(k) < R(e) PROVE FALSE
      OBVIOUS
    <3>1. NoStart(k, e)
      <4> SUFFICES ASSUME NEW x \in Slots, R(k) < R(x), R(x) <= R(e) PROVE ~desc[x].sof
        BY DEF NoStart
      <4>1. 0 < R(x)
        BY <1>1
      <4> QED
        BY <4>1
    <3> QED
      BY <2>5, <3>1 DEF Ring, Joined
  <2>7. ~(R(e) < R(k))
    <3> SUFFICES ASSUME R(e) < R(k) PROVE FALSE
      OBVIOUS
    <3>1. F[e] < F[k]
      BY <2>5 DEF Ring, Lines
    <3> QED
      BY <2>2, <2>5, <3>1
  <2>8. k = e
    BY <1>1, <2>6, <2>7
  <2> QED
    BY <2>4, <2>5, <2>8
<1>8. line[1] = desc[next].id
  <2>1. line[F[e]] = desc[e].id
    BY DEF Ring, Lines
  <2> QED
    BY <1>1, <1>4, <1>5, <1>7, <2>1
<1>9. PICK p \in Nat, s \in Nat \ {0}, pos \in Nat :
        p = desc[next].part /\ s = BufferSize /\ pos = task.pos
  <2>1. desc[next].part \in Nat
    BY <1>1 DEF Buffers
  <2>2. task.pos \in Nat
    BY DEF Types, Tasks
  <2>3. BufferSize \in Nat \ {0}
    BY RingAssumption
  <2> QED
    BY <2>1, <2>2, <2>3
<1>10. PICK r \in Nat : r = R(e)
  BY <1>1
<1>11. (p + r + 1) * s >= task.len /\ (p + r) * s < task.len
  <2>1. desc[e].part = p + r
    BY <1>1, <1>4, <1>5, <1>9, <1>10
  <2>2. PICK q \in Nat \ {0} : q = Needed(task.len, BufferSize)
    BY <1>2, <1>9, NeededIs
  <2>3. q * s >= task.len /\ (q - 1) * s < task.len
    BY <1>2, <1>9, <2>2, NeededIs
  <2>4. q = p + r + 1 /\ q - 1 = p + r
    BY <1>6, <1>9, <1>10, <2>1, <2>2
  <2> QED
    BY <2>3, <2>4
<1>12. Read + InBuffer = (p + 1) * s
  <2>1. Read = p * s + pos
    BY <1>9 DEF Copying, Read
  <2>2. InBuffer = s - pos
    BY <1>9 DEF InBuffer
  <2>3. PICK m \in Nat : m = p * s
    BY <1>9
  <2>4. (p + 1) * s = p * s + s
    BY <1>9
  <2>5. Read + InBuffer = (m + pos) + (s - pos)
    BY <2>1, <2>2, <2>3
  <2>6. (m + pos) + (s - pos) = m + s
    BY <1>9, <2>3
  <2> QED
    BY <2>3, <2>4, <2>5, <2>6
<1>13. R(e) = 0 => desc[next].len # 0 /\ Read + InBuffer >= task.len
  <2>1. r = 0 => p + r + 1 = p + 1
    BY <1>9
  <2> QED
    BY <1>5, <1>10, <1>11, <1>12, <2>1
<1>14. R(e) > 0 => Read + InBuffer < task.len
  <2> SUFFICES ASSUME r > 0 PROVE (p + 1) * s < task.len
    BY <1>10, <1>12
  <2>1. PICK a \in Nat : a = r - 1
    BY <1>10
  <2>2. p + r = (p + 1) + a
    BY <1>9, <1>10, <2>1
  <2>3. ((p + 1) + a) * s = (p + 1) * s + a * s
    BY <1>9, <2>1
  <2>4. (p + 1) * s \in Int /\ a * s \in Int /\ a * s >= 0
    BY <1>9, <2>1
  <2> QED
    BY <1>2, <1>11, <2>2, <2>3, <2>4
<1>15. ASSUME R(e) > 0, NEW x \in Slots, R(x) = 1
       PROVE  desc[x].id = desc[next].id /\ desc[x].part = desc[next].part + 1
  <2>1. R(next) < R(x) /\ R(x) < c /\ R(x) - R(next) = 1 /\ R(x) <= R(e)
    BY <1>1, <1>3, <1>15
  <2>2. NoStart(next, x)
    <3> SUFFICES ASSUME NEW y \in Slots, R(next) < R(y), R(y) <= R(x) PROVE ~desc[y].sof
      BY DEF NoStart
    <3>1. 0 < R(y) /\ R(y) <= R(e)
      BY <1>1, <1>3, <2>1
    <3> QED
      BY <3>1
  <2> QED
    BY <1>1, <2>1, <2>2 DEF Ring, Joined
<1> QED
  BY <1>2, <1>4, <1>7, <1>8, <1>13, <1>14, <1>15 DEF ReadAt

(* What is copied at a time, and what the task knows afterwards. *)
LEMMA SectionFacts ==
  ASSUME Types, Copying, task.pc = "read", task.len \in Nat
  PROVE  /\ InSection \in Nat \ {0} /\ InBuffer \in Nat \ {0} /\ Read \in Nat
         /\ Read + InSection <= task.len
         /\ \A n \in Nat \ {0} : n <= InSection =>
              SectionAfter(n) \in Nat /\ SectionAfter(n) < PbufSize
<1>1. task.data \in Seq((Ids \cup {0}) \X Nat) /\ task.pos \in Nat /\ task.section \in Nat
  BY DEF Types, Tasks
<1>2. Read \in Nat
  BY <1>1 DEF Read
<1>3. Read < task.len /\ task.pos < BufferSize /\ task.section < PbufSize
  BY DEF Copying, Read
<1>4. BufferSize \in Nat \ {0} /\ PbufSize \in Nat \ {0}
  BY RingAssumption
<1>5. PICK t \in Nat : t = task.section
  BY <1>1
<1>6. PICK k \in Nat :
        /\ k = IF task.len - Read + t < PbufSize THEN task.len - Read + t ELSE PbufSize
  BY <1>2, <1>3, <1>4, <1>5
<1>7. InSection = k - t
  BY <1>5, <1>6 DEF InSection
<1>8. k - t > 0 /\ Read + (k - t) <= task.len /\ k <= PbufSize
  BY <1>2, <1>3, <1>4, <1>5, <1>6
<1>9. InBuffer \in Nat \ {0}
  BY <1>1, <1>3, <1>4 DEF InBuffer
<1>10. ASSUME NEW n \in Nat \ {0}, n <= InSection
       PROVE  SectionAfter(n) \in Nat /\ SectionAfter(n) < PbufSize
  <2>1. SectionAfter(n) = IF n = k - t THEN 0 ELSE t + n
    BY <1>5, <1>7 DEF SectionAfter
  <2> QED
    BY <1>4, <1>5, <1>6, <1>7, <1>8, <1>10, <2>1
<1> QED
  BY <1>2, <1>6, <1>7, <1>8, <1>9, <1>10

(* The data then: n units more, of the same frame, and in order. *)
LEMMA CopiedFacts ==
  ASSUME Types, Copying, task.pc = "read", NEW n \in Nat \ {0}
  PROVE  /\ Copied(n) \in Seq((Ids \cup {0}) \X Nat)
         /\ Len(Copied(n)) = Read + n
         /\ \A k \in 1 .. Read + n : Copied(n)[k] = <<desc[next].id, k>>
<1>1. PICK id, p : id = desc[next].id /\ p = desc[next].part * BufferSize + task.pos
  OBVIOUS
<1>2. /\ task.data \in Seq((Ids \cup {0}) \X Nat) /\ Len(task.data) \in Nat
      /\ id \in Ids \cup {0}
  <2>1. task.data \in Seq((Ids \cup {0}) \X Nat)
    BY DEF Types, Tasks
  <2>2. id \in Ids \cup {0}
    BY <1>1 DEF Types, Buffers
  <2> QED
    BY <2>1, <2>2
<1>3. p = Len(task.data) /\ p = Read /\ p \in Nat
  BY <1>1, <1>2 DEF Copying, Read
<1>4. PICK t : t = [k \in 1 .. n |-> <<id, p + k>>]
  OBVIOUS
<1>5. t \in Seq((Ids \cup {0}) \X Nat) /\ Len(t) = n
  <2>1. \A k \in 1 .. n : <<id, p + k>> \in (Ids \cup {0}) \X Nat
    BY <1>2, <1>3
  <2> QED
    BY <1>4, <2>1
<1>6. Copied(n) = task.data \o t
  BY <1>1, <1>4 DEF Copied
<1>7. /\ Copied(n) \in Seq((Ids \cup {0}) \X Nat) /\ Len(Copied(n)) = p + n
      /\ \A k \in 1 .. p : Copied(n)[k] = task.data[k]
      /\ \A k \in 1 .. n : Copied(n)[p + k] = t[k]
  <2>1. PICK S : S = (Ids \cup {0}) \X Nat
    OBVIOUS
  <2>2. PICK u : u = task.data
    OBVIOUS
  <2>3. u \in Seq(S) /\ t \in Seq(S) /\ Len(u) = p /\ Len(t) = n /\ Copied(n) = u \o t
    BY <1>2, <1>3, <1>5, <1>6, <2>1, <2>2
  <2>4. /\ u \o t \in Seq(S) /\ Len(u \o t) = Len(u) + Len(t)
        /\ \A k \in 1 .. Len(u) : (u \o t)[k] = u[k]
        /\ \A k \in 1 .. Len(t) : (u \o t)[Len(u) + k] = t[k]
    <3>1. u \in Seq(S) /\ t \in Seq(S)
      BY <2>3
    <3> HIDE <2>1, <2>2, <2>3
    <3> QED
      BY <3>1
  <2> QED
    BY <2>1, <2>2, <2>3, <2>4
<1>9. ASSUME NEW k \in 1 .. p + n PROVE Copied(n)[k] = <<id, k>>
  <2>1. CASE k <= p
    <3>1. Copied(n)[k] = task.data[k]
      BY <1>3, <1>7, <2>1
    <3>2. k \in 1 .. Len(task.data)
      BY <1>3, <2>1
    <3> QED
      BY <1>1, <3>1, <3>2 DEF Copying
  <2>2. CASE k > p
    <3>1. PICK j \in 1 .. n : j = k - p
      BY <1>3, <2>2
    <3>3. p + j = k
      BY <1>3, <3>1
    <3>2. Copied(n)[k] = t[j]
      BY <1>7, <3>3
    <3> QED
      BY <1>4, <3>1, <3>2, <3>3
  <2> QED
    BY <1>3, <2>1, <2>2
<1> QED
  BY <1>1, <1>3, <1>7, <1>9

(* A pbuf is full, and there is more in the buffer. *)
LEMMA SectionHolds ==
  ASSUME IInv, task.pc = "read", NEW n \in Nat \ {0}, n <= InSection,
         task.pos + n < BufferSize, Read + n < task.len,
         SectionDone(n), UNCHANGED Quiet
  PROVE  IInv'
<1>1. PICK F, c : Ring(F, c) /\ Place(c)
  BY DEF IInv
<1>2. PICK e \in Slots : /\ R(e) < c /\ desc[e].len = task.len /\ task.len # 0
                         /\ \A x \in Slots : 0 < R(x) /\ R(x) <= R(e) => ~desc[x].sof
  BY <1>1 DEF Place, Reading
<1>3. task.len \in Nat \ {0} /\ task \in Tasks /\ task.pos \in Nat /\ BufferSize \in Nat \ {0}
  BY <1>2, RingAssumption DEF IInv, Types, Tasks
<1>4. PICK data, section, pos :
        data = Copied(n) /\ section = SectionAfter(n) /\ pos = task.pos + n
  OBVIOUS
<1>5. /\ data \in Seq((Ids \cup {0}) \X Nat) /\ Len(data) = Read + n
      /\ \A k \in 1 .. Read + n : data[k] = <<desc[next].id, k>>
  BY <1>4, CopiedFacts DEF IInv
<1>6. section \in Nat /\ section < PbufSize /\ Read \in Nat
  BY <1>3, <1>4, SectionFacts DEF IInv
<1>7. task' = [task EXCEPT !.pc = "read", !.data = data, !.section = section, !.pos = pos]
  <2>1. PcAfter(n) = "read"
    BY <1>3, <1>6 DEF PcAfter
  <2> QED
    BY <1>3, <1>4, <2>1 DEF SectionDone, Tasks
<1>8. /\ task'.pc = "read" /\ task'.len = task.len /\ task'.data = data
      /\ task'.section = section /\ task'.pos = pos
      /\ UNCHANGED <<desc, next, mac, bna, irq, sem, held, line>>
  BY <1>3, <1>7 DEF SectionDone, Quiet, Tasks
<1>9. Behind' = Behind /\ Taken' = Taken /\ Chain' = Chain
  BY <1>8 DEF Behind, Taken, Chain
<1>10. Ring(F, c)' /\ \A k : R(k)' = R(k)
  BY <1>1, <1>8, <1>9, SameRing
<1>11. Place(c)'
  BY <1>2, <1>8, <1>10 DEF Place, Starts, Walking, Dropping, Reading
<1>12. Types' /\ Pbufs'
  <2>1. pos \in Nat /\ "read" \in Labels
    BY <1>3, <1>4 DEF Labels
  <2>2. task' \in Tasks
    BY <1>3, <1>5, <1>6, <1>7, <2>1 DEF Tasks
  <2> QED
    BY <1>8, <1>9, <2>2 DEF IInv, Types, Pbufs
<1>13. Copying'
  <2>1. Len(data) < task.len
    BY <1>5
  <2>2. Len(data) = desc[next].part * BufferSize + pos
    <3>1. Read = desc[next].part * BufferSize + task.pos
      BY DEF IInv, Copying, Read
    <3>2. PICK m \in Int : m = desc[next].part * BufferSize
      <4>1. desc[next].part \in Nat
        BY DEF IInv, Types, Buffers
      <4> QED
        BY <1>3, <4>1
    <3> QED
      BY <1>3, <1>4, <1>5, <3>1, <3>2
  <2>3. \A k \in 1 .. Len(data) : data[k] = <<desc[next].id, k>>
    BY <1>5
  <2>4. pos < BufferSize
    BY <1>4
  <2> QED
    BY <1>6, <1>8, <2>1, <2>2, <2>3, <2>4 DEF Copying
<1>14. NoSleepOnFrame'
  BY <1>8 DEF NoSleepOnFrame
<1> QED
  BY <1>10, <1>11, <1>12, <1>13, <1>14 DEF IInv

(* A buffer is used up, and given back. *)
LEMMA BufferHolds ==
  ASSUME IInv, task.pc = "read", NEW n \in Nat \ {0}, n <= InSection, n <= InBuffer,
         Read + n = task.len \/ (Read + n < task.len /\ n = InBuffer),
         BufferDone(n), UNCHANGED Quiet
  PROVE  IInv'
<1>1. PICK F, c : Ring(F, c) /\ Place(c)
  BY DEF IInv
<1>2. PICK e \in Slots : /\ R(e) < c /\ desc[e].len = task.len /\ task.len # 0
                         /\ \A x \in Slots : 0 < R(x) /\ R(x) <= R(e) => ~desc[x].sof
  BY <1>1 DEF Place, Reading
<1>3. ReadAt(e)
  BY <1>1, <1>2, ReadFacts DEF IInv
<1>4. /\ task.len \in Nat \ {0} /\ task.len \in Lengths /\ task \in Tasks
      /\ task.pos \in Nat /\ BufferSize \in Nat \ {0}
  BY <1>3, RingAssumption DEF ReadAt, IInv, Types, Tasks
<1>5. PICK b : b = next
  OBVIOUS
<1>6. /\ Behind = b /\ b \in Slots /\ desc \in [Slots -> Buffers]
      /\ \A k \in Slots : R(k) \in Nat /\ R(k) < NbRx
      /\ \A k \in Slots : R(k) = 0 <=> k = b
      /\ \A k, l \in Slots : R(k) = R(l) => k = l
  BY <1>5, BehindSlot DEF Behind, IInv, Types
<1>7. NbRx \in Nat /\ NbRx >= 2 /\ c \in Nat /\ c <= NbRx /\ c > 0
  <2>1. c \in 0 .. NbRx
    BY <1>1 DEF Ring, Owned
  <2> QED
    BY <1>2, <1>6, <2>1, SlotsNat
<1>8. After(b) \in Slots /\ R(After(b)) = 1
  <2>1. R(After(b)) = IF R(b) = NbRx - 1 THEN 0 ELSE R(b) + 1
    BY <1>6, OffSlot DEF R
  <2> QED
    BY <1>6, <1>7, <2>1, AfterValue
<1>9. PICK data, section : data = Copied(n) /\ section = SectionAfter(n)
  OBVIOUS
<1>10. /\ data \in Seq((Ids \cup {0}) \X Nat) /\ Len(data) = Read + n
       /\ \A k \in 1 .. Read + n : data[k] = <<desc[b].id, k>>
  BY <1>5, <1>9, CopiedFacts DEF IInv
<1>11. section \in Nat /\ section < PbufSize /\ Read \in Nat /\ InBuffer \in Nat \ {0}
  BY <1>4, <1>9, SectionFacts DEF IInv
<1>12. PICK pc : pc = PcAfter(n)
  OBVIOUS
<1>13. task' = [task EXCEPT !.pc = pc, !.data = data, !.section = section, !.pos = 0]
  BY <1>9, <1>12 DEF BufferDone
<1>14. /\ task'.pc = pc /\ task'.len = task.len /\ task'.data = data
       /\ task'.section = section /\ task'.pos = 0
       /\ desc' = Freed(b) /\ next' = After(b)
       /\ UNCHANGED <<mac, bna, irq, sem, held, line>>
  BY <1>4, <1>5, <1>13 DEF BufferDone, Quiet, Tasks
<1>15. pc = IF Read + n = task.len THEN "deliver" ELSE "read"
  BY <1>12 DEF PcAfter
<1>16. Behind' = After(b) /\ Chain' = Chain /\ Taken = 0
  BY <1>14, <1>15 DEF Behind, Chain, Taken
<1>17. mac.id # 0 => c > 1
  <2> SUFFICES ASSUME mac.id # 0, c = 1 PROVE FALSE
    BY <1>7
  <2>1. R(e) = 0 /\ R(e) + 1 = c
    BY <1>2, <1>6
  <2> QED
    BY <1>1, <1>2, <2>1 DEF Ring, ComesIn
<1>18. ASSUME \/ desc[b].len = 0 /\ Taken' = Taken
              \/ desc[b].len # 0 /\ Taken' = 1
       PROVE  /\ Ring(F, c - 1)'
              /\ \A k \in Slots : R(k)' = IF R(k) > 0 THEN R(k) - 1 ELSE NbRx - 1
              /\ \A k \in Slots : k # b => desc'[k] = desc[k]
              /\ desc' \in [Slots -> Buffers]
  <2>1. /\ UNCHANGED <<mac, line>> /\ desc' = Freed(Behind) /\ Behind' = After(Behind)
        /\ Types
    BY <1>6, <1>14, <1>16 DEF IInv
  <2> QED
    BY <1>1, <1>6, <1>7, <1>16, <1>17, <1>18, <2>1, FreeHolds
<1>19. Pbufs' /\ NoSleepOnFrame'
  BY <1>14, <1>15, <1>16 DEF IInv, Pbufs, NoSleepOnFrame
<1>20. task' \in Tasks /\ next' \in Slots
  <2>1. pc \in Labels
    BY <1>15 DEF Labels
  <2> QED
    BY <1>4, <1>8, <1>10, <1>11, <1>13, <1>14, <2>1 DEF Tasks
<1>21. CASE Read + n = task.len
  <2>1. R(e) = 0
    <3> SUFFICES ASSUME R(e) > 0 PROVE FALSE
      BY <1>6
    <3>1. Read + InBuffer < task.len
      BY <1>3 DEF ReadAt
    <3> QED
      BY <1>4, <1>11, <1>21, <3>1
  <2>2. /\ e = b /\ desc[b].len # 0 /\ Len(line) >= 1 /\ line[1] = desc[b].id
        /\ pc = "deliver" /\ Taken' = 1
    BY <1>3, <1>5, <1>6, <1>14, <1>15, <1>21, <2>1 DEF ReadAt, Taken
  <2>3. /\ Ring(F, c - 1)'
        /\ \A k \in Slots : R(k)' = IF R(k) > 0 THEN R(k) - 1 ELSE NbRx - 1
        /\ \A k \in Slots : k # b => desc'[k] = desc[k]
        /\ desc' \in [Slots -> Buffers]
    BY <1>18, <2>2
  <2>4. Starts(c - 1)'
    <3> SUFFICES ASSUME c - 1 > 0, NEW k \in Slots, R(k)' = 0 PROVE desc'[k].sof
      BY DEF Starts
    <3>1. R(k) = 1 /\ k # b
      BY <1>6, <1>7, <2>3
    <3>2. R(b) < R(k) /\ R(k) < c
      BY <1>6, <1>7, <3>1
    <3>3. ~NoStart(b, k)
      BY <1>1, <1>6, <2>2, <3>2 DEF Ring, Joined
    <3>4. PICK x \in Slots : R(b) < R(x) /\ R(x) <= R(k) /\ desc[x].sof
      BY <3>3 DEF NoStart
    <3>5. R(x) = R(k)
      BY <1>6, <3>1, <3>4
    <3>6. x = k
      BY <1>6, <3>5
    <3> QED
      BY <2>3, <3>1, <3>4, <3>6
  <2>5. Place(c - 1)'
    BY <1>14, <2>2, <2>4 DEF Place, Walking, Dropping, Reading
  <2>6. Copying'
    <3>1. Len(data) = task.len /\ \A k \in 1 .. Len(data) : data[k] = <<line[1], k>>
      BY <1>10, <1>21, <2>2
    <3>2. 0 < BufferSize
      BY <1>4
    <3> QED
      BY <1>2, <1>11, <1>14, <2>2, <3>1, <3>2 DEF Copying
  <2>7. Types'
    BY <1>14, <1>20, <2>3 DEF IInv, Types
  <2> QED
    BY <1>19, <2>3, <2>5, <2>6, <2>7 DEF IInv
<1>22. CASE Read + n # task.len
  <2>1. Read + n < task.len /\ n = InBuffer
    BY <1>22
  <2>2. R(e) > 0
    <3> SUFFICES ASSUME R(e) = 0 PROVE FALSE
      BY <1>6
    <3>1. Read + InBuffer >= task.len
      BY <1>3 DEF ReadAt
    <3> QED
      BY <1>4, <1>11, <2>1, <3>1
  <2>3. PICK a \in Slots : a = After(b) /\ R(a) = 1
    BY <1>8
  <2>4. /\ desc[b].len = 0 /\ desc[a].id = desc[b].id /\ desc[a].part = desc[b].part + 1
        /\ pc = "read" /\ Taken' = 0
    BY <1>3, <1>5, <1>14, <1>15, <1>22, <2>2, <2>3 DEF ReadAt, Taken
  <2>5. /\ Ring(F, c - 1)'
        /\ \A k \in Slots : R(k)' = IF R(k) > 0 THEN R(k) - 1 ELSE NbRx - 1
        /\ \A k \in Slots : k # b => desc'[k] = desc[k]
        /\ desc' \in [Slots -> Buffers]
    BY <1>16, <1>18, <2>4
  <2>6. a # b /\ desc'[a] = desc[a] /\ e # b /\ desc'[e] = desc[e]
    <3>1. a # b /\ e # b
      BY <1>6, <2>2, <2>3
    <3> QED
      BY <2>5, <3>1
  <2>7. Reading(c - 1)'
    <3>1. R(e)' = R(e) - 1
      BY <1>6, <2>2, <2>5
    <3>2. R(e)' < c - 1
      BY <1>2, <1>6, <1>7, <3>1
    <3>3. ASSUME NEW x \in Slots, 0 < R(x)', R(x)' <= R(e)' PROVE ~desc'[x].sof
      <4>1. R(x) > 0
        BY <1>6, <1>7, <2>5, <3>1, <3>3
      <4>2. R(x) <= R(e) /\ x # b
        BY <1>6, <2>5, <3>1, <3>3, <4>1
      <4> QED
        BY <1>2, <2>5, <4>1, <4>2
    <3> QED
      BY <1>2, <1>14, <2>6, <3>2, <3>3 DEF Reading
  <2>8. Place(c - 1)'
    BY <1>14, <2>4, <2>7 DEF Place, Starts, Walking, Dropping
  <2>9. Copying'
    <3>1. Len(data) < task.len
      BY <1>10, <2>1
    <3>2. Len(data) = desc[a].part * BufferSize + 0
      <4>1. PICK p \in Nat, s \in Nat : p = desc[b].part /\ s = BufferSize
        <5>1. desc[b].part \in Nat
          BY <1>6 DEF Buffers
        <5> QED
          BY <1>4, <5>1
      <4>2. Read = p * s + task.pos
        BY <1>5, <4>1 DEF IInv, Copying, Read
      <4>3. PICK m \in Nat : m = p * s
        BY <4>1
      <4>4. (p + 1) * s = p * s + s
        BY <4>1
      <4>5. Read + n = (m + task.pos) + (s - task.pos)
        BY <2>1, <4>1, <4>2, <4>3 DEF InBuffer
      <4>6. (m + task.pos) + (s - task.pos) = m + s
        BY <1>4, <4>1, <4>3
      <4>7. Len(data) = (p + 1) * s + 0
        BY <1>10, <4>1, <4>3, <4>4, <4>5, <4>6
      <4> QED
        BY <2>4, <4>1, <4>7
    <3>3. \A k \in 1 .. Len(data) : data[k] = <<desc[a].id, k>>
      BY <1>10, <2>4
    <3>4. next' = a /\ 0 < BufferSize
      BY <1>4, <1>14, <2>3
    <3> QED
      BY <1>11, <1>14, <2>4, <2>6, <3>1, <3>2, <3>3, <3>4 DEF Copying
  <2>10. Types'
    BY <1>14, <1>20, <2>5 DEF IInv, Types
  <2> QED
    BY <1>19, <2>5, <2>8, <2>9, <2>10 DEF IInv
<1> QED
  BY <1>21, <1>22

LEMMA ReadHolds ==
  ASSUME IInv, MacbRead PROVE IInv'
<1>1. task.pc = "read" /\ UNCHANGED Quiet
  BY DEF MacbRead
<1>2. task.len \in Nat /\ task.pos \in Nat /\ BufferSize \in Nat \ {0}
  <2>1. task.len \in Lengths \cup {0} /\ task.pos \in Nat
    BY DEF IInv, Types, Tasks
  <2>2. BufferSize \in Nat \ {0} /\ \A n \in Lengths \cup {0} : n \in Nat
    BY RingAssumption
  <2>3. task.len \in Nat
    BY <2>1, <2>2
  <2> QED
    BY <2>1, <2>2, <2>3
<1>3. PICK sec, room : sec = InSection /\ room = InBuffer
  OBVIOUS
<1>4. /\ sec \in Nat \ {0} /\ room \in Nat \ {0} /\ Read \in Nat
      /\ Read + sec <= task.len /\ room = BufferSize - task.pos
  BY <1>1, <1>2, <1>3, SectionFacts DEF IInv, InBuffer
<1>5. CASE sec > room
  <2>1. BufferDone(room)
    BY <1>3, <1>5 DEF MacbRead
  <2>2. room <= sec /\ room <= room /\ Read + room < task.len
    BY <1>2, <1>4, <1>5
  <2> QED
    BY <1>1, <1>3, <1>4, <2>1, <2>2, BufferHolds
<1>6. CASE sec <= room /\ (task.pos + sec >= BufferSize \/ Read + sec >= task.len)
  <2>1. BufferDone(sec)
    BY <1>3, <1>4, <1>6 DEF MacbRead
  <2>2. sec <= sec /\ (Read + sec = task.len \/ (Read + sec < task.len /\ sec = room))
    BY <1>2, <1>4, <1>6
  <2> QED
    BY <1>1, <1>3, <1>4, <1>6, <2>1, <2>2, BufferHolds
<1>7. CASE sec <= room /\ ~(task.pos + sec >= BufferSize \/ Read + sec >= task.len)
  <2>1. SectionDone(sec)
    BY <1>3, <1>4, <1>7 DEF MacbRead
  <2>2. sec <= sec /\ task.pos + sec < BufferSize /\ Read + sec < task.len
    BY <1>2, <1>4, <1>7
  <2> QED
    BY <1>1, <1>3, <1>4, <2>1, <2>2, SectionHolds
<1> QED
  BY <1>4, <1>5, <1>6, <1>7

-----------------------------------------------------------------------------
LEMMA NextHolds ==
  ASSUME IInv, [Next]_vars PROVE IInv'
<1>1. CASE Macb
  BY <1>1, MacbHolds, SilentHolds DEF Macb
<1>2. CASE InputTask
  BY <1>2, ResetHolds, InputHolds, SkipHolds, WalkHolds, PeekHolds, DropHolds,
     AllocateHolds, ReadHolds, DeliverHolds
     DEF InputTask
<1>3. CASE Interrupt \/ StackFrees \/ UNCHANGED vars
  BY <1>3, OthersHold
<1>4. CASE Woken \/ TimedOut
  BY <1>4, InputHolds
<1> QED
  BY <1>1, <1>2, <1>3, <1>4 DEF Next

LEMMA InvariantHolds == Spec => []IInv
BY InitHolds, NextHolds, PTL DEF Spec

(* The variables keep their types, and low_level_input never allocates     *)
(* more pbufs than the pool has (ethernetif.c:233-300).                    *)
THEOREM ReceiveTyped == Spec => []TypeOK
BY InvariantHolds, TypeFromInvariant, PTL

(* What the input task hands to the stack is the oldest frame in the ring, *)
(* all of it and nothing else, for buffers and pbufs of any two sizes, and *)
(* whatever broke off on the line before it (macb.c:304-477,               *)
(* ethernetif.c:253-286).                                                  *)
THEOREM DeliversOldestWhole == Spec => []FrameWhole
BY InvariantHolds, WholeFromInvariant, PTL

(* Software and MACB agree which buffers are whose, also after a reset of  *)
(* the ring, and where the software looks for a frame one begins: the loop *)
(* at macb.c:324-335 has nothing to skip, in a ring of any size.           *)
THEOREM RingStaysInStep == Spec => []RingAgrees
BY InvariantHolds, AgreesFromInvariant, PTL

(* The task waits on a whole frame only when an interrupt or its semaphore *)
(* is about to wake it, or no pbuf was free for the frame                  *)
(* (macb.c:304-371, 883, 968-981).                                         *)
THEOREM WakeUpNotLost == Spec => []NoSleepOnFrame
<1>1. IInv => NoSleepOnFrame
  BY DEF IInv
<1> QED
  BY <1>1, InvariantHolds, PTL
=============================================================================
