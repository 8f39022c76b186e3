------------------------ MODULE MacbTransmit_proofs ------------------------
(***************************************************************************)
(* Proofs about MacbTransmit, for a ring and buffers of any size and any   *)
(* packets, if the interrupt of a frame is served before the MACB finishes *)
(* the next one.                                                           *)
(***************************************************************************)
EXTENDS MacbTransmit, FiniteSetTheorems, WellFoundedInduction, TLAPS

Prompt == "late" \notin Faults

-----------------------------------------------------------------------------
(* A set of naturals has a least element. *)
LEMMA Least ==
  ASSUME NEW T, T \subseteq Nat, T # {}
  PROVE  \E m \in T : \A n \in T : ~(n < m)
<1>1. OpToRel(<, Nat) = {ss \in Nat \X Nat : ss[1] < ss[2]}
  BY Zenon DEF OpToRel
<1>2. PICK R : R = {ss \in Nat \X Nat : ss[1] < ss[2]}
  OBVIOUS
<1>3. IsWellFoundedOn(R, Nat)
  BY <1>1, <1>2, NatLessThanWellFounded, Zenon
<1>4. \A x, y \in Nat : <<x, y>> \in R <=> x < y
  BY <1>2
<1>5. PICK m \in T : \A n \in T : ~(<<n, m>> \in R)
  BY <1>3, WFMin
<1>6. \A n \in T : ~(n < m)
  BY <1>4, <1>5
<1> QED
  BY <1>6

(* A sequence without its first element. *)
LEMMA Rest ==
  ASSUME NEW S, NEW s \in Seq(S), s # << >>
  PROVE  LET r == SubSeq(s, 2, Len(s)) IN
           /\ Len(s) \in Nat /\ Len(s) >= 1 /\ Head(s) = s[1]
           /\ r \in Seq(S) /\ Len(r) = Len(s) - 1
           /\ \A i \in 1 .. Len(r) : i + 1 \in 1 .. Len(s) /\ r[i] = s[i + 1]
<1>1. Len(s) \in Nat /\ Len(s) >= 1 /\ Head(s) = s[1]
  OBVIOUS
<1>2. Tail(s) = SubSeq(s, 2, Len(s))
  OBVIOUS
<1>3. /\ Tail(s) \in Seq(S) /\ Len(Tail(s)) = Len(s) - 1
      /\ \A i \in 1 .. Len(Tail(s)) : Tail(s)[i] = s[i + 1]
  BY <1>1
<1> QED
  BY <1>1, <1>2, <1>3

(* How far slot k is from slot i, around the ring. *)
Off(i, k) == (k - i) % NbTx

LEMMA OffValue ==
  ASSUME NEW i \in Slots, NEW k \in Slots
  PROVE  Off(i, k) = (IF i <= k THEN k - i ELSE k - i + NbTx) /\ Off(i, k) \in Slots
<1>1. NbTx \in Nat \ {0} /\ i \in 0 .. NbTx - 1 /\ k \in 0 .. NbTx - 1
  BY MacbTransmitAssumption DEF Slots
<1>2. CASE i <= k
  <2>1. 0 <= k - i /\ k - i < NbTx /\ k - i \in Int
    BY <1>1, <1>2
  <2> QED
    BY <1>1, <1>2, <2>1 DEF Off, Slots
<1>3. CASE ~(i <= k)
  <2>1. 0 - NbTx <= k - i /\ k - i < 0 /\ k - i \in Int
    BY <1>1, <1>3
  <2>2. (k - i) % NbTx = k - i + NbTx
    BY <1>1, <2>1
  <2> QED
    BY <1>1, <1>3, <2>1, <2>2 DEF Off, Slots
<1> QED
  BY <1>2, <1>3

LEMMA AfterValue ==
  ASSUME NEW i \in Slots
  PROVE  After(i) = (IF i = NbTx - 1 THEN 0 ELSE i + 1) /\ After(i) \in Slots
<1>1. NbTx \in Nat \ {0} /\ i \in 0 .. NbTx - 1
  BY MacbTransmitAssumption DEF Slots
<1>2. CASE i = NbTx - 1
  <2>1. (i + 1) % NbTx = 0
    BY <1>1, <1>2
  <2> QED
    BY <1>1, <1>2, <2>1 DEF After, Slots
<1>3. CASE i # NbTx - 1
  <2>1. 0 <= i + 1 /\ i + 1 < NbTx /\ i + 1 \in Int
    BY <1>1, <1>3
  <2>2. (i + 1) % NbTx = i + 1
    BY <1>1, <2>1
  <2> QED
    BY <1>1, <1>3, <2>1, <2>2 DEF After, Slots
<1> QED
  BY <1>2, <1>3

LEMMA SlotsNat ==
  /\ NbTx \in Nat \ {0} /\ 0 \in Slots
  /\ \A i \in Slots : i \in Nat /\ i < NbTx
BY MacbTransmitAssumption DEF Slots

(* The offset tells the slot; the next slot has the next offset. *)
LEMMA OffSlot ==
  ASSUME NEW i \in Slots, NEW k \in Slots, NEW l \in Slots
  PROVE  /\ Off(i, k) = Off(i, l) => k = l
         /\ Off(i, k) = 0 <=> k = i
         /\ Off(i, After(k)) = IF Off(i, k) = NbTx - 1 THEN 0 ELSE Off(i, k) + 1
<1>1. /\ Off(i, k) = (IF i <= k THEN k - i ELSE k - i + NbTx)
      /\ Off(i, l) = (IF i <= l THEN l - i ELSE l - i + NbTx)
  BY OffValue
<1>2. /\ After(k) = (IF k = NbTx - 1 THEN 0 ELSE k + 1) /\ After(k) \in Slots
  BY AfterValue
<1>3. Off(i, After(k)) = (IF i <= After(k) THEN After(k) - i ELSE After(k) - i + NbTx)
  BY <1>2, OffValue
<1> QED
  BY <1>1, <1>2, <1>3, SlotsNat

(* Offsets from the slot after j, from those from i. *)
LEMMA OffShift ==
  ASSUME NEW i \in Slots, NEW j \in Slots, NEW k \in Slots
  PROVE  Off(After(j), k) = IF Off(i, k) > Off(i, j) THEN Off(i, k) - Off(i, j) - 1
                            ELSE Off(i, k) - Off(i, j) - 1 + NbTx
<1>1. /\ Off(i, k) = (IF i <= k THEN k - i ELSE k - i + NbTx)
      /\ Off(i, j) = (IF i <= j THEN j - i ELSE j - i + NbTx)
  BY OffValue
<1>2. /\ After(j) = (IF j = NbTx - 1 THEN 0 ELSE j + 1) /\ After(j) \in Slots
  BY AfterValue
<1>3. Off(After(j), k) = (IF After(j) <= k THEN k - After(j) ELSE k - After(j) + NbTx)
  BY <1>2, OffValue
<1> QED
  BY <1>1, <1>2, <1>3, SlotsNat

-----------------------------------------------------------------------------
(* The last buffer of a frame is the next one that is marked as such.      *)

LEMMA InBetween ==
  ASSUME NEW i \in Slots, NEW j \in Slots, NEW k \in Slots
  PROVE  k \in Between(i, j) <=> Off(i, k) <= Off(i, j)
BY DEF Between, Off

LEMMA EndIs ==
  ASSUME NEW i \in Slots, NEW j \in Ends(i)
  PROVE  /\ j \in Slots /\ desc[j].last /\ End(i) = j
         /\ \A k \in Slots : Off(i, k) < Off(i, j) => ~desc[k].last
         /\ \A k \in Ends(i) : k = j
<1>1. ASSUME NEW e \in Ends(i)
      PROVE  /\ e \in Slots /\ desc[e].last
             /\ \A k \in Slots : Off(i, k) < Off(i, e) => ~desc[k].last
  <2>1. /\ e \in Slots /\ desc[e].last
        /\ \A k \in Between(i, e) \ {e} : ~desc[k].last
    BY DEF Ends
  <2>2. ASSUME NEW k \in Slots, Off(i, k) < Off(i, e)
        PROVE  k \in Between(i, e) \ {e}
    <3>1. Off(i, k) \in Nat /\ Off(i, e) \in Nat
      BY <2>1, OffValue, SlotsNat
    <3>2. Off(i, k) <= Off(i, e) /\ k # e
      BY <2>2, <3>1
    <3> QED
      BY <2>1, <3>2, InBetween
  <2> QED
    BY <2>1, <2>2
<1>2. \A k \in Ends(i) : k = j
  <2> SUFFICES ASSUME NEW k \in Ends(i) PROVE k = j
    OBVIOUS
  <2>1. Off(i, k) \in Nat /\ Off(i, j) \in Nat /\ k \in Slots /\ j \in Slots
    BY <1>1, OffValue, SlotsNat
  <2>2. ~(Off(i, k) < Off(i, j)) /\ ~(Off(i, j) < Off(i, k))
    BY <1>1
  <2>3. Off(i, k) = Off(i, j)
    BY <2>1, <2>2
  <2> QED
    BY <2>1, <2>3, OffSlot
<1>3. End(i) = j
  BY <1>2 DEF End
<1> QED
  BY <1>1, <1>2, <1>3

LEMMA EndExists ==
  ASSUME NEW i \in Slots, NEW l \in Slots, desc[l].last
  PROVE  \E j \in Ends(i) : Off(i, j) <= Off(i, l)
<1> DEFINE T == {Off(i, k) : k \in {k \in Slots : desc[k].last}}
<1>1. T \subseteq Nat /\ Off(i, l) \in T
  BY OffValue, SlotsNat
<1>2. PICK m \in T : \A n \in T : ~(n < m)
  BY <1>1, Least
<1>3. PICK j \in Slots : desc[j].last /\ m = Off(i, j)
  BY <1>2
<1>4. \A k \in Slots : desc[k].last => ~(Off(i, k) < Off(i, j))
  BY <1>2, <1>3
<1>5. ASSUME NEW k \in Between(i, j) \ {j}
      PROVE  ~desc[k].last
  <2>1. k \in Slots /\ k # j
    BY DEF Between
  <2>2. Off(i, k) <= Off(i, j) /\ Off(i, k) # Off(i, j)
    BY <1>3, <2>1, InBetween, OffSlot
  <2>3. Off(i, k) \in Nat /\ Off(i, j) \in Nat
    BY <1>3, <2>1, OffValue, SlotsNat
  <2> QED
    BY <1>4, <2>1, <2>2, <2>3
<1>6. j \in Ends(i)
  BY <1>3, <1>5 DEF Ends
<1>7. Off(i, j) <= Off(i, l)
  <2>1. Off(i, l) \in Nat /\ Off(i, j) \in Nat
    BY <1>3, OffValue, SlotsNat
  <2> QED
    BY <1>4, <2>1
<1> QED
  BY <1>6, <1>7

-----------------------------------------------------------------------------
(* The invariant: the m slots from mac.at on are filled, and slot k of     *)
(* them belongs to frame F[k], counted from the oldest.                    *)

R(k) == Off(mac.at, k)
Last(k) == IF desc[k].last THEN 1 ELSE 0

Types ==
  /\ desc \in [Slots -> [ok: BOOLEAN, last: BOOLEAN, id: Ids \cup {0}, from: Nat,
                         len: 0 .. BufferSize]]
  /\ index \in Slots /\ clear \in Slots
  /\ mac \in [at: Slots, on: BOOLEAN]
  /\ tcomp \in BOOLEAN
  /\ line \in Seq(Ids)

PacketType ==
  \/ packet = None
  \/ /\ packet \in [id: Ids, chain: Chains, pbuf: Nat, from: Nat, read: Nat]
     /\ packet.pbuf \in 1 .. Len(packet.chain)
     /\ packet.from < packet.chain[packet.pbuf]

Placed(F, m) ==
  /\ F \in [Slots -> Nat] /\ m \in 0 .. NbTx
  /\ IF m = NbTx THEN index = mac.at ELSE R(index) = m

(* Who fills a slot, and how slots that follow each other are related. *)
Filled(F, m) ==
  \A k \in Slots : R(k) < m =>
    /\ ~desc[k].ok
    /\ 1 <= F[k]
    /\ F[k] <= Len(line) + (IF packet = None THEN 0 ELSE 1)
    /\ desc[k].id = IF F[k] <= Len(line) THEN line[F[k]] ELSE packet.id

Joined(F, m) ==
  \A k \in Slots : R(k) + 1 < m =>
    /\ F[After(k)] = F[k] + Last(k)
    /\ desc[After(k)].from = IF desc[k].last THEN 0 ELSE desc[k].from + desc[k].len

Ordered(F, m) ==
  \A k, l \in Slots : R(k) < R(l) /\ R(l) < m => F[k] + Last(k) <= F[l]

Preceded(F, m) ==
  \A k \in Slots : R(k) < m /\ F[k] > 1 =>
    \E j \in Slots : R(j) < R(k) /\ desc[j].last /\ F[j] = F[k] - 1

Covered(F, m) == \A n \in 1 .. Len(line) : \E k \in Slots : R(k) < m /\ F[k] = n

(* The first of the slots and the last one. *)
Begun(F, m) ==
  IF m = 0 THEN line = << >> /\ packet.read = 0
  ELSE F[mac.at] = 1 /\ desc[mac.at].from = 0

Newest(F, m) ==
  \A k \in Slots : R(k) + 1 = m =>
    IF desc[k].last THEN Len(line) = F[k] /\ packet.read = 0
    ELSE /\ Len(line) = F[k] - 1 /\ packet # None
         /\ packet.read = desc[k].from + desc[k].len

(* The other slots are free, or will be when the interrupt was served. *)
Others(m) ==
  \A k \in Slots : R(k) >= m =>
    desc[k].ok \/ (tcomp /\ k \in Between(clear, End(clear)))

Sent(m) ==
  IF tcomp
  THEN /\ desc[clear].ok /\ Ends(clear) # {} /\ After(End(clear)) = mac.at
       /\ \A k \in Between(clear, End(clear)) : R(k) >= m
  ELSE clear = mac.at

Layout(F, m) ==
  /\ Placed(F, m) /\ Filled(F, m) /\ Joined(F, m) /\ Ordered(F, m)
  /\ Preceded(F, m) /\ Covered(F, m) /\ Begun(F, m) /\ Newest(F, m)
  /\ Others(m) /\ Sent(m)

Running == line # << >> => mac.on

IInv == Types /\ PacketType /\ Running /\ \E F, m : Layout(F, m)

LEMMA SlotAt ==
  ASSUME NEW i \in Slots, NEW r \in 0 .. NbTx - 1
  PROVE  \E k \in Slots : Off(i, k) = r
<1>1. NbTx \in Nat \ {0} /\ i \in 0 .. NbTx - 1
  BY MacbTransmitAssumption DEF Slots
<1>2. CASE i + r < NbTx
  <2>1. i + r \in Slots
    BY <1>1, <1>2 DEF Slots
  <2>2. Off(i, i + r) = r
    BY <1>1, <2>1, OffValue
  <2> QED
    BY <2>1, <2>2
<1>3. CASE ~(i + r < NbTx)
  <2>1. i + r - NbTx \in Slots
    BY <1>1, <1>3 DEF Slots
  <2>2. Off(i, i + r - NbTx) = r
    BY <1>1, <2>1, OffValue
  <2> QED
    BY <2>1, <2>2
<1> QED
  BY <1>2, <1>3

LEMMA Distances ==
  ASSUME mac.at \in Slots
  PROVE  \A k \in Slots : R(k) \in Nat /\ R(k) < NbTx /\ R(k) \in Slots
BY OffValue, SlotsNat DEF R

LEMMA NextDistance ==
  ASSUME mac.at \in Slots, NEW k \in Slots, R(k) + 1 < NbTx
  PROVE  After(k) \in Slots /\ R(After(k)) = R(k) + 1
<1>1. After(k) \in Slots
  BY AfterValue
<1>2. R(k) # NbTx - 1
  BY Distances, SlotsNat
<1>3. R(After(k)) = IF R(k) = NbTx - 1 THEN 0 ELSE R(k) + 1
  BY OffSlot DEF R
<1> QED
  BY <1>1, <1>2, <1>3

(* The oldest frame, if there is one, is whole and fills the first slots.  *)
LEMMA OldestFrame ==
  ASSUME Types, NEW F, NEW m, Layout(F, m), line # << >>
  PROVE  /\ m > 0 /\ Ends(mac.at) # {}
         /\ End(mac.at) \in Slots /\ desc[End(mac.at)].last
         /\ R(End(mac.at)) < m
         /\ \A k \in Slots : R(k) < R(End(mac.at)) => ~desc[k].last
         /\ \A k \in Slots : R(k) <= R(End(mac.at)) => F[k] = 1
<1>1. /\ mac.at \in Slots /\ line \in Seq(Ids) /\ Len(line) \in Nat /\ Len(line) > 0
      /\ \A k \in Slots : desc[k].last \in BOOLEAN
  BY DEF Types
<1>2. m \in 0 .. NbTx /\ m \in Nat /\ F \in [Slots -> Nat] /\ NbTx \in Nat
  BY SlotsNat DEF Layout, Placed
<1>3. m > 0
  <2> SUFFICES ASSUME ~(m > 0) PROVE FALSE
    OBVIOUS
  <2>1. m = 0
    BY <1>2
  <2> QED
    BY <2>1, <1>1 DEF Layout, Begun
<1>4. m - 1 \in 0 .. NbTx - 1
  BY <1>2, <1>3
<1>5. PICK n \in Slots : R(n) = m - 1
  BY <1>1, <1>4, SlotAt DEF R
<1>6. R(n) + 1 = m /\ R(n) < m /\ F[n] \in Nat
  BY <1>2, <1>5
<1>7. \E l \in Slots : R(l) < m /\ desc[l].last
  <2>1. CASE desc[n].last
    BY <1>6, <2>1
  <2>2. CASE ~desc[n].last
    <3>1. Len(line) = F[n] - 1
      BY <1>6, <2>2 DEF Layout, Newest
    <3>2. F[n] > 1
      BY <3>1, <1>1, <1>6
    <3>3. PICK l \in Slots : R(l) < R(n) /\ desc[l].last
      BY <1>6, <3>2 DEF Layout, Preceded
    <3>4. R(l) < m
      BY <3>3, <1>6, <1>1, <1>2, Distances
    <3> QED
      BY <3>3, <3>4
  <2> QED
    BY <2>1, <2>2
<1>8. PICK l \in Slots : R(l) < m /\ desc[l].last
  BY <1>7
<1>9. PICK j \in Ends(mac.at) : R(j) <= R(l)
  BY <1>1, <1>8, EndExists DEF R
<1>10. /\ j \in Slots /\ desc[j].last /\ End(mac.at) = j
       /\ \A k \in Slots : R(k) < R(j) => ~desc[k].last
  BY <1>1, EndIs DEF R
<1>11. R(j) < m
  BY <1>1, <1>2, <1>8, <1>9, <1>10, Distances
<1>12. F[j] = 1
  <2>1. F[j] \in Nat /\ 1 <= F[j]
    BY <1>2, <1>10, <1>11 DEF Layout, Filled
  <2>2. ~(F[j] > 1)
    <3> SUFFICES ASSUME F[j] > 1 PROVE FALSE
      OBVIOUS
    <3>1. PICK i \in Slots : R(i) < R(j) /\ desc[i].last
      BY <1>10, <1>11 DEF Layout, Preceded
    <3> QED
      BY <3>1, <1>10
  <2> QED
    BY <2>1, <2>2
<1>13. ASSUME NEW k \in Slots, R(k) <= R(j) PROVE F[k] = 1
  <2>1. /\ R(k) \in Nat /\ R(j) \in Nat /\ F[k] \in Nat
        /\ Last(k) \in Nat
    BY <1>1, <1>2, <1>10, Distances DEF Last
  <2>2. CASE R(k) = R(j)
    BY <1>1, <1>10, <1>12, <2>2, OffSlot DEF R
  <2>3. CASE R(k) < R(j)
    <3>1. R(k) < m
      BY <1>2, <1>11, <2>1, <2>3
    <3>2. 1 <= F[k]
      BY <3>1 DEF Layout, Filled
    <3>3. F[k] + Last(k) <= F[j]
      BY <1>10, <1>11, <2>3 DEF Layout, Ordered
    <3> QED
      BY <1>12, <2>1, <3>2, <3>3
  <2> QED
    BY <1>13, <2>1, <2>2, <2>3
<1> QED
  BY <1>3, <1>9, <1>10, <1>11, <1>13

LEMMA WholeFromLayout ==
  ASSUME IInv PROVE SentWhole
<1> SUFFICES ASSUME line # << >> PROVE SentWhole
  BY DEF SentWhole
<1>1. PICK F, m : Layout(F, m)
  BY DEF IInv
<1>2. PICK j : j = End(mac.at)
  OBVIOUS
<1>3. /\ m > 0 /\ Ends(mac.at) # {} /\ j \in Slots /\ R(j) < m
      /\ \A k \in Slots : R(k) < R(j) => ~desc[k].last
      /\ \A k \in Slots : R(k) <= R(j) => F[k] = 1
  BY <1>1, <1>2, OldestFrame DEF IInv
<1>4. /\ mac.at \in Slots /\ line \in Seq(Ids) /\ Len(line) \in Nat /\ Len(line) > 0
      /\ m \in Nat /\ m <= NbTx /\ NbTx \in Nat
  <2>1. mac.at \in Slots /\ line \in Seq(Ids)
    BY DEF IInv, Types
  <2>2. m \in 0 .. NbTx
    BY <1>1 DEF Layout, Placed
  <2> QED
    BY <2>1, <2>2, SlotsNat
<1>5. mac.on
  BY DEF IInv, Running
<1>6. ASSUME NEW k \in Between(mac.at, j)
      PROVE  /\ ~desc[k].ok /\ desc[k].id = Head(line)
             /\ IF k = mac.at THEN desc[k].from = 0
                ELSE \A i \in Between(mac.at, j) :
                       After(i) = k => desc[k].from = desc[i].from + desc[i].len
  <2>1. k \in Slots /\ R(k) <= R(j)
    BY <1>3, <1>4, InBetween DEF R, Between
  <2>2. R(k) < m /\ F[k] = 1
    BY <1>3, <1>4, <2>1, Distances
  <2>3. ~desc[k].ok /\ desc[k].id = Head(line)
    BY <1>1, <1>4, <2>1, <2>2 DEF Layout, Filled
  <2>4. k = mac.at => desc[k].from = 0
    BY <1>1, <1>3 DEF Layout, Begun
  <2>5. ASSUME k # mac.at, NEW i \in Between(mac.at, j), After(i) = k
        PROVE  desc[k].from = desc[i].from + desc[i].len
    <3>1. i \in Slots /\ R(i) <= R(j)
      BY <1>3, <1>4, InBetween DEF R, Between
    <3>2. R(k) = IF R(i) = NbTx - 1 THEN 0 ELSE R(i) + 1
      BY <1>4, <2>5, <3>1, OffSlot DEF R
    <3>3. R(k) # 0
      BY <1>4, <2>1, <2>5, OffSlot DEF R
    <3>4. R(k) = R(i) + 1 /\ R(i) \in Nat /\ R(k) \in Nat
      BY <1>4, <2>1, <3>1, <3>2, <3>3, Distances
    <3>5. R(i) < R(j) /\ R(i) + 1 < m
      BY <1>3, <1>4, <2>1, <2>2, <3>4, Distances
    <3>6. ~desc[i].last
      BY <1>3, <3>1, <3>5
    <3> QED
      BY <1>1, <2>5, <3>1, <3>5, <3>6 DEF Layout, Joined
  <2> QED
    BY <2>3, <2>4, <2>5
<1> QED
  BY <1>2, <1>3, <1>5, <1>6 DEF SentWhole

(* Only a packet that was copied whole is a whole frame to the MACB. *)
LEMMA WholeIsLine ==
  ASSUME IInv, ~tcomp, Whole(mac.at) PROVE line # << >>
<1> SUFFICES ASSUME line = << >> PROVE FALSE
  OBVIOUS
<1>1. PICK F, m : Layout(F, m)
  BY DEF IInv
<1>2. PICK j \in Ends(mac.at) : \A k \in Between(mac.at, j) : ~desc[k].ok
  BY DEF Whole
<1>3. /\ mac.at \in Slots /\ Len(line) = 0 /\ m \in 0 .. NbTx /\ m \in Nat
      /\ NbTx \in Nat /\ F \in [Slots -> Nat]
      /\ \A k \in Slots : desc[k].last \in BOOLEAN
  <2>1. m \in 0 .. NbTx /\ F \in [Slots -> Nat]
    BY <1>1 DEF Layout, Placed
  <2>2. mac.at \in Slots /\ \A k \in Slots : desc[k].last \in BOOLEAN
    BY DEF IInv, Types
  <2> QED
    BY <2>1, <2>2, SlotsNat
<1>4. \A k \in Slots : R(k) \in Nat /\ R(k) < NbTx
  BY <1>3, Distances
<1>5. j \in Slots /\ desc[j].last
  BY <1>2 DEF Ends
<1>6. \A k \in Slots : R(k) <= R(j) => ~desc[k].ok
  BY <1>2, <1>3, <1>5, InBetween DEF R
<1>7. \A k \in Slots : R(k) < m => F[k] = 1
  <2> SUFFICES ASSUME NEW k \in Slots, R(k) < m PROVE F[k] = 1
    OBVIOUS
  <2>1. 1 <= F[k] /\ F[k] <= Len(line) + (IF packet = None THEN 0 ELSE 1)
    BY <1>1 DEF Layout, Filled
  <2>2. PICK room \in {0, 1} : room = IF packet = None THEN 0 ELSE 1
    OBVIOUS
  <2>3. F[k] \in Nat /\ F[k] <= room
    BY <1>3, <2>1, <2>2
  <2> QED
    BY <2>1, <2>2, <2>3
<1>8. ~(R(j) < m)
  <2> SUFFICES ASSUME R(j) < m PROVE FALSE
    OBVIOUS
  <2>1. m - 1 \in 0 .. NbTx - 1
    BY <1>3, <1>4, <1>5
  <2>2. PICK n \in Slots : R(n) = m - 1
    BY <1>3, <2>1, SlotAt DEF R
  <2>3. R(n) < m /\ R(n) + 1 = m
    BY <1>3, <2>2
  <2>4. ~desc[n].last
    BY <1>1, <1>3, <1>7, <2>3 DEF Layout, Newest
  <2>5. R(j) < R(n)
    <3>1. R(j) # R(n)
      BY <1>3, <1>5, <2>4, OffSlot DEF R
    <3> QED
      BY <1>3, <1>4, <1>5, <2>2, <3>1
  <2>6. F[j] + Last(j) <= F[n]
    BY <1>1, <1>5, <2>3, <2>5 DEF Layout, Ordered
  <2>7. F[j] = 1 /\ F[n] = 1 /\ Last(j) = 1
    BY <1>5, <1>7, <2>3 DEF Last
  <2> QED
    BY <2>6, <2>7
<1>9. PICK k \in Slots : R(k) = m
  <2>1. m \in 0 .. NbTx - 1
    BY <1>3, <1>4, <1>5, <1>8
  <2> QED
    BY <1>3, <2>1, SlotAt DEF R
<1>10. R(k) <= R(j) /\ R(k) >= m
  BY <1>3, <1>4, <1>5, <1>8, <1>9
<1>11. desc[k].ok
  BY <1>1, <1>10 DEF Layout, Others
<1> QED
  BY <1>6, <1>10, <1>11

(* Which packet a buffer belongs to: no two packets have the same          *)
(* identifier, and a buffer that is free, or that the interrupt frees, has *)
(* nothing unsent in it.                                                   *)
Names ==
  /\ \A a, b \in 1 .. Len(line) : line[a] = line[b] => a = b
  /\ packet # None => \A a \in 1 .. Len(line) : line[a] # packet.id
  /\ \A k \in Slots : desc[k].ok => ~Unsent(k)
  /\ tcomp => \A k \in Between(clear, End(clear)) : ~Unsent(k)

LEMMA FreeFromLayout ==
  ASSUME IInv, Names PROVE BuffersReturn
<1> SUFFICES ASSUME NEW k \in Slots, ~Unsent(k), ~tcomp PROVE desc[k].ok
  BY DEF BuffersReturn, Names
<1>1. PICK F, m : Layout(F, m)
  BY DEF IInv
<1>2. /\ mac.at \in Slots /\ m \in Nat /\ F \in [Slots -> Nat]
      /\ Len(line) \in Nat /\ R(k) \in Nat
  <2>1. mac.at \in Slots /\ m \in 0 .. NbTx /\ F \in [Slots -> Nat] /\ line \in Seq(Ids)
    BY <1>1 DEF IInv, Types, Layout, Placed
  <2> QED
    BY <2>1, SlotsNat, Distances
<1>3. ~(R(k) < m)
  <2> SUFFICES ASSUME R(k) < m PROVE FALSE
    OBVIOUS
  <2>1. /\ 1 <= F[k] /\ F[k] <= Len(line) + (IF packet = None THEN 0 ELSE 1)
        /\ desc[k].id = IF F[k] <= Len(line) THEN line[F[k]] ELSE packet.id
    BY <1>1 DEF Layout, Filled
  <2>2. CASE F[k] <= Len(line)
    <3>1. F[k] \in 1 .. Len(line) /\ desc[k].id = line[F[k]]
      BY <1>2, <2>1, <2>2
    <3> QED
      BY <3>1 DEF Unsent
  <2>3. CASE ~(F[k] <= Len(line))
    <3>1. packet # None
      BY <1>2, <2>1, <2>3
    <3> QED
      BY <2>1, <2>3, <3>1 DEF Unsent
  <2> QED
    BY <2>2, <2>3
<1> QED
  BY <1>1, <1>2, <1>3 DEF Layout, Others

LEMMA TypeFromInvariant ==
  ASSUME IInv PROVE TypeOK
<1>1. /\ DOMAIN desc = Slots
      /\ \A i \in Slots : desc[i] \in [ok: BOOLEAN, last: BOOLEAN, id: Ids \cup {0},
                                        from: Nat, len: 0 .. BufferSize]
  BY DEF IInv, Types
<1>2. packet.id \in Ids \cup {0}
  BY DEF IInv, PacketType, None
<1> QED
  BY <1>1, <1>2 DEF IInv, Types, TypeOK

-----------------------------------------------------------------------------
LEMMA InitHolds == Init => IInv
<1> SUFFICES ASSUME Init PROVE IInv
  OBVIOUS
<1>1. NbTx \in Nat \ {0} /\ BufferSize \in Nat /\ 0 \in Slots
  BY MacbTransmitAssumption, SlotsNat
<1>2. Types
  <2>1. /\ 0 \in 0 .. BufferSize /\ << >> \in Seq(Ids)
    BY <1>1
  <2> QED
    BY <1>1, <2>1 DEF Init, Types
<1>3. PacketType /\ Running
  BY DEF Init, PacketType, Running
<1>4. PICK F : F = [k \in Slots |-> 0]
  OBVIOUS
<1>5. F \in [Slots -> Nat]
  BY <1>4
<1>6. mac.at = 0 /\ \A k \in Slots : R(k) \in Nat
  BY <1>1, Distances DEF Init
<1>7. Placed(F, 0)
  BY <1>1, <1>5, <1>6, OffSlot DEF Init, Placed, R
<1>8. Filled(F, 0) /\ Joined(F, 0) /\ Preceded(F, 0) /\ Newest(F, 0)
  BY <1>6 DEF Filled, Joined, Preceded, Newest
<1>9. Ordered(F, 0)
  BY <1>6 DEF Ordered
<1>10. Covered(F, 0) /\ Begun(F, 0) /\ Others(0) /\ Sent(0)
  BY <1>6 DEF Init, Covered, Begun, Others, Sent, None
<1> QED
  BY <1>2, <1>3, <1>7, <1>8, <1>9, <1>10 DEF IInv, Layout

(* There is an identifier for a new packet, which no other one has. *)
LEMMA FreshIsId ==
  ASSUME IInv
  PROVE  /\ Fresh \in Ids
         /\ \A i \in Slots : desc[i].id # Fresh
         /\ \A n \in 1 .. Len(line) : line[n] # Fresh
<1>1. PICK F, m : Layout(F, m)
  BY DEF IInv
<1>2. NbTx \in Nat /\ line \in Seq(Ids)
  BY SlotsNat DEF IInv, Types
<1> DEFINE T == {desc[i].id : i \in Slots}
<1>3. IsFiniteSet(Slots) /\ Cardinality(Slots) = NbTx
  <2>1. IsFiniteSet(0 .. NbTx - 1) /\ Cardinality(0 .. NbTx - 1)
          = IF 0 > NbTx - 1 THEN 0 ELSE (NbTx - 1) - 0 + 1
    BY <1>2, FS_Interval
  <2> QED
    BY <1>2, <2>1, SlotsNat DEF Slots
<1>4. IsFiniteSet(T) /\ Cardinality(T) <= NbTx /\ Cardinality(T) \in Nat
  <2>1. PICK f : f = [i \in Slots |-> desc[i].id]
    OBVIOUS
  <2>2. f \in Surjection(Slots, T)
    BY <2>1 DEF Surjection
  <2>3. IsFiniteSet(T) /\ Cardinality(T) <= NbTx
    BY <1>3, <2>2, FS_Surjection
  <2> QED
    BY <2>3, FS_CardinalityType
<1>5. IsFiniteSet(Ids) /\ Cardinality(Ids) = NbTx + 2
  <2>1. IsFiniteSet(1 .. NbTx + 2) /\ Cardinality(1 .. NbTx + 2)
          = IF 1 > NbTx + 2 THEN 0 ELSE (NbTx + 2) - 1 + 1
    BY <1>2, FS_Interval
  <2> QED
    BY <1>2, <2>1 DEF Ids
<1>6. ~(Ids \subseteq T)
  <2> SUFFICES ASSUME Ids \subseteq T PROVE FALSE
    OBVIOUS
  <2>1. Cardinality(Ids) <= Cardinality(T)
    BY <1>4, FS_Subset
  <2> QED
    BY <1>2, <1>4, <1>5, <2>1
<1>7. PICK id \in Ids : id \notin T
  BY <1>6
<1>8. \A i \in Slots : desc[i].id # id
  BY <1>7
<1>9. \A n \in 1 .. Len(line) : line[n] # id
  <2> SUFFICES ASSUME NEW n \in 1 .. Len(line) PROVE line[n] # id
    OBVIOUS
  <2>1. PICK k \in Slots : R(k) < m /\ F[k] = n
    BY <1>1 DEF Layout, Covered
  <2>2. desc[k].id = IF F[k] <= Len(line) THEN line[F[k]] ELSE packet.id
    BY <1>1, <2>1 DEF Layout, Filled
  <2>3. n <= Len(line)
    BY <1>2
  <2>4. desc[k].id = line[n]
    BY <2>1, <2>2, <2>3
  <2> QED
    BY <1>8, <2>4
<1>10. /\ \A i \in Slots : desc[i].id # id
       /\ \A k \in 1 .. Len(line) : line[k] # id
  BY <1>8, <1>9
<1> QED
  BY <1>7, <1>10, Zenon DEF Fresh

LEMMA HaltHolds ==
  ASSUME IInv, Halt \/ Exhaust \/ Wait \/ UNCHANGED vars PROVE IInv'
<1>1. PICK F, m : Layout(F, m)
  BY DEF IInv
<1>2. /\ UNCHANGED <<desc, index, clear, packet, tcomp, line>> /\ mac'.at = mac.at
      /\ mac' \in [at: Slots, on: BOOLEAN]
  BY DEF Halt, Exhaust, Wait, vars, IInv, Types
<1>3. Types' /\ PacketType'
  BY <1>2 DEF IInv, Types, PacketType
<1>4. Running'
  <2>1. CASE mac' = mac
    BY <1>2, <2>1 DEF IInv, Running
  <2>2. CASE Halt
    <3>1. desc[mac.at].ok /\ mac.at \in Slots /\ m \in 0 .. NbTx
      BY <1>1, <2>2 DEF Halt, IInv, Types, Layout, Placed
    <3>2. R(mac.at) = 0
      BY <3>1, OffSlot DEF R
    <3>3. ~(0 < m)
      BY <1>1, <3>1, <3>2 DEF Layout, Filled
    <3>4. m = 0
      BY <3>1, <3>3, SlotsNat
    <3>5. line = << >>
      BY <1>1, <3>4 DEF Layout, Begun
    <3> QED
      BY <1>2, <3>5 DEF Running
  <2>3. CASE Exhaust
    <3>1. ~Whole(mac.at)
      BY <2>3 DEF Exhaust
    <3>2. line # << >> => Whole(mac.at)
      <4> SUFFICES ASSUME line # << >> PROVE Whole(mac.at)
        OBVIOUS
      <4>1. /\ Ends(mac.at) # {}
            /\ \A k \in Between(mac.at, End(mac.at)) : ~desc[k].ok
        BY WholeFromLayout DEF SentWhole
      <4>2. PICK j : j \in Ends(mac.at)
        BY <4>1
      <4>3. End(mac.at) = j
        BY <4>2, EndIs DEF IInv, Types
      <4> QED
        BY <4>1, <4>2, <4>3 DEF Whole
    <3> QED
      BY <1>2, <3>1, <3>2 DEF Running
  <2> QED
    BY <2>1, <2>2, <2>3 DEF Wait, vars
<1>5. /\ \A k : R(k)' = R(k) /\ Last(k)' = Last(k)
      /\ \A i : Ends(i)' = Ends(i) /\ End(i)' = End(i)
  BY <1>2 DEF R, Last, Ends, End
<1>6. Layout(F, m)'
  BY <1>1, <1>2, <1>5 DEF Layout, Placed, Filled, Joined, Ordered, Preceded, Covered,
     Begun, Newest, Others, Sent
<1> QED
  BY <1>3, <1>4, <1>6 DEF IInv

LEMMA OutputHolds ==
  ASSUME IInv, Output PROVE IInv'
<1>1. PICK F, m : Layout(F, m)
  BY DEF IInv
<1>2. PICK chain \in Chains : packet' = [None EXCEPT !.id = Fresh, !.chain = chain]
  BY DEF Output
<1>3. packet = None /\ UNCHANGED <<desc, index, clear, mac, tcomp, line>>
  BY DEF Output
<1>4. /\ packet' = [id |-> Fresh, chain |-> chain, pbuf |-> 1, from |-> 0, read |-> 0]
      /\ Fresh \in Ids /\ Fresh # 0
  <2>1. Fresh \in Ids
    BY FreshIsId
  <2>2. Fresh # 0
    BY <2>1, SlotsNat DEF Ids
  <2>3. packet' = [id |-> Fresh, chain |-> chain, pbuf |-> 1, from |-> 0, read |-> 0]
    BY <1>2 DEF None
  <2> QED
    BY <2>1, <2>2, <2>3
<1>5. packet' # None /\ packet'.read = 0 /\ packet.read = 0
  BY <1>3, <1>4 DEF None
<1>6. Types' /\ Running'
  BY <1>3 DEF IInv, Types, Running
<1>7. PacketType'
  <2>1. chain \in Seq(Nat \ {0}) /\ chain # << >>
    BY MacbTransmitAssumption
  <2>2. 1 \in 1 .. Len(chain) /\ 0 < chain[1]
    BY <2>1
  <2> QED
    BY <1>4, <2>2 DEF PacketType
<1>8. /\ \A k : R(k)' = R(k) /\ Last(k)' = Last(k)
      /\ \A i : Ends(i)' = Ends(i) /\ End(i)' = End(i)
  BY <1>3 DEF R, Last, Ends, End
<1>9. /\ Placed(F, m)' /\ Joined(F, m)' /\ Ordered(F, m)' /\ Preceded(F, m)'
      /\ Covered(F, m)' /\ Others(m)' /\ Sent(m)'
  BY <1>1, <1>3, <1>8 DEF Layout, Placed, Joined, Ordered, Preceded, Covered, Others, Sent
<1>10. Begun(F, m)' /\ Newest(F, m)'
  BY <1>1, <1>3, <1>5, <1>8 DEF Layout, Begun, Newest
<1>11. Filled(F, m)'
  <2> SUFFICES ASSUME NEW k \in Slots, R(k) < m
               PROVE  /\ ~desc[k].ok /\ 1 <= F[k] /\ F[k] <= Len(line) + 1
                      /\ desc[k].id = IF F[k] <= Len(line) THEN line[F[k]] ELSE packet'.id
    BY <1>3, <1>5, <1>8 DEF Filled
  <2>1. /\ ~desc[k].ok /\ 1 <= F[k] /\ F[k] <= Len(line) + 0
        /\ desc[k].id = IF F[k] <= Len(line) THEN line[F[k]] ELSE packet.id
    BY <1>1, <1>3 DEF Layout, Filled
  <2>2. F \in [Slots -> Nat] /\ line \in Seq(Ids)
    BY <1>1 DEF IInv, Types, Layout, Placed
  <2> QED
    BY <2>1, <2>2
<1> QED
  BY <1>6, <1>7, <1>9, <1>10, <1>11 DEF IInv, Layout

(* What a slot takes, and the packet after it. *)
LEMMA ShareFits ==
  ASSUME PacketType, packet # None
  PROVE  /\ Share \in 1 .. BufferSize /\ PbufDone \in BOOLEAN /\ LastShare \in BOOLEAN
         /\ packet \in [id: Ids, chain: Chains, pbuf: Nat, from: Nat, read: Nat]
         /\ ~LastShare /\ PbufDone =>
              /\ packet.pbuf + 1 \in 1 .. Len(packet.chain)
              /\ 0 < packet.chain[packet.pbuf + 1]
         /\ ~PbufDone => packet.from + Share < packet.chain[packet.pbuf]
<1>1. /\ packet \in [id: Ids, chain: Chains, pbuf: Nat, from: Nat, read: Nat]
      /\ packet.pbuf \in 1 .. Len(packet.chain)
      /\ packet.from < packet.chain[packet.pbuf]
  BY DEF PacketType
<1>2. packet.chain \in Seq(Nat \ {0}) /\ BufferSize \in Nat \ {0} /\ packet.from \in Nat
  BY <1>1, MacbTransmitAssumption
<1>3. packet.chain[packet.pbuf] \in Nat /\ Len(packet.chain) \in Nat
  BY <1>1, <1>2
<1>4. Share \in 1 .. BufferSize
  BY <1>1, <1>2, <1>3 DEF Share
<1>5. ASSUME ~LastShare, PbufDone
      PROVE  /\ packet.pbuf + 1 \in 1 .. Len(packet.chain)
             /\ 0 < packet.chain[packet.pbuf + 1]
  <2>1. packet.pbuf # Len(packet.chain)
    BY <1>5 DEF LastShare
  <2>2. packet.pbuf + 1 \in 1 .. Len(packet.chain)
    BY <1>1, <1>3, <2>1
  <2> QED
    BY <1>2, <2>2
<1>6. ~PbufDone => packet.from + Share < packet.chain[packet.pbuf]
  BY <1>2, <1>3, <1>4 DEF PbufDone
<1> QED
  BY <1>1, <1>4, <1>5, <1>6 DEF PbufDone, LastShare

LEMMA MacbSendHolds ==
  ASSUME IInv, MacbSend PROVE IInv'
<1>1. PICK F, m : Layout(F, m)
  BY DEF IInv
<1>2. PICK n : n = Len(line) + 1
  OBVIOUS
<1>3. PICK G : G = [F EXCEPT ![index] = n]
  OBVIOUS
<1>4. PICK last : last = LastShare
  OBVIOUS
<1>5. PICK share : share = Share
  OBVIOUS
<1>6. /\ packet # None /\ ~tcomp /\ desc[index].ok
      /\ desc' = [desc EXCEPT ![index] =
           [ok |-> FALSE, last |-> last, id |-> packet.id, from |-> packet.read,
            len |-> share]]
      /\ index' = After(index)
      /\ mac' = IF last THEN [mac EXCEPT !.on = TRUE] ELSE mac
      /\ line' = IF last THEN Append(line, packet.id) ELSE line
      /\ clear' = clear /\ tcomp' = tcomp
  BY <1>4, <1>5 DEF MacbSend
<1>7. /\ share \in 1 .. BufferSize /\ last \in BOOLEAN
      /\ packet \in [id: Ids, chain: Chains, pbuf: Nat, from: Nat, read: Nat]
      /\ packet.id \in Ids /\ packet.read \in Nat /\ BufferSize \in Nat
  BY <1>4, <1>5, <1>6, ShareFits, MacbTransmitAssumption DEF IInv
<1>8. /\ index \in Slots /\ mac.at \in Slots /\ clear \in Slots /\ tcomp \in BOOLEAN
      /\ mac \in [at: Slots, on: BOOLEAN] /\ line \in Seq(Ids)
      /\ desc \in [Slots -> [ok: BOOLEAN, last: BOOLEAN, id: Ids \cup {0}, from: Nat,
                             len: 0 .. BufferSize]]
  BY DEF IInv, Types
<1>9. NbTx \in Nat /\ Len(line) \in Nat /\ n \in Nat /\ n >= 1
  BY <1>2, <1>8, SlotsNat
<1>10. m \in Nat /\ m <= NbTx /\ F \in [Slots -> Nat] /\ G \in [Slots -> Nat]
  <2>1. m \in 0 .. NbTx /\ F \in [Slots -> Nat]
    BY <1>1 DEF Layout, Placed
  <2>2. G \in [Slots -> Nat]
    BY <1>3, <1>8, <1>9, <2>1
  <2>3. m \in Nat /\ m <= NbTx
    BY <1>9, <2>1
  <2> QED
    BY <2>1, <2>2, <2>3
<1>11. \A k \in Slots : R(k) \in Nat /\ R(k) < NbTx
  BY <1>8, Distances
<1>12. mac'.at = mac.at /\ \A k : R(k)' = R(k)
  BY <1>6, <1>8 DEF R
<1>13. m < NbTx /\ R(index) = m
  <2>1. m # NbTx
    <3> SUFFICES ASSUME m = NbTx PROVE FALSE
      OBVIOUS
    <3>1. index = mac.at
      BY <1>1 DEF Layout, Placed
    <3>2. R(index) = 0
      BY <1>8, <3>1, OffSlot DEF R
    <3>3. R(index) < m
      BY <1>8, <1>11, <3>2
    <3> QED
      BY <1>1, <1>6, <1>8, <3>3 DEF Layout, Filled
  <2> QED
    BY <1>1, <1>9, <1>10, <2>1 DEF Layout, Placed
<1>14. \A k \in Slots : R(k) = m => k = index
  BY <1>8, <1>13, OffSlot DEF R
<1>15. \A k \in Slots : R(k) < m + 1 => k = index \/ (k # index /\ R(k) < m)
  BY <1>10, <1>11, <1>14
<1>16. \A k \in Slots : k # index => desc'[k] = desc[k] /\ G[k] = F[k] /\ Last(k)' = Last(k)
  BY <1>3, <1>6, <1>8, <1>10 DEF Last
<1>17. /\ desc'[index] = [ok |-> FALSE, last |-> last, id |-> packet.id,
                          from |-> packet.read, len |-> share]
       /\ G[index] = n
  BY <1>3, <1>6, <1>8, <1>10
<1>18. \A k \in Slots : R(k) < m => F[k] \in Nat /\ 1 <= F[k] /\ F[k] <= n /\ Last(k) \in {0, 1}
  <2> SUFFICES ASSUME NEW k \in Slots, R(k) < m
               PROVE  F[k] \in Nat /\ 1 <= F[k] /\ F[k] <= n /\ Last(k) \in {0, 1}
    OBVIOUS
  <2>1. 1 <= F[k] /\ F[k] <= Len(line) + 1
    BY <1>1, <1>6 DEF Layout, Filled
  <2> QED
    BY <1>2, <1>10, <2>1 DEF Last
<1>19. \A k \in Slots : R(k) + 1 = m =>
         /\ n = F[k] + Last(k)
         /\ packet.read = IF desc[k].last THEN 0 ELSE desc[k].from + desc[k].len
  <2> SUFFICES ASSUME NEW k \in Slots, R(k) + 1 = m
               PROVE  /\ n = F[k] + Last(k)
                      /\ packet.read = IF desc[k].last THEN 0
                                       ELSE desc[k].from + desc[k].len
    OBVIOUS
  <2>1. /\ desc[k].last => Len(line) = F[k] /\ packet.read = 0
        /\ ~desc[k].last => Len(line) = F[k] - 1
                            /\ packet.read = desc[k].from + desc[k].len
    BY <1>1 DEF Layout, Newest
  <2> QED
    BY <1>2, <1>9, <1>10, <2>1 DEF Last
<1>20. /\ packet' = None => last /\ packet'.read = 0 /\ packet'.id = 0
       /\ ~last => packet' # None /\ packet'.read = packet.read + share /\ packet'.id = packet.id
       /\ last => packet' = None /\ packet'.read = 0
       /\ PacketType'
  <2>1. CASE last
    <3>1. packet' = None
      BY <1>4, <2>1 DEF MacbSend
    <3> QED
      BY <2>1, <3>1 DEF None, PacketType
  <2>2. CASE ~last
    <3>1. packet' = [packet EXCEPT !.read = @ + share,
                                   !.pbuf = IF PbufDone THEN @ + 1 ELSE @,
                                   !.from = IF PbufDone THEN 0 ELSE @ + share]
      BY <1>4, <1>5, <2>2 DEF MacbSend
    <3>2. /\ packet'.read = packet.read + share /\ packet'.id = packet.id
          /\ packet'.chain = packet.chain
          /\ packet'.pbuf = IF PbufDone THEN packet.pbuf + 1 ELSE packet.pbuf
          /\ packet'.from = IF PbufDone THEN 0 ELSE packet.from + share
      BY <1>7, <3>1
    <3>3. packet' \in [id: Ids, chain: Chains, pbuf: Nat, from: Nat, read: Nat]
      <4>1. PICK pbuf, from, read :
              /\ pbuf = IF PbufDone THEN packet.pbuf + 1 ELSE packet.pbuf
              /\ from = IF PbufDone THEN 0 ELSE packet.from + share
              /\ read = packet.read + share
        OBVIOUS
      <4>2. packet' = [packet EXCEPT !.read = read, !.pbuf = pbuf, !.from = from]
        BY <3>1, <4>1
      <4>3. packet.pbuf \in Nat /\ packet.from \in Nat /\ share \in Nat
        BY <1>7
      <4>4. pbuf \in Nat /\ from \in Nat /\ read \in Nat
        BY <1>7, <4>1, <4>3
      <4> QED
        BY <1>7, <4>2, <4>4
    <3>4. /\ PbufDone => /\ packet.pbuf + 1 \in 1 .. Len(packet.chain)
                         /\ 0 < packet.chain[packet.pbuf + 1]
          /\ ~PbufDone => packet.from + share < packet.chain[packet.pbuf]
      BY <1>4, <1>5, <1>6, <2>2, ShareFits DEF IInv
    <3>5. packet.pbuf \in 1 .. Len(packet.chain)
      BY <1>6 DEF IInv, PacketType
    <3>6. PacketType'
      <4>1. CASE PbufDone
        BY <3>2, <3>3, <3>4, <4>1 DEF PacketType
      <4>2. CASE ~PbufDone
        BY <3>2, <3>3, <3>4, <3>5, <4>2 DEF PacketType
      <4> QED
        BY <4>1, <4>2
    <3>7. packet' # None
      <4>1. packet'.id # None.id
        BY <1>7, <3>2 DEF None, Ids
      <4> QED
        BY <4>1
    <3> QED
      BY <2>2, <3>2, <3>6, <3>7
  <2> QED
    BY <1>7, <2>1, <2>2
<1>21. m + 1 \in 0 .. NbTx
  BY <1>9, <1>10, <1>13
<1>22. Types'
  <2>1. [ok |-> FALSE, last |-> last, id |-> packet.id, from |-> packet.read, len |-> share]
          \in [ok: BOOLEAN, last: BOOLEAN, id: Ids \cup {0}, from: Nat, len: 0 .. BufferSize]
    BY <1>7
  <2>2. desc' \in [Slots -> [ok: BOOLEAN, last: BOOLEAN, id: Ids \cup {0}, from: Nat,
                            len: 0 .. BufferSize]]
    BY <1>6, <1>8, <2>1
  <2>3. line' \in Seq(Ids)
    BY <1>6, <1>7, <1>8
  <2>4. mac' \in [at: Slots, on: BOOLEAN] /\ index' \in Slots
    BY <1>6, <1>8, AfterValue
  <2> QED
    BY <1>6, <1>8, <2>2, <2>3, <2>4 DEF Types
<1>23. Running'
  <2>1. CASE last
    BY <1>6, <1>8, <2>1 DEF Running
  <2>2. CASE ~last
    BY <1>6, <2>2 DEF IInv, Running
  <2> QED
    BY <1>7, <2>1, <2>2
<1>24. /\ Len(line') \in Nat
       /\ last => Len(line') = n
       /\ ~last => Len(line') = Len(line) /\ line' = line
       /\ \A i \in Nat : 1 <= i /\ i <= Len(line) => line'[i] = line[i]
       /\ last => line'[n] = packet.id
  <2>1. CASE last
    BY <1>2, <1>6, <1>7, <1>8, <2>1
  <2>2. CASE ~last
    BY <1>6, <1>9, <2>2
  <2> QED
    BY <2>1, <2>2
<1>25. Placed(G, m + 1)'
  <2>1. R(After(index)) = IF R(index) = NbTx - 1 THEN 0 ELSE R(index) + 1
    BY <1>8, OffSlot DEF R
  <2>2. After(index) \in Slots
    BY <1>8, AfterValue
  <2>3. m + 1 = NbTx => R(After(index)) = 0
    BY <1>9, <1>10, <1>13, <2>1
  <2>4. m + 1 = NbTx => After(index) = mac.at
    BY <1>8, <2>2, <2>3, OffSlot DEF R
  <2>5. m + 1 # NbTx => R(After(index)) = m + 1
    BY <1>9, <1>10, <1>13, <2>1
  <2>6. R(index)' = R(After(index))
    BY <1>6, <1>12 DEF R
  <2> QED
    BY <1>6, <1>10, <1>12, <1>21, <2>4, <2>5, <2>6 DEF Placed
<1>26. Filled(G, m + 1)'
  <2> SUFFICES ASSUME NEW k \in Slots, R(k) < m + 1
               PROVE  /\ ~desc'[k].ok
                      /\ 1 <= G[k]
                      /\ G[k] <= Len(line') + (IF packet' = None THEN 0 ELSE 1)
                      /\ desc'[k].id = IF G[k] <= Len(line') THEN line'[G[k]] ELSE packet'.id
    BY <1>12 DEF Filled
  <2>1. n <= Len(line') + (IF packet' = None THEN 0 ELSE 1)
    <3>1. CASE last
      BY <1>9, <1>20, <1>24, <3>1
    <3>2. CASE ~last
      <4>1. packet' # None /\ Len(line') = Len(line)
        BY <1>20, <1>24, <3>2
      <4> QED
        BY <1>2, <1>9, <4>1
    <3> QED
      BY <3>1, <3>2
  <2>2. CASE k = index
    <3>1. ~desc'[k].ok /\ 1 <= G[k] /\ G[k] = n /\ desc'[k].id = packet.id
      BY <1>9, <1>17, <2>2
    <3>2. packet.id = IF n <= Len(line') THEN line'[n] ELSE packet'.id
      <4>1. last => n <= Len(line') /\ line'[n] = packet.id
        BY <1>9, <1>24
      <4>2. ASSUME ~last PROVE ~(n <= Len(line')) /\ packet'.id = packet.id
        <5>1. packet'.id = packet.id /\ Len(line') = Len(line)
          BY <1>20, <1>24, <4>2
        <5> QED
          BY <1>2, <1>9, <5>1
      <4> QED
        BY <4>1, <4>2
    <3> QED
      BY <2>1, <3>1, <3>2
  <2>3. CASE k # index /\ R(k) < m
    <3>1. desc'[k] = desc[k] /\ G[k] = F[k]
      BY <1>16, <2>3
    <3>2. F[k] \in Nat /\ 1 <= F[k] /\ F[k] <= n
      BY <1>18, <2>3
    <3>3. ~desc[k].ok /\ desc[k].id = IF F[k] <= Len(line) THEN line[F[k]] ELSE packet.id
      BY <1>1, <2>3 DEF Layout, Filled
    <3>4. F[k] <= Len(line') + (IF packet' = None THEN 0 ELSE 1)
      <4>1. PICK room \in {0, 1} : room = IF packet' = None THEN 0 ELSE 1
        OBVIOUS
      <4> QED
        BY <1>9, <1>24, <2>1, <3>2, <4>1
    <3>5. desc[k].id = IF F[k] <= Len(line') THEN line'[F[k]] ELSE packet'.id
      <4>1. CASE F[k] <= Len(line)
        <5>1. F[k] <= Len(line') /\ line'[F[k]] = line[F[k]]
          BY <1>2, <1>9, <1>24, <3>2, <4>1
        <5> QED
          BY <3>3, <4>1, <5>1
      <4>2. CASE ~(F[k] <= Len(line))
        <5>1. F[k] = n /\ desc[k].id = packet.id
          BY <1>2, <1>9, <3>2, <3>3, <4>2
        <5>2. CASE last
          BY <1>9, <1>24, <5>1, <5>2
        <5>3. CASE ~last
          BY <1>20, <1>24, <4>2, <5>1, <5>3
        <5> QED
          BY <1>7, <5>2, <5>3
      <4> QED
        BY <4>1, <4>2
    <3> QED
      BY <3>1, <3>2, <3>3, <3>4, <3>5
  <2> QED
    BY <1>15, <2>2, <2>3
<1>27. Joined(G, m + 1)'
  <2> SUFFICES ASSUME NEW k \in Slots, R(k) + 1 < m + 1
               PROVE  /\ G[After(k)] = G[k] + Last(k)'
                      /\ desc'[After(k)].from
                           = IF desc'[k].last THEN 0 ELSE desc'[k].from + desc'[k].len
    BY <1>12 DEF Joined
  <2>1. R(k) < m /\ R(k) + 1 < NbTx
    BY <1>9, <1>10, <1>11, <1>13
  <2>2. k # index /\ desc'[k] = desc[k] /\ G[k] = F[k] /\ Last(k)' = Last(k)
    BY <1>10, <1>13, <1>16, <2>1
  <2>3. After(k) \in Slots /\ R(After(k)) = R(k) + 1
    BY <1>8, <2>1, NextDistance
  <2>4. CASE R(k) + 1 = m
    <3>1. After(k) = index
      BY <1>14, <2>3, <2>4
    <3>2. n = F[k] + Last(k) /\ packet.read = IF desc[k].last THEN 0
                                               ELSE desc[k].from + desc[k].len
      BY <1>19, <2>4
    <3> QED
      BY <1>17, <2>2, <3>1, <3>2
  <2>5. CASE R(k) + 1 # m
    <3>1. R(k) + 1 < m /\ After(k) # index
      BY <1>10, <1>11, <1>13, <2>1, <2>3, <2>5
    <3>2. desc'[After(k)] = desc[After(k)] /\ G[After(k)] = F[After(k)]
      BY <1>16, <2>3, <3>1
    <3>3. /\ F[After(k)] = F[k] + Last(k)
          /\ desc[After(k)].from = IF desc[k].last THEN 0 ELSE desc[k].from + desc[k].len
      BY <1>1, <3>1 DEF Layout, Joined
    <3> QED
      BY <2>2, <3>2, <3>3
  <2> QED
    BY <2>4, <2>5
<1>28. Ordered(G, m + 1)'
  <2> SUFFICES ASSUME NEW k \in Slots, NEW l \in Slots, R(k) < R(l), R(l) < m + 1
               PROVE  G[k] + Last(k)' <= G[l]
    BY <1>12 DEF Ordered
  <2>1. R(k) < m /\ k # index
    BY <1>10, <1>11, <1>13
  <2>2. G[k] = F[k] /\ Last(k)' = Last(k)
    BY <1>16, <2>1
  <2>3. F[k] \in Nat /\ F[k] <= n /\ Last(k) \in {0, 1}
    BY <1>18, <2>1
  <2>4. CASE l # index
    <3>1. R(l) < m /\ G[l] = F[l]
      BY <1>15, <1>16, <2>4
    <3> QED
      BY <1>1, <2>2, <3>1 DEF Layout, Ordered
  <2>5. CASE l = index
    <3>1. m >= 1 /\ m - 1 \in 0 .. NbTx - 1
      BY <1>9, <1>10, <1>11, <2>1
    <3>2. PICK p \in Slots : R(p) = m - 1
      BY <1>8, <3>1, SlotAt DEF R
    <3>3. R(p) + 1 = m /\ R(p) < m /\ R(p) \in Nat
      BY <1>10, <1>11, <3>2
    <3>4. n = F[p] + Last(p) /\ F[p] \in Nat /\ Last(p) \in {0, 1}
      BY <1>18, <1>19, <3>3
    <3>5. CASE k = p
      BY <1>17, <2>2, <2>5, <3>4, <3>5
    <3>6. CASE k # p
      <4>1. R(k) < R(p)
        <5>1. R(k) # R(p)
          BY <1>8, <3>6, OffSlot DEF R
        <5>2. R(k) \in Nat
          BY <1>11
        <5> QED
          BY <1>10, <2>1, <3>3, <5>1, <5>2
      <4>2. F[k] + Last(k) <= F[p]
        BY <1>1, <3>3, <4>1 DEF Layout, Ordered
      <4> QED
        BY <1>9, <1>17, <2>2, <2>3, <2>5, <3>4, <4>2
    <3> QED
      BY <3>5, <3>6
  <2> QED
    BY <2>4, <2>5
<1>29. Preceded(G, m + 1)'
  <2> SUFFICES ASSUME NEW k \in Slots, R(k) < m + 1, G[k] > 1
               PROVE  \E j \in Slots : R(j) < R(k) /\ desc'[j].last /\ G[j] = G[k] - 1
    BY <1>12 DEF Preceded
  <2>1. ASSUME NEW j \in Slots, R(j) < m, desc[j].last
        PROVE  desc'[j].last /\ G[j] = F[j]
    <3>1. j # index
      BY <1>10, <1>13, <2>1
    <3> QED
      BY <1>16, <2>1, <3>1
  <2>2. CASE k # index
    <3>1. R(k) < m /\ G[k] = F[k] /\ F[k] > 1
      BY <1>15, <1>16, <2>2
    <3>2. PICK j \in Slots : R(j) < R(k) /\ desc[j].last /\ F[j] = F[k] - 1
      BY <1>1, <3>1 DEF Layout, Preceded
    <3>3. R(j) < m
      BY <1>10, <1>11, <3>1, <3>2
    <3> QED
      BY <2>1, <3>1, <3>2, <3>3
  <2>3. CASE k = index
    <3>1. G[k] = n /\ n > 1 /\ R(k) = m
      BY <1>13, <1>17, <2>3
    <3>2. m # 0
      <4> SUFFICES ASSUME m = 0 PROVE FALSE
        OBVIOUS
      <4>1. line = << >>
        BY <1>1 DEF Layout, Begun
      <4> QED
        BY <1>2, <3>1, <4>1
    <3>3. m - 1 \in 0 .. NbTx - 1
      BY <1>9, <1>10, <3>2
    <3>4. PICK p \in Slots : R(p) = m - 1
      BY <1>8, <3>3, SlotAt DEF R
    <3>5. R(p) + 1 = m /\ R(p) < m /\ R(p) \in Nat
      BY <1>10, <1>11, <3>4
    <3>6. n = F[p] + Last(p) /\ F[p] \in Nat
      BY <1>18, <1>19, <3>5
    <3>7. CASE desc[p].last
      <4>1. F[p] = n - 1
        BY <1>9, <3>6, <3>7 DEF Last
      <4> QED
        BY <2>1, <3>1, <3>5, <3>7, <4>1
    <3>8. CASE ~desc[p].last
      <4>1. F[p] = n
        BY <1>9, <3>6, <3>8 DEF Last
      <4>2. PICK j \in Slots : R(j) < R(p) /\ desc[j].last /\ F[j] = F[p] - 1
        BY <1>1, <3>1, <3>5, <4>1 DEF Layout, Preceded
      <4>3. R(j) < m
        BY <1>10, <1>11, <3>5, <4>2
      <4> QED
        BY <2>1, <3>1, <4>1, <4>2, <4>3
    <3> QED
      BY <3>7, <3>8
  <2> QED
    BY <2>2, <2>3
<1>30. Covered(G, m + 1)'
  <2> SUFFICES ASSUME NEW i \in 1 .. Len(line')
               PROVE  \E k \in Slots : R(k) < m + 1 /\ G[k] = i
    BY <1>12 DEF Covered
  <2>1. i \in 1 .. Len(line) \/ i = n
    BY <1>2, <1>9, <1>24
  <2>2. CASE i = n
    BY <1>8, <1>10, <1>13, <1>17, <2>2
  <2>3. CASE i \in 1 .. Len(line)
    <3>1. PICK k \in Slots : R(k) < m /\ F[k] = i
      BY <1>1, <2>3 DEF Layout, Covered
    <3>2. k # index /\ R(k) < m + 1
      BY <1>10, <1>11, <1>13, <3>1
    <3> QED
      BY <1>16, <3>1, <3>2
  <2> QED
    BY <2>1, <2>2, <2>3
<1>31. Begun(G, m + 1)'
  <2>1. m + 1 # 0
    BY <1>10
  <2>2. CASE m = 0
    <3>1. index = mac.at
      BY <1>8, <1>13, <2>2, OffSlot DEF R
    <3>2. line = << >> /\ packet.read = 0
      BY <1>1, <2>2 DEF Layout, Begun
    <3>3. n = 1
      BY <1>2, <3>2
    <3> QED
      BY <1>12, <1>17, <2>1, <3>1, <3>2, <3>3 DEF Begun
  <2>3. CASE m # 0
    <3>1. index # mac.at
      BY <1>8, <1>13, <2>3, OffSlot DEF R
    <3>2. F[mac.at] = 1 /\ desc[mac.at].from = 0
      BY <1>1, <2>3 DEF Layout, Begun
    <3> QED
      BY <1>8, <1>12, <1>16, <2>1, <3>1, <3>2 DEF Begun
  <2> QED
    BY <2>2, <2>3
<1>32. Newest(G, m + 1)'
  <2> SUFFICES ASSUME NEW k \in Slots, R(k) + 1 = m + 1
               PROVE  IF desc'[k].last THEN Len(line') = G[k] /\ packet'.read = 0
                      ELSE /\ Len(line') = G[k] - 1 /\ packet' # None
                           /\ packet'.read = desc'[k].from + desc'[k].len
    BY <1>12 DEF Newest
  <2>1. k = index
    BY <1>10, <1>11, <1>14
  <2>2. desc'[k].last = last /\ desc'[k].from = packet.read /\ desc'[k].len = share /\ G[k] = n
    BY <1>17, <2>1
  <2>3. CASE last
    BY <1>20, <1>24, <2>2, <2>3
  <2>4. CASE ~last
    <3>1. Len(line') = n - 1
      <4>1. Len(line') = Len(line)
        BY <1>24, <2>4
      <4> QED
        BY <1>2, <1>9, <4>1
    <3> QED
      BY <1>20, <2>2, <2>4, <3>1
  <2> QED
    BY <2>3, <2>4
<1>33. Others(m + 1)' /\ Sent(m + 1)'
  <2>1. ASSUME NEW k \in Slots, R(k) >= m + 1 PROVE desc'[k].ok
    <3>1. R(k) >= m /\ k # index
      BY <1>10, <1>11, <1>13, <2>1
    <3>2. desc[k].ok
      BY <1>1, <1>6, <3>1 DEF Layout, Others
    <3> QED
      BY <1>16, <3>1, <3>2
  <2>2. clear = mac.at
    BY <1>1, <1>6 DEF Layout, Sent
  <2> QED
    BY <1>6, <1>12, <2>1, <2>2 DEF Others, Sent
<1>34. Layout(G, m + 1)'
  BY <1>25, <1>26, <1>27, <1>28, <1>29, <1>30, <1>31, <1>32, <1>33 DEF Layout
<1> QED
  BY <1>20, <1>22, <1>23, <1>34 DEF IInv

LEMMA InterruptHolds ==
  ASSUME IInv, Interrupt PROVE IInv'
<1>1. PICK F, m : Layout(F, m)
  BY DEF IInv
<1>2. /\ tcomp /\ tcomp' = FALSE /\ UNCHANGED <<index, packet, mac, line>>
  BY DEF Interrupt
<1>3. /\ desc[clear].ok /\ Ends(clear) # {} /\ After(End(clear)) = mac.at
      /\ \A k \in Between(clear, End(clear)) : R(k) >= m
  BY <1>1, <1>2 DEF Layout, Sent
<1>4. /\ index \in Slots /\ mac.at \in Slots /\ clear \in Slots
      /\ mac \in [at: Slots, on: BOOLEAN] /\ line \in Seq(Ids)
      /\ desc \in [Slots -> [ok: BOOLEAN, last: BOOLEAN, id: Ids \cup {0}, from: Nat,
                             len: 0 .. BufferSize]]
      /\ m \in Nat
  <2>1. m \in 0 .. NbTx
    BY <1>1 DEF Layout, Placed
  <2> QED
    BY <2>1, SlotsNat DEF IInv, Types
<1>5. PICK j \in Ends(clear) : desc' = ClearedUpTo(j) /\ clear' = After(j)
  BY <1>3 DEF Interrupt
<1>6. j = End(clear)
  BY <1>4, EndIs
<1>7. clear' = mac.at
  BY <1>3, <1>5, <1>6
<1>8. \A k \in Slots : desc'[k] = IF k \in Between(clear, j) THEN [desc[k] EXCEPT !.ok = TRUE]
                                 ELSE desc[k]
  BY <1>5 DEF ClearedUpTo
<1>9. \A k \in Slots : /\ desc'[k].last = desc[k].last /\ desc'[k].from = desc[k].from
                       /\ desc'[k].len = desc[k].len /\ desc'[k].id = desc[k].id
                       /\ desc'[k].ok \in BOOLEAN
                       /\ desc'[k].ok <=> (desc[k].ok \/ k \in Between(clear, j))
  BY <1>4, <1>8
<1>10. Types'
  <2>1. DOMAIN desc' = Slots /\ desc' = [k \in Slots |-> desc'[k]]
    BY <1>5 DEF ClearedUpTo
  <2>2. ASSUME NEW k \in Slots
        PROVE  desc'[k] \in [ok: BOOLEAN, last: BOOLEAN, id: Ids \cup {0}, from: Nat,
                             len: 0 .. BufferSize]
    <3>1. desc[k] \in [ok: BOOLEAN, last: BOOLEAN, id: Ids \cup {0}, from: Nat,
                       len: 0 .. BufferSize]
      BY <1>4
    <3>2. CASE k \in Between(clear, j)
      <4>1. desc'[k] = [desc[k] EXCEPT !.ok = TRUE]
        BY <1>8, <3>2
      <4> QED
        BY <3>1, <4>1
    <3>3. CASE k \notin Between(clear, j)
      <4>1. desc'[k] = desc[k]
        BY <1>8, <3>3
      <4> QED
        BY <3>1, <4>1
    <3> QED
      BY <3>2, <3>3
  <2>3. desc' \in [Slots -> [ok: BOOLEAN, last: BOOLEAN, id: Ids \cup {0}, from: Nat,
                            len: 0 .. BufferSize]]
    BY <2>1, <2>2
  <2> QED
    BY <1>2, <1>4, <1>7, <2>3 DEF Types
<1>11. PacketType' /\ Running'
  BY <1>2 DEF IInv, PacketType, Running
<1>12. /\ \A k : R(k)' = R(k)
       /\ \A k \in Slots : Last(k)' = Last(k)
       /\ \A k \in Slots : R(k) \in Nat
  BY <1>2, <1>4, <1>9, Distances DEF R, Last
<1>13. \A k \in Slots : R(k) < m => desc'[k].ok = desc[k].ok
  <2> SUFFICES ASSUME NEW k \in Slots, R(k) < m PROVE desc'[k].ok = desc[k].ok
    OBVIOUS
  <2>1. k \notin Between(clear, j)
    BY <1>3, <1>4, <1>6, <1>12
  <2>2. desc'[k] = desc[k]
    BY <1>8, <2>1
  <2> QED
    BY <2>2
<1>14. Placed(F, m)' /\ Covered(F, m)'
  BY <1>1, <1>2, <1>12 DEF Layout, Placed, Covered
<1>15. Filled(F, m)'
  BY <1>1, <1>2, <1>9, <1>12, <1>13 DEF Layout, Filled
<1>16. Joined(F, m)'
  <2> SUFFICES ASSUME NEW k \in Slots, R(k) + 1 < m
               PROVE  /\ F[After(k)] = F[k] + Last(k)
                      /\ desc'[After(k)].from
                           = IF desc'[k].last THEN 0 ELSE desc'[k].from + desc'[k].len
    BY <1>12 DEF Joined
  <2>1. After(k) \in Slots
    BY AfterValue
  <2> QED
    BY <1>1, <1>9, <2>1 DEF Layout, Joined
<1>17. Ordered(F, m)' /\ Preceded(F, m)'
  BY <1>1, <1>9, <1>12 DEF Layout, Ordered, Preceded
<1>18. Begun(F, m)' /\ Newest(F, m)'
  BY <1>1, <1>2, <1>4, <1>9, <1>12 DEF Layout, Begun, Newest
<1>19. Others(m)'
  <2> SUFFICES ASSUME NEW k \in Slots, R(k) >= m PROVE desc'[k].ok
    BY <1>12 DEF Others
  <2>1. desc[k].ok \/ k \in Between(clear, j)
    BY <1>1, <1>6 DEF Layout, Others
  <2> QED
    BY <1>9, <2>1
<1>20. Sent(m)'
  BY <1>2, <1>7 DEF Sent
<1>21. Layout(F, m)'
  BY <1>14, <1>15, <1>16, <1>17, <1>18, <1>19, <1>20 DEF Layout
<1> QED
  BY <1>10, <1>11, <1>21 DEF IInv

LEMMA TransmitHolds ==
  ASSUME IInv, Prompt, Transmit PROVE IInv'
<1>1. PICK F, m : Layout(F, m)
  BY DEF IInv
<1>2. PICK j : j = End(mac.at)
  OBVIOUS
<1>3. /\ ~tcomp /\ line # << >> /\ mac.on
      /\ desc' = [desc EXCEPT ![mac.at].ok = TRUE]
      /\ mac' = [mac EXCEPT !.at = After(j)]
      /\ tcomp' = TRUE
      /\ line' = SubSeq(line, 2, Len(line))
      /\ UNCHANGED <<index, clear, packet>>
  BY <1>2, WholeIsLine DEF Transmit, Prompt
<1>4. /\ index \in Slots /\ mac.at \in Slots /\ clear \in Slots
      /\ mac \in [at: Slots, on: BOOLEAN] /\ line \in Seq(Ids)
      /\ desc \in [Slots -> [ok: BOOLEAN, last: BOOLEAN, id: Ids \cup {0}, from: Nat,
                             len: 0 .. BufferSize]]
  BY DEF IInv, Types
<1>5. /\ m > 0 /\ Ends(mac.at) # {} /\ j \in Slots /\ desc[j].last /\ R(j) < m
      /\ \A k \in Slots : R(k) < R(j) => ~desc[k].last
      /\ \A k \in Slots : R(k) <= R(j) => F[k] = 1
  BY <1>1, <1>2, <1>3, OldestFrame DEF IInv
<1>6. NbTx \in Nat /\ m \in Nat /\ m <= NbTx /\ F \in [Slots -> Nat]
  <2>1. m \in 0 .. NbTx /\ F \in [Slots -> Nat]
    BY <1>1 DEF Layout, Placed
  <2> QED
    BY <2>1, SlotsNat
<1>7. \A k \in Slots : R(k) \in Nat /\ R(k) < NbTx
  BY <1>4, Distances
<1>8. PICK e : e = R(j) + 1
  OBVIOUS
<1>9. e \in Nat /\ e >= 1 /\ e <= m /\ m - e \in Nat
  BY <1>5, <1>6, <1>7, <1>8
<1>10. mac'.at = After(j) /\ mac'.on = mac.on /\ After(j) \in Slots
  BY <1>3, <1>4, <1>5, AfterValue
<1>11. \A k \in Slots : R(k)' = IF R(k) >= e THEN R(k) - e ELSE R(k) - e + NbTx
  <2> SUFFICES ASSUME NEW k \in Slots
               PROVE  Off(After(j), k) = IF R(k) >= e THEN R(k) - e ELSE R(k) - e + NbTx
    BY <1>10 DEF R
  <2>1. Off(After(j), k) = IF R(k) > R(j) THEN R(k) - R(j) - 1 ELSE R(k) - R(j) - 1 + NbTx
    BY <1>4, <1>5, OffShift DEF R
  <2>2. R(k) \in Nat /\ R(j) \in Nat
    BY <1>5, <1>7
  <2> QED
    BY <1>6, <1>8, <2>1, <2>2
<1>12. \A k \in Slots : R(k)' < m - e <=> (R(k) >= e /\ R(k) < m)
  BY <1>6, <1>7, <1>9, <1>11
<1>13. \A k \in Slots : R(k) >= e => R(k)' = R(k) - e
  BY <1>11
<1>14. R(mac.at) = 0 /\ \A k \in Slots : R(k) >= e => k # mac.at
  BY <1>4, <1>9, OffSlot DEF R
<1>15. \A k \in Slots : k # mac.at => desc'[k] = desc[k]
  BY <1>3, <1>4
<1>16. /\ desc'[mac.at].ok
       /\ \A k \in Slots : /\ desc'[k].last = desc[k].last /\ desc'[k].from = desc[k].from
                           /\ desc'[k].len = desc[k].len /\ desc'[k].id = desc[k].id
                           /\ desc[k].ok => desc'[k].ok
  BY <1>3, <1>4
<1>17. \A k \in Slots : R(k) >= e /\ R(k) < m => F[k] \in Nat /\ F[k] >= 2
  <2> SUFFICES ASSUME NEW k \in Slots, R(k) >= e, R(k) < m PROVE F[k] \in Nat /\ F[k] >= 2
    OBVIOUS
  <2>1. R(j) < R(k)
    BY <1>5, <1>7, <1>8
  <2>2. F[j] + Last(j) <= F[k]
    BY <1>1, <1>5, <2>1 DEF Layout, Ordered
  <2>3. F[j] = 1
    BY <1>5, <1>7
  <2>4. Last(j) = 1
    BY <1>5 DEF Last
  <2> QED
    BY <1>6, <2>2, <2>3, <2>4
<1>18. PICK G \in [Slots -> Nat] : \A k \in Slots : F[k] >= 1 => G[k] = F[k] - 1
  <2>1. [k \in Slots |-> IF F[k] >= 1 THEN F[k] - 1 ELSE 0] \in [Slots -> Nat]
    BY <1>6
  <2> QED
    BY <2>1
<1>19. \A k \in Slots : R(k) >= e /\ R(k) < m => G[k] = F[k] - 1 /\ G[k] \in Nat /\ G[k] >= 1
  BY <1>17, <1>18
<1>20. /\ Len(line) \in Nat /\ Len(line) >= 1 /\ line' \in Seq(Ids)
       /\ Len(line') = Len(line) - 1 /\ Len(line') \in Nat
       /\ \A i \in Nat : i >= 1 /\ i <= Len(line') => line'[i] = line[i + 1]
  BY <1>3, <1>4, Rest
<1>21. Types'
  <2>1. desc' \in [Slots -> [ok: BOOLEAN, last: BOOLEAN, id: Ids \cup {0}, from: Nat,
                            len: 0 .. BufferSize]]
    BY <1>3, <1>4
  <2>2. mac' \in [at: Slots, on: BOOLEAN]
    BY <1>3, <1>4, <1>10
  <2> QED
    BY <1>3, <1>4, <1>20, <2>1, <2>2 DEF Types
<1>22. PacketType' /\ Running'
  BY <1>3, <1>10 DEF IInv, PacketType, Running
<1>23. Placed(G, m - e)'
  <2>1. m - e \in 0 .. NbTx /\ m - e # NbTx
    BY <1>6, <1>9
  <2>2. R(index)' = m - e
    <3>1. CASE m = NbTx
      <4>1. index = mac.at
        BY <1>1, <3>1 DEF Layout, Placed
      <4>2. Off(mac'.at, mac.at) = 0 - e + NbTx
        BY <1>4, <1>9, <1>11, <1>14 DEF R
      <4>3. R(index)' = Off(mac'.at, mac.at)
        BY <1>3, <4>1 DEF R
      <4> QED
        BY <1>6, <1>9, <3>1, <4>2, <4>3
    <3>2. CASE m # NbTx
      <4>1. R(index) = m
        BY <1>1, <3>2 DEF Layout, Placed
      <4>2. Off(mac'.at, index) = m - e
        BY <1>4, <1>6, <1>9, <1>11, <4>1 DEF R
      <4> QED
        BY <1>3, <4>2 DEF R
    <3> QED
      BY <3>1, <3>2
  <2> QED
    BY <1>18, <2>1, <2>2 DEF Placed
<1>24. Filled(G, m - e)'
  <2> SUFFICES ASSUME NEW k \in Slots, R(k) >= e, R(k) < m
               PROVE  /\ ~desc'[k].ok
                      /\ 1 <= G[k]
                      /\ G[k] <= Len(line') + (IF packet = None THEN 0 ELSE 1)
                      /\ desc'[k].id = IF G[k] <= Len(line') THEN line'[G[k]] ELSE packet.id
    BY <1>3, <1>12 DEF Filled
  <2>1. desc'[k] = desc[k]
    BY <1>14, <1>15
  <2>2. G[k] = F[k] - 1 /\ F[k] \in Nat /\ G[k] \in Nat /\ G[k] >= 1
    BY <1>17, <1>19
  <2>3. /\ ~desc[k].ok /\ F[k] <= Len(line) + (IF packet = None THEN 0 ELSE 1)
        /\ desc[k].id = IF F[k] <= Len(line) THEN line[F[k]] ELSE packet.id
    BY <1>1 DEF Layout, Filled
  <2>4. PICK room \in {0, 1} : room = IF packet = None THEN 0 ELSE 1
    OBVIOUS
  <2>5. G[k] <= Len(line') + room
    BY <1>20, <2>2, <2>3, <2>4
  <2>6. G[k] <= Len(line') <=> F[k] <= Len(line)
    BY <1>20, <2>2
  <2>7. G[k] <= Len(line') => line'[G[k]] = line[F[k]]
    <3> SUFFICES ASSUME G[k] <= Len(line') PROVE line'[G[k]] = line[F[k]]
      OBVIOUS
    <3>1. line'[G[k]] = line[G[k] + 1]
      BY <1>20, <2>2
    <3>2. G[k] + 1 = F[k]
      BY <2>2
    <3> QED
      BY <3>1, <3>2
  <2> QED
    BY <2>1, <2>2, <2>3, <2>4, <2>5, <2>6, <2>7
<1>25. Joined(G, m - e)'
  <2> SUFFICES ASSUME NEW k \in Slots, R(k)' + 1 < m - e
               PROVE  /\ G[After(k)] = G[k] + Last(k)'
                      /\ desc'[After(k)].from
                           = IF desc'[k].last THEN 0 ELSE desc'[k].from + desc'[k].len
    BY DEF Joined
  <2>1. R(k) >= e /\ R(k) + 1 < m
    BY <1>6, <1>7, <1>9, <1>11
  <2>2. After(k) \in Slots /\ R(After(k)) = R(k) + 1 /\ R(k) \in Nat
    <3>1. R(k) \in Nat /\ R(k) + 1 < NbTx
      BY <1>6, <1>7, <2>1
    <3> QED
      BY <1>4, <3>1, NextDistance
  <2>3. R(k) < m /\ R(After(k)) >= e /\ R(After(k)) < m
    BY <1>6, <1>9, <2>1, <2>2
  <2>4. /\ F[After(k)] = F[k] + Last(k)
        /\ desc[After(k)].from = IF desc[k].last THEN 0 ELSE desc[k].from + desc[k].len
    BY <1>1, <2>1 DEF Layout, Joined
  <2>5. /\ G[k] = F[k] - 1 /\ F[k] \in Nat
        /\ G[After(k)] = F[After(k)] - 1 /\ F[After(k)] \in Nat
    BY <1>17, <1>19, <2>1, <2>2, <2>3
  <2>6. Last(k)' = Last(k) /\ Last(k) \in Nat
    BY <1>16 DEF Last
  <2>7. G[After(k)] = G[k] + Last(k)'
    BY <2>4, <2>5, <2>6
  <2> QED
    BY <1>16, <2>2, <2>4, <2>7
<1>26. Ordered(G, m - e)'
  <2> SUFFICES ASSUME NEW k \in Slots, NEW l \in Slots, R(k)' < R(l)', R(l)' < m - e
               PROVE  G[k] + Last(k)' <= G[l]
    BY DEF Ordered
  <2>1. R(k) >= e /\ R(l) >= e /\ R(k) < R(l) /\ R(l) < m /\ R(k) < m
    BY <1>6, <1>7, <1>9, <1>11
  <2>2. F[k] + Last(k) <= F[l]
    BY <1>1, <2>1 DEF Layout, Ordered
  <2>3. G[k] = F[k] - 1 /\ F[k] \in Nat /\ G[l] = F[l] - 1 /\ F[l] \in Nat
    BY <1>17, <1>19, <2>1
  <2>4. Last(k)' = Last(k) /\ Last(k) \in Nat
    BY <1>16 DEF Last
  <2> QED
    BY <2>2, <2>3, <2>4
<1>27. Preceded(G, m - e)'
  <2> SUFFICES ASSUME NEW k \in Slots, R(k)' < m - e, G[k] > 1
               PROVE  \E i \in Slots : R(i)' < R(k)' /\ desc'[i].last /\ G[i] = G[k] - 1
    BY DEF Preceded
  <2>1. R(k) >= e /\ R(k) < m /\ G[k] = F[k] - 1 /\ F[k] \in Nat
    BY <1>12, <1>17, <1>19
  <2>2. F[k] > 1 /\ F[k] > 2
    BY <2>1
  <2>3. PICK i \in Slots : R(i) < R(k) /\ desc[i].last /\ F[i] = F[k] - 1
    BY <1>1, <2>1, <2>2 DEF Layout, Preceded
  <2>4. R(i) >= e
    <3>1. F[i] # 1
      BY <2>1, <2>2, <2>3
    <3>2. ~(R(i) <= R(j))
      BY <1>5, <3>1
    <3> QED
      BY <1>5, <1>7, <1>8, <3>2
  <2>5. R(i) < m
    BY <1>6, <1>7, <2>1, <2>3
  <2>6. G[i] = F[i] - 1
    BY <1>19, <2>4, <2>5
  <2>7. R(i)' < R(k)'
    <3>1. R(i)' = R(i) - e /\ R(k)' = R(k) - e
      BY <1>13, <2>1, <2>4
    <3> QED
      BY <1>7, <1>9, <2>3, <3>1
  <2> QED
    BY <1>16, <2>1, <2>3, <2>6, <2>7
<1>28. Covered(G, m - e)'
  <2> SUFFICES ASSUME NEW i \in 1 .. Len(line')
               PROVE  \E k \in Slots : R(k)' < m - e /\ G[k] = i
    BY DEF Covered
  <2>1. i \in Nat /\ i >= 1 /\ i + 1 \in 1 .. Len(line)
    BY <1>20
  <2>2. PICK k \in Slots : R(k) < m /\ F[k] = i + 1
    BY <1>1, <2>1 DEF Layout, Covered
  <2>3. R(k) >= e
    <3>1. ~(R(k) <= R(j))
      BY <1>5, <2>1, <2>2
    <3> QED
      BY <1>5, <1>7, <1>8, <3>1
  <2>4. G[k] = i
    BY <1>19, <2>1, <2>2, <2>3
  <2> QED
    BY <1>12, <2>2, <2>3, <2>4
<1>29. Newest(G, m - e)'
  <2> SUFFICES ASSUME NEW k \in Slots, R(k)' + 1 = m - e
               PROVE  IF desc'[k].last THEN Len(line') = G[k] /\ packet.read = 0
                      ELSE /\ Len(line') = G[k] - 1 /\ packet # None
                           /\ packet.read = desc'[k].from + desc'[k].len
    BY <1>3 DEF Newest
  <2>1. R(k) >= e /\ R(k) + 1 = m /\ R(k) < m
    BY <1>6, <1>7, <1>9, <1>11
  <2>2. G[k] = F[k] - 1 /\ F[k] \in Nat
    BY <1>17, <1>19, <2>1
  <2>3. IF desc[k].last THEN Len(line) = F[k] /\ packet.read = 0
        ELSE /\ Len(line) = F[k] - 1 /\ packet # None
             /\ packet.read = desc[k].from + desc[k].len
    BY <1>1, <2>1 DEF Layout, Newest
  <2>4. Len(line) = F[k] => Len(line') = G[k]
    BY <1>20, <2>2
  <2>5. Len(line) = F[k] - 1 => Len(line') = G[k] - 1
    BY <1>20, <2>2
  <2> QED
    BY <1>16, <2>3, <2>4, <2>5
<1>30. Begun(G, m - e)'
  <2>1. CASE m = e
    <3>1. R(j) + 1 = m
      BY <1>8, <2>1
    <3>2. Len(line) = F[j] /\ packet.read = 0
      BY <1>1, <1>5, <3>1 DEF Layout, Newest
    <3>3. F[j] = 1
      BY <1>5, <1>7
    <3>4. Len(line') = 0
      BY <1>20, <3>2, <3>3
    <3>5. line' = << >>
      BY <1>20, <3>4
    <3>6. m - e = 0
      BY <1>6, <2>1
    <3> QED
      BY <1>3, <3>2, <3>5, <3>6 DEF Begun
  <2>2. CASE m # e
    <3>1. R(j) + 1 < m /\ m - e # 0
      BY <1>5, <1>6, <1>7, <1>8, <1>9, <2>2
    <3>2. After(j) \in Slots /\ R(After(j)) = e
      <4>1. R(j) + 1 < NbTx
        BY <1>5, <1>6, <1>7, <3>1
      <4> QED
        BY <1>4, <1>5, <1>8, <4>1, NextDistance
    <3>3. /\ F[After(j)] = F[j] + Last(j) /\ desc[After(j)].from = 0
      BY <1>1, <1>5, <3>1 DEF Layout, Joined
    <3>4. F[After(j)] = 2
      <4>1. F[j] = 1 /\ Last(j) = 1
        BY <1>5, <1>7 DEF Last
      <4> QED
        BY <3>3, <4>1
    <3>5. G[After(j)] = 1
      BY <1>18, <3>2, <3>4
    <3> QED
      BY <1>10, <1>16, <3>1, <3>2, <3>3, <3>5 DEF Begun
  <2> QED
    BY <2>1, <2>2
<1>31. Ends(clear)' = Ends(clear) /\ End(clear)' = End(clear) /\ clear = mac.at
  <2>1. clear = mac.at
    BY <1>1, <1>3 DEF Layout, Sent
  <2>2. Ends(clear)' = Ends(clear)
    <3>1. \A i : Between(clear, i) \subseteq Slots
      BY DEF Between
    <3> QED
      BY <1>3, <1>16, <3>1 DEF Ends
  <2> QED
    BY <1>3, <2>1, <2>2 DEF End
<1>32. Others(m - e)'
  <2> SUFFICES ASSUME NEW k \in Slots, R(k)' >= m - e
               PROVE  desc'[k].ok \/ k \in Between(clear, j)
    BY <1>2, <1>3, <1>31 DEF Others
  <2>1. CASE R(k) >= m
    BY <1>1, <1>3, <1>16, <2>1 DEF Layout, Others
  <2>2. CASE ~(R(k) >= m)
    <3>1. ~(R(k) >= e)
      BY <1>6, <1>7, <1>9, <1>11, <2>2
    <3>2. R(k) <= R(j)
      BY <1>5, <1>7, <1>8, <3>1
    <3> QED
      BY <1>4, <1>5, <1>31, <3>2, InBetween DEF R
  <2> QED
    BY <2>1, <2>2
<1>33. Sent(m - e)'
  <2>1. ASSUME NEW k \in Between(clear, j) PROVE R(k)' >= m - e
    <3>1. k \in Slots /\ R(k) <= R(j)
      BY <1>4, <1>5, <1>31, InBetween DEF R, Between
    <3>2. ~(R(k) >= e) /\ R(k) \in Nat
      BY <1>5, <1>7, <1>8, <3>1
    <3>3. R(k)' = R(k) - e + NbTx
      BY <1>11, <3>1, <3>2
    <3> QED
      BY <1>6, <1>9, <3>2, <3>3
  <2>2. desc'[clear].ok
    BY <1>16, <1>31
  <2> QED
    BY <1>2, <1>3, <1>5, <1>10, <1>31, <2>1, <2>2 DEF Sent
<1>34. Layout(G, m - e)'
  BY <1>23, <1>24, <1>25, <1>26, <1>27, <1>28, <1>29, <1>30, <1>32, <1>33 DEF Layout
<1> QED
  BY <1>21, <1>22, <1>34 DEF IInv

LEMMA InvariantHolds ==
  ASSUME Prompt PROVE Spec => []IInv
<1>1. IInv /\ [Next]_vars => IInv'
  <2> SUFFICES ASSUME IInv, [Next]_vars PROVE IInv'
    OBVIOUS
  <2>1. CASE Output
    BY <2>1, OutputHolds
  <2>2. CASE MacbSend
    BY <2>2, MacbSendHolds
  <2>3. CASE Transmit
    BY <2>3, TransmitHolds
  <2>4. CASE Interrupt
    BY <2>4, InterruptHolds
  <2>5. CASE Halt \/ Exhaust \/ Wait \/ UNCHANGED vars
    BY <2>5, HaltHolds
  <2> QED
    BY <2>1, <2>2, <2>3, <2>4, <2>5 DEF Next
<1> QED
  BY InitHolds, <1>1, PTL DEF Spec

-----------------------------------------------------------------------------
(* The identifiers tell the packets apart. *)

LEMMA NamesInit == Init => Names
<1> SUFFICES ASSUME Init PROVE Names
  OBVIOUS
<1>1. line = << >> /\ packet = None /\ ~tcomp /\ Len(line) = 0
  BY DEF Init
<1>2. \A k : ~Unsent(k)
  BY <1>1 DEF Unsent
<1> QED
  BY <1>1, <1>2 DEF Names

LEMMA OutputNames ==
  ASSUME IInv, Names, Output PROVE Names'
<1>1. /\ packet = None /\ UNCHANGED <<desc, index, clear, mac, tcomp, line>>
      /\ packet'.id = Fresh
  BY DEF Output, None
<1>2. /\ \A i \in Slots : desc[i].id # Fresh
      /\ \A n \in 1 .. Len(line) : line[n] # Fresh
  BY FreshIsId
<1>3. \A k \in Slots : Unsent(k)' => Unsent(k)
  BY <1>1, <1>2 DEF Unsent
<1>4. End(clear)' = End(clear) /\ Between(clear, End(clear)) \subseteq Slots
  BY <1>1 DEF End, Ends, Between
<1> QED
  BY <1>1, <1>2, <1>3, <1>4 DEF Names

LEMMA MacbSendNames ==
  ASSUME IInv, Names, MacbSend PROVE Names'
<1>1. /\ packet # None /\ ~tcomp /\ ~tcomp'
      /\ desc' = [desc EXCEPT ![index] =
           [ok |-> FALSE, last |-> LastShare, id |-> packet.id, from |-> packet.read,
            len |-> Share]]
  BY DEF MacbSend
<1>2. index \in Slots /\ DOMAIN desc = Slots /\ line \in Seq(Ids)
  BY DEF IInv, Types
<1>3. /\ ~desc'[index].ok
      /\ \A k \in Slots : k # index => desc'[k] = desc[k]
  BY <1>1, <1>2
<1>4. CASE LastShare
  <2>1. packet' = None /\ line' = Append(line, packet.id)
    BY <1>4 DEF MacbSend
  <2>2. /\ Len(line') = Len(line) + 1 /\ Len(line) \in Nat
        /\ line'[Len(line) + 1] = packet.id
        /\ \A n \in 1 .. Len(line) : line'[n] = line[n]
    BY <1>2, <2>1
  <2>3. \A k \in Slots : k # index /\ Unsent(k)' => Unsent(k)
    <3> SUFFICES ASSUME NEW k \in Slots, k # index, Unsent(k)' PROVE Unsent(k)
      OBVIOUS
    <3>1. PICK n \in 1 .. Len(line') : desc'[k].id = line'[n]
      BY <2>1 DEF Unsent
    <3>2. n \in 1 .. Len(line) \/ n = Len(line) + 1
      BY <2>2
    <3> QED
      BY <1>1, <1>3, <2>2, <3>1, <3>2 DEF Unsent
  <2>4. \A a, b \in 1 .. Len(line') : line'[a] = line'[b] => a = b
    <3> SUFFICES ASSUME NEW a \in 1 .. Len(line'), NEW b \in 1 .. Len(line'),
                        line'[a] = line'[b]
                 PROVE  a = b
      OBVIOUS
    <3>1. /\ a \in 1 .. Len(line) \/ a = Len(line) + 1
          /\ b \in 1 .. Len(line) \/ b = Len(line) + 1
      BY <2>2
    <3>2. \A n \in 1 .. Len(line) : line[n] # packet.id
      BY <1>1 DEF Names
    <3> QED
      BY <2>2, <3>1, <3>2 DEF Names
  <2> QED
    BY <1>1, <1>3, <2>1, <2>3, <2>4 DEF Names
<1>5. CASE ~LastShare
  <2>1. line' = line /\ packet'.id = packet.id
    <3>1. packet \in [id: Ids, chain: Chains, pbuf: Nat, from: Nat, read: Nat]
      BY <1>1 DEF IInv, PacketType
    <3>2. /\ line' = line
          /\ packet' = [packet EXCEPT !.read = @ + Share,
                                      !.pbuf = IF PbufDone THEN @ + 1 ELSE @,
                                      !.from = IF PbufDone THEN 0 ELSE @ + Share]
      BY <1>5 DEF MacbSend
    <3> QED
      BY <3>1, <3>2
  <2>2. \A k \in Slots : k # index /\ Unsent(k)' => Unsent(k)
    BY <1>1, <1>3, <2>1 DEF Unsent
  <2> QED
    BY <1>1, <1>3, <2>1, <2>2 DEF Names
<1> QED
  BY <1>4, <1>5

LEMMA TransmitNames ==
  ASSUME IInv, Names, Prompt, Transmit PROVE Names'
<1>1. /\ ~tcomp /\ line # << >>
      /\ desc' = [desc EXCEPT ![mac.at].ok = TRUE]
      /\ line' = SubSeq(line, 2, Len(line))
      /\ UNCHANGED <<index, clear, packet>>
  BY WholeIsLine DEF Transmit, Prompt
<1>2. /\ mac.at \in Slots /\ clear \in Slots /\ line \in Seq(Ids)
      /\ desc \in [Slots -> [ok: BOOLEAN, last: BOOLEAN, id: Ids \cup {0}, from: Nat,
                             len: 0 .. BufferSize]]
  BY DEF IInv, Types
<1>3. \A k \in Slots : /\ desc'[k].last = desc[k].last /\ desc'[k].id = desc[k].id
                       /\ desc'[k].ok => desc[k].ok \/ k = mac.at
  BY <1>1, <1>2
<1>4. /\ Len(line) \in Nat /\ Len(line) >= 1 /\ Len(line') = Len(line) - 1
      /\ \A n \in 1 .. Len(line') : n + 1 \in 1 .. Len(line) /\ line'[n] = line[n + 1]
      /\ Head(line) = line[1]
  BY <1>1, <1>2, Rest
<1>5. /\ Ends(mac.at) # {}
      /\ \A k \in Between(mac.at, End(mac.at)) : desc[k].id = Head(line)
  BY <1>1, WholeFromLayout DEF SentWhole
<1>6. clear = mac.at
  <2>1. PICK F, m : Layout(F, m)
    BY DEF IInv
  <2> QED
    BY <1>1, <2>1 DEF Layout, Sent
<1>7. End(clear)' = End(clear)
  <2>1. \A i : Between(clear, i) \subseteq Slots
    BY DEF Between
  <2>2. Ends(clear)' = Ends(clear)
    BY <1>1, <1>3, <2>1 DEF Ends
  <2> QED
    BY <1>1, <2>2 DEF End
<1>8. \A k \in Slots : desc[k].id = Head(line) => ~Unsent(k)'
  <2> SUFFICES ASSUME NEW k \in Slots, desc[k].id = Head(line), Unsent(k)' PROVE FALSE
    OBVIOUS
  <2>1. CASE \E n \in 1 .. Len(line') : desc'[k].id = line'[n]
    <3>1. PICK n \in 1 .. Len(line') : desc'[k].id = line'[n]
      BY <2>1
    <3>2. n + 1 \in 1 .. Len(line) /\ line[n + 1] = line[1] /\ 1 \in 1 .. Len(line)
      BY <1>3, <1>4, <3>1
    <3>3. n + 1 = 1
      BY <3>2 DEF Names
    <3> QED
      BY <3>1, <3>3
  <2>2. CASE packet # None /\ desc'[k].id = packet.id
    <3>1. 1 \in 1 .. Len(line) /\ line[1] = packet.id
      BY <1>3, <1>4, <2>2
    <3> QED
      BY <2>2, <3>1 DEF Names
  <2> QED
    BY <1>1, <2>1, <2>2 DEF Unsent
<1>9. \A k \in Slots : Unsent(k)' => Unsent(k)
  BY <1>1, <1>3, <1>4 DEF Unsent
<1>10. mac.at \in Between(mac.at, End(mac.at))
  <2>1. End(mac.at) \in Slots
    <3>1. PICK j : j \in Ends(mac.at)
      BY <1>5
    <3> QED
      BY <1>2, <3>1, EndIs
  <2>2. Off(mac.at, mac.at) = 0 /\ Off(mac.at, End(mac.at)) \in Nat
    BY <1>2, <2>1, OffSlot, OffValue, SlotsNat
  <2> QED
    BY <1>2, <2>1, <2>2, InBetween, SlotsNat
<1>11. \A k \in Slots : desc'[k].ok => ~Unsent(k)'
  BY <1>3, <1>5, <1>8, <1>9, <1>10 DEF Names
<1>12. \A k \in Between(clear, End(clear))' : ~Unsent(k)'
  <2>1. Between(clear, End(clear))' = Between(clear, End(clear))
    BY <1>1, <1>7 DEF Between
  <2>2. Between(clear, End(clear)) \subseteq Slots
    BY DEF Between
  <2> QED
    BY <1>5, <1>6, <1>8, <2>1, <2>2
<1>13. \A a, b \in 1 .. Len(line') : line'[a] = line'[b] => a = b
  <2> SUFFICES ASSUME NEW a \in 1 .. Len(line'), NEW b \in 1 .. Len(line'),
                      line'[a] = line'[b]
               PROVE  a = b
    OBVIOUS
  <2>1. a + 1 = b + 1
    BY <1>4 DEF Names
  <2> QED
    BY <1>4, <2>1
<1>14. packet' # None => \A a \in 1 .. Len(line') : line'[a] # packet'.id
  BY <1>1, <1>4 DEF Names
<1> QED
  BY <1>11, <1>12, <1>13, <1>14 DEF Names

LEMMA InterruptNames ==
  ASSUME IInv, Names, Interrupt PROVE Names'
<1>1. /\ tcomp /\ ~tcomp' /\ UNCHANGED <<index, packet, mac, line>>
  BY DEF Interrupt
<1>2. PICK F, m : Layout(F, m)
  BY DEF IInv
<1>3. /\ desc[clear].ok /\ clear \in Slots
  BY <1>1, <1>2 DEF IInv, Types, Layout, Sent
<1>4. PICK j \in Ends(clear) : desc' = ClearedUpTo(j)
  BY <1>1, <1>3 DEF Interrupt
<1>5. j = End(clear)
  BY <1>3, EndIs
<1>6. desc \in [Slots -> [ok: BOOLEAN, last: BOOLEAN, id: Ids \cup {0}, from: Nat,
                          len: 0 .. BufferSize]]
  BY DEF IInv, Types
<1>7. \A k \in Slots : /\ desc'[k].id = desc[k].id
                       /\ desc'[k].ok => desc[k].ok \/ k \in Between(clear, j)
  BY <1>4, <1>6 DEF ClearedUpTo
<1>8. \A k \in Slots : Unsent(k)' <=> Unsent(k)
  BY <1>1, <1>7 DEF Unsent
<1> QED
  BY <1>1, <1>5, <1>7, <1>8 DEF Names

LEMMA NamesHold ==
  ASSUME Prompt PROVE Spec => []Names
<1>1. IInv /\ Names /\ [Next]_vars => Names'
  <2> SUFFICES ASSUME IInv, Names, [Next]_vars PROVE Names'
    OBVIOUS
  <2>1. CASE Output
    BY <2>1, OutputNames
  <2>2. CASE MacbSend
    BY <2>2, MacbSendNames
  <2>3. CASE Transmit
    BY <2>3, TransmitNames
  <2>4. CASE Interrupt
    BY <2>4, InterruptNames
  <2>5. CASE Halt \/ Exhaust \/ Wait \/ UNCHANGED vars
    <3>1. UNCHANGED <<desc, clear, packet, tcomp, line>>
      BY <2>5 DEF Halt, Exhaust, Wait, vars
    <3>2. \A k : Unsent(k)' <=> Unsent(k)
      BY <3>1 DEF Unsent
    <3>3. End(clear)' = End(clear)
      BY <3>1 DEF End, Ends
    <3> QED
      BY <3>1, <3>2, <3>3 DEF Names, Between
  <2> QED
    BY <2>1, <2>2, <2>3, <2>4, <2>5 DEF Next
<1> QED
  BY InvariantHolds, NamesInit, <1>1, PTL DEF Spec

-----------------------------------------------------------------------------
(* Every variable keeps its type: the indices stay in the ring and each    *)
(* new packet gets an identifier of its own.                               *)
THEOREM TransmitTyped ==
  ASSUME Prompt PROVE Spec => []TypeOK
BY InvariantHolds, TypeFromInvariant, PTL

(* If each frame's interrupt is served before the MACB ends the next       *)
(* frame: while packets wait the MACB runs, and what it comes to next is   *)
(* the oldest of them, whole and in order.  The thread never overwrites    *)
(* what was not sent, and the two agree where the frame begins, also when  *)
(* the MACB took up a packet before it was copied whole and broke its      *)
(* frame off (macb.c:219-301).                                             *)
THEOREM OldestIsWhole ==
  ASSUME Prompt PROVE Spec => []SentWhole
BY InvariantHolds, WholeFromLayout, PTL

(* Under the same assumption, in every state of the ring: a buffer that    *)
(* holds a part of a packet that was not sent is not given back, and every *)
(* other buffer is free once the pending interrupt was served (macb.c:571- *)
(* 602).                                                                   *)
THEOREM BuffersAreBack ==
  ASSUME Prompt PROVE Spec => []BuffersReturn
BY InvariantHolds, NamesHold, FreeFromLayout, PTL
=============================================================================
