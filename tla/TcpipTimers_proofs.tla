------------------------- MODULE TcpipTimers_proofs -------------------------
(***************************************************************************)
(* Proofs about TcpipTimers, for any timers with any intervals, a counter  *)
(* of any width and a mailbox of any size.                                 *)
(***************************************************************************)
EXTENDS TcpipTimers, FiniteSetTheorems, WellFoundedInduction, TLAPS

-----------------------------------------------------------------------------
(* Induction, over a set of numbers. *)
LEMMA Least ==
  ASSUME NEW T, T \subseteq Nat, T # {}
  PROVE  \E m \in T : \A n \in T : ~(n < m)
<1>1. OpToRel(<, Nat) = {ss \in Nat \X Nat : ss[1] < ss[2]}
  BY Zenon DEF OpToRel
<1>2. PICK R : R = {ss \in Nat \X Nat : ss[1] < ss[2]}
  OBVIOUS
<1>3. IsWellFoundedOn(R, Nat)
  BY <1>1, <1>2, NatLessThanWellFounded, Zenon
<1>4. \A x, y \in Nat : <<x, y>> \in R <=> x < y
  BY <1>2
<1>5. PICK m \in T : \A n \in T : ~(<<n, m>> \in R)
  BY <1>3, WFMin
<1>6. \A n \in T : ~(n < m)
  BY <1>4, <1>5
<1> QED
  BY <1>6

LEMMA Induct ==
  ASSUME NEW S, 0 \in S, \A n \in Nat : n \in S => n + 1 \in S
  PROVE  Nat \subseteq S
<1> SUFFICES ASSUME Nat \ S # {} PROVE FALSE
  OBVIOUS
<1>1. PICK m \in Nat \ S : \A n \in Nat \ S : ~(n < m)
  BY Least
<1>2. m # 0 /\ m - 1 \in Nat /\ m - 1 \in S
  BY <1>1
<1>3. (m - 1) + 1 = m
  BY <1>1
<1> QED
  BY <1>1, <1>2, <1>3

-----------------------------------------------------------------------------
(* The list, and when its timers are due. *)

Entries == [h: Timers, time: Nat]

(* What defines the times: they are sums of those in the list. *)
Sums(d, l, n) ==
  /\ DOMAIN d = 0 .. n
  /\ d[0] = 0
  /\ \A i \in 1 .. n : d[i] = d[i - 1] + l[i].time

LEMMA SumsExist ==
  ASSUME NEW l \in Seq(Entries)
  PROVE  \E d \in [0 .. Len(l) -> Nat] : Sums(d, l, Len(l))
<1>1. PICK m \in Nat : m = Len(l)
  OBVIOUS
<1>2. ASSUME NEW i \in 1 .. m PROVE l[i].time \in Nat
  <2>1. l[i] \in Entries
    BY <1>1
  <2> QED
    BY <2>1 DEF Entries
<1>3. PICK S : S = {n \in Nat : n <= m => \E d \in [0 .. n -> Nat] : Sums(d, l, n)}
  OBVIOUS
<1>4. 0 \in S
  <2>1. PICK d : d = [i \in 0 .. 0 |-> 0]
    OBVIOUS
  <2>2. d \in [0 .. 0 -> Nat] /\ Sums(d, l, 0)
    BY <2>1 DEF Sums
  <2> QED
    BY <1>3, <2>2
<1>5. ASSUME NEW n \in Nat, n \in S PROVE n + 1 \in S
  <2>1. SUFFICES ASSUME n + 1 <= m
                 PROVE  \E d \in [0 .. n + 1 -> Nat] : Sums(d, l, n + 1)
    BY <1>3
  <2>2. PICK d \in [0 .. n -> Nat] : Sums(d, l, n)
    BY <1>1, <1>3, <1>5, <2>1
  <2>3. PICK t \in Nat : t = l[n + 1].time
    BY <1>1, <1>2, <2>1
  <2>4. PICK e : e = [i \in 0 .. n + 1 |-> IF i = n + 1 THEN d[n] + t ELSE d[i]]
    OBVIOUS
  <2>5. e \in [0 .. n + 1 -> Nat] /\ \A i \in 0 .. n : e[i] = d[i]
    BY <2>2, <2>3, <2>4
  <2>6. e[n + 1] = e[n] + l[n + 1].time
    BY <2>3, <2>4
  <2>7. ASSUME NEW i \in 1 .. n + 1 PROVE e[i] = e[i - 1] + l[i].time
    <3>1. CASE i = n + 1
      BY <2>6, <3>1
    <3>2. CASE i # n + 1
      <4>1. i \in 1 .. n /\ i - 1 \in 0 .. n /\ i \in 0 .. n
        BY <3>2
      <4>2. d[i] = d[i - 1] + l[i].time
        BY <2>2, <4>1 DEF Sums
      <4> QED
        BY <2>5, <4>1, <4>2
    <3> QED
      BY <3>1, <3>2
  <2>8. Sums(e, l, n + 1)
    <3>1. DOMAIN e = 0 .. n + 1
      BY <2>4
    <3>2. e[0] = 0
      BY <2>2, <2>5 DEF Sums
    <3> QED
      BY <2>7, <3>1, <3>2 DEF Sums
  <2> QED
    BY <2>5, <2>8
<1>6. m \in S
  BY <1>4, <1>5, Induct
<1> QED
  BY <1>1, <1>3, <1>6

LEMMA SumsAgree ==
  ASSUME NEW l, NEW m \in Nat, NEW d, NEW e, Sums(d, l, m), Sums(e, l, m)
  PROVE  \A n \in 0 .. m : e[n] = d[n]
<1>1. PICK S : S = {n \in Nat : n <= m => e[n] = d[n]}
  OBVIOUS
<1>2. 0 \in S
  BY <1>1 DEF Sums
<1>3. ASSUME NEW n \in Nat, n \in S PROVE n + 1 \in S
  <2> SUFFICES ASSUME n + 1 <= m PROVE e[n + 1] = d[n + 1]
    BY <1>1
  <2>1. n + 1 \in 1 .. m /\ (n + 1) - 1 = n /\ e[n] = d[n]
    BY <1>1, <1>3
  <2>2. e[n + 1] = e[n] + l[n + 1].time /\ d[n + 1] = d[n] + l[n + 1].time
    BY <2>1 DEF Sums
  <2> QED
    BY <2>1, <2>2
<1>4. Nat \subseteq S
  BY <1>2, <1>3, Induct
<1> QED
  BY <1>1, <1>4

(* The recursive definition is one of them, and the only one. *)
LEMMA DueIs ==
  ASSUME NEW l \in Seq(Entries)
  PROVE  /\ Due(l) \in [0 .. Len(l) -> Nat]
         /\ Sums(Due(l), l, Len(l))
<1>1. PICK d \in [0 .. Len(l) -> Nat] : Sums(d, l, Len(l))
  BY SumsExist
<1>2. Len(l) \in Nat
  OBVIOUS
<1>3. d = [i \in 0 .. Len(l) |-> IF i = 0 THEN 0 ELSE d[i - 1] + l[i].time]
  <2>1. \A i \in 0 .. Len(l) : d[i] = IF i = 0 THEN 0 ELSE d[i - 1] + l[i].time
    BY <1>1, <1>2 DEF Sums
  <2> QED
    BY <1>1, <2>1
<1>4. PICK e : e = Due(l)
  OBVIOUS
<1>5. e = [i \in 0 .. Len(l) |-> IF i = 0 THEN 0 ELSE e[i - 1] + l[i].time]
  BY <1>3, <1>4, Zenon DEF Due
<1>6. Sums(e, l, Len(l))
  BY <1>2, <1>5 DEF Sums
<1>7. \A n \in 0 .. Len(l) : e[n] = d[n]
  BY <1>1, <1>2, <1>6, SumsAgree
<1>8. e \in [0 .. Len(l) -> Nat]
  BY <1>1, <1>5, <1>7
<1> QED
  BY <1>4, <1>6, <1>8

LEMMA DueIsOnly ==
  ASSUME NEW l \in Seq(Entries), NEW e, Sums(e, l, Len(l))
  PROVE  \A i \in 0 .. Len(l) : Due(l)[i] = e[i]
<1>1. Sums(Due(l), l, Len(l)) /\ Len(l) \in Nat
  BY DueIs
<1> QED
  BY <1>1, SumsAgree

LEMMA DueGrows ==
  ASSUME NEW l \in Seq(Entries), NEW i \in 0 .. Len(l), NEW j \in 0 .. Len(l), i <= j
  PROVE  Due(l)[i] <= Due(l)[j]
<1>0. PICK m \in Nat : m = Len(l)
  OBVIOUS
<1>1. PICK d : d = Due(l) /\ m = Len(l)
  BY <1>0
<1>2. d \in [0 .. m -> Nat] /\ Sums(d, l, m)
  BY <1>1, DueIs
<1>3. ASSUME NEW k \in 1 .. m PROVE d[k - 1] <= d[k]
  <2>1. l[k] \in Entries
    BY <1>1
  <2>2. l[k].time \in Nat
    BY <2>1 DEF Entries
  <2>3. d[k] = d[k - 1] + l[k].time
    BY <1>2 DEF Sums
  <2>4. d[k - 1] \in Nat
    BY <1>2
  <2> QED
    BY <2>2, <2>3, <2>4
<1>4. PICK S : S = {n \in Nat : i + n <= m => d[i] <= d[i + n]}
  OBVIOUS
<1>5. i \in Nat /\ j \in Nat /\ i <= m /\ j <= m
  BY <1>1
<1>6. 0 \in S
  <2>1. d[i] \in Nat /\ i + 0 = i
    BY <1>2, <1>5
  <2> QED
    BY <1>4, <2>1
<1>7. ASSUME NEW n \in Nat, n \in S PROVE n + 1 \in S
  <2> SUFFICES ASSUME i + (n + 1) <= m PROVE d[i] <= d[i + (n + 1)]
    BY <1>4
  <2>1. d[i] <= d[i + n]
    BY <1>4, <1>5, <1>7
  <2>2. i + (n + 1) \in 1 .. m /\ (i + (n + 1)) - 1 = i + n /\ i + n \in 0 .. m
    BY <1>5
  <2>3. d[i + n] <= d[i + (n + 1)]
    BY <1>3, <2>2
  <2>4. d[i] \in Nat /\ d[i + n] \in Nat /\ d[i + (n + 1)] \in Nat
    BY <1>2, <1>5, <2>2
  <2> QED
    BY <2>1, <2>3, <2>4
<1>8. j - i \in S
  BY <1>5, <1>6, <1>7, Induct
<1>9. i + (j - i) = j
  BY <1>5
<1> QED
  BY <1>1, <1>4, <1>5, <1>8, <1>9

(* The timers that are due first are a first part of the list.             *)
LEMMA DueFirst ==
  ASSUME NEW l \in Seq(Entries), NEW t \in Nat
  PROVE  \E k \in 0 .. Len(l) :
           /\ Cardinality({i \in DOMAIN l : Due(l)[i] <= t}) = k
           /\ Due(l)[k] <= t /\ \A i \in k + 1 .. Len(l) : Due(l)[i] > t
<1>1. PICK m \in Nat : m = Len(l)
  OBVIOUS
<1>2. PICK d : d = Due(l)
  OBVIOUS
<1>3. d \in [0 .. m -> Nat] /\ d[0] = 0 /\ DOMAIN l = 1 .. m
  BY <1>1, <1>2, DueIs DEF Sums
<1>4. \A i, j \in 0 .. m : i <= j => d[i] <= d[j]
  BY <1>1, <1>2, DueGrows
<1>5. PICK T : T = {i \in 1 .. m : d[i] > t}
  OBVIOUS
<1>6. \E k \in 0 .. m : \A i \in 1 .. m : d[i] <= t <=> i <= k
  <2>1. CASE T = {}
    <3>1. \A i \in 1 .. m : d[i] <= t <=> i <= m
      <4>1. \A i \in 1 .. m : d[i] \in Nat /\ ~(d[i] > t)
        BY <1>3, <1>5, <2>1
      <4> QED
        BY <4>1
    <3> QED
      BY <3>1
  <2>2. CASE T # {}
    <3>1. T \subseteq Nat
      BY <1>5
    <3>2. PICK p \in T : \A n \in T : ~(n < p)
      BY <2>2, <3>1, Least
    <3>3. p \in 1 .. m /\ d[p] > t /\ d[p] \in Nat
      BY <1>3, <1>5, <3>2
    <3>4. ASSUME NEW i \in 1 .. m PROVE d[i] <= t <=> i <= p - 1
      <4>1. d[i] \in Nat
        BY <1>3
      <4>2. CASE i <= p - 1
        <5>1. i \notin T
          BY <3>2, <3>3, <4>2
        <5> QED
          BY <1>5, <4>1, <4>2, <5>1
      <4>3. CASE ~(i <= p - 1)
        <5>1. d[p] <= d[i]
          BY <1>4, <3>3, <4>3
        <5> QED
          BY <3>3, <4>1, <4>3, <5>1
      <4> QED
        BY <4>2, <4>3
    <3>5. p - 1 \in 0 .. m
      BY <3>3
    <3> QED
      BY <3>4, <3>5
  <2> QED
    BY <2>1, <2>2
<1>7. PICK k \in 0 .. m : \A i \in 1 .. m : d[i] <= t <=> i <= k
  BY <1>6
<1>8. {i \in DOMAIN l : d[i] <= t} = 1 .. k
  BY <1>3, <1>7
<1>9. Cardinality(1 .. k) = k
  BY <1>7, FS_Interval
<1>10. d[k] <= t
  <2>1. CASE k = 0
    BY <1>3, <2>1
  <2>2. CASE k # 0
    <3>1. k \in 1 .. m
      BY <1>7, <2>2
    <3> QED
      BY <1>7, <3>1
  <2> QED
    BY <2>1, <2>2
<1>11. ASSUME NEW i \in k + 1 .. m PROVE d[i] > t
  <2>1. i \in 1 .. m /\ ~(i <= k)
    BY <1>7
  <2>2. d[i] \in Nat /\ ~(d[i] <= t)
    BY <1>3, <1>7, <2>1
  <2> QED
    BY <2>2
<1> QED
  BY <1>1, <1>2, <1>7, <1>8, <1>9, <1>10, <1>11

(* A timer put into a list keeps the time that it and every other one is   *)
(* due, and nothing is waited for longer than the interval of its timer.   *)
InsertedAt(L, l, h, k) ==
  /\ L \in Seq(Entries) /\ Len(L) = Len(l) + 1
  /\ \A i \in 1 .. k : L[i].h = l[i].h /\ Due(L)[i] = Due(l)[i]
  /\ L[k + 1].h = h /\ Due(L)[k + 1] = Interval[h]
  /\ \A i \in k + 1 .. Len(l) : L[i + 1].h = l[i].h /\ Due(L)[i + 1] = Due(l)[i]
Bounded(l) == \A i \in 1 .. Len(l) : l[i].time <= Interval[l[i].h]

LEMMA InsertedIs ==
  ASSUME NEW l \in Seq(Entries), NEW h \in Timers, Bounded(l)
  PROVE  \E k \in 0 .. Len(l) : InsertedAt(Inserted(l, h), l, h, k) /\ Bounded(Inserted(l, h))
<1>1. PICK m \in Nat : m = Len(l)
  OBVIOUS
<1>2. PICK d : d = Due(l)
  OBVIOUS
<1>3. PICK t \in Nat \ {0} : t = Interval[h]
  BY TimersAssumption
<1>4. d \in [0 .. m -> Nat] /\ Sums(d, l, m) /\ DOMAIN l = 1 .. m
  BY <1>1, <1>2, DueIs
<1>5. PICK k \in 0 .. m : /\ Cardinality({i \in DOMAIN l : d[i] <= t}) = k
                          /\ d[k] <= t /\ \A i \in k + 1 .. m : d[i] > t
  BY <1>1, <1>2, <1>3, DueFirst
<1>6. \A i \in 1 .. m : l[i] \in Entries
  BY <1>1
<1>7. \A i \in 1 .. m : l[i].time \in Nat /\ l[i].h \in Timers
  BY <1>6 DEF Entries
<1>8. PICK n \in Nat : n = t - d[k]
  BY <1>3, <1>4, <1>5
<1>9. PICK new \in Entries : new = [h |-> h, time |-> n]
  BY DEF Entries
<1>10. PICK after : after = [i \in 1 .. m - k |->
         IF i = 1 THEN [l[k + 1] EXCEPT !.time = @ - new.time] ELSE l[k + i]]
  OBVIOUS
<1>11. Inserted(l, h) = SubSeq(l, 1, k) \o <<new>> \o after
  BY <1>1, <1>2, <1>3, <1>5, <1>8, <1>9, <1>10 DEF Inserted
<1>12. ASSUME k < m
       PROVE  /\ d[k + 1] = d[k] + l[k + 1].time /\ d[k + 1] > t
              /\ l[k + 1].time - n \in Nat /\ l[k + 1].time - n <= l[k + 1].time
              /\ [l[k + 1] EXCEPT !.time = @ - new.time]
                   = [h |-> l[k + 1].h, time |-> l[k + 1].time - n]
  <2>1. k + 1 \in 1 .. m /\ k + 1 \in k + 1 .. m /\ (k + 1) - 1 = k
    BY <1>12
  <2>2. d[k + 1] = d[k] + l[k + 1].time
    BY <1>4, <2>1 DEF Sums
  <2>3. d[k + 1] > t
    BY <1>5, <2>1
  <2>4. d[k] \in Nat /\ l[k + 1].time \in Nat
    BY <1>4, <1>7, <2>1
  <2>5. l[k + 1].time - n \in Nat /\ l[k + 1].time - n <= l[k + 1].time
    <3>1. PICK x \in Nat : x = l[k + 1].time
      BY <2>4
    <3>2. PICK y \in Nat : y = d[k]
      BY <2>4
    <3>3. y + x > t /\ n = t - y
      BY <1>8, <2>2, <2>3, <3>1, <3>2
    <3>4. x - n \in Nat /\ x - n <= x
      BY <1>3, <1>8, <3>1, <3>2, <3>3
    <3> QED
      BY <3>1, <3>4
  <2>6. l[k + 1] \in Entries
    BY <1>6, <2>1
  <2>7. [l[k + 1] EXCEPT !.time = @ - new.time]
          = [h |-> l[k + 1].h, time |-> l[k + 1].time - n]
    BY <1>9, <2>6 DEF Entries
  <2> QED
    BY <2>2, <2>3, <2>5, <2>7
<1>13. after \in Seq(Entries) /\ Len(after) = m - k
  <2>1. ASSUME NEW i \in 1 .. m - k PROVE after[i] \in Entries
    <3>1. CASE i = 1
      <4>1. k < m /\ k + 1 \in 1 .. m
        BY <3>1
      <4>2. after[i] = [h |-> l[k + 1].h, time |-> l[k + 1].time - n]
        BY <1>10, <1>12, <3>1, <4>1
      <4>3. l[k + 1].time - n \in Nat /\ l[k + 1].h \in Timers
        BY <1>7, <1>12, <4>1
      <4> QED
        BY <4>2, <4>3 DEF Entries
    <3>2. CASE i # 1
      <4>1. k + i \in 1 .. m /\ after[i] = l[k + i]
        BY <1>10, <3>2
      <4> QED
        BY <1>6, <4>1
    <3> QED
      BY <3>1, <3>2
  <2>2. PICK q \in Nat : q = m - k
    BY <1>5
  <2>3. after \in [1 .. q -> Entries]
    BY <1>10, <2>1, <2>2
  <2> QED
    BY <2>2, <2>3
<1>14. PICK a : a = SubSeq(l, 1, k)
  OBVIOUS
<1>15. a \in Seq(Entries) /\ Len(a) = k /\ \A i \in 1 .. k : a[i] = l[i]
  BY <1>1, <1>5, <1>14
<1>16. PICK b : b = a \o <<new>>
  OBVIOUS
<1>17. /\ b \in Seq(Entries) /\ Len(b) = k + 1
       /\ \A i \in 1 .. k : b[i] = l[i]
       /\ b[k + 1] = new
  BY <1>9, <1>15, <1>16
<1>18. PICK L : L = b \o after
  OBVIOUS
<1>19. /\ L \in Seq(Entries) /\ Len(L) = m + 1
       /\ \A i \in 1 .. k + 1 : L[i] = b[i]
       /\ \A i \in k + 2 .. m + 1 : L[i] = after[i - (k + 1)]
  <2>1. PICK q \in Nat, p \in Nat : q = m - k /\ p = k + 1
    BY <1>5
  <2>2. Len(after) = q /\ Len(b) = p /\ m + 1 = p + q
    BY <1>5, <1>13, <1>17, <2>1
  <2>3. L \in Seq(Entries) /\ Len(L) = p + q
    BY <1>13, <1>17, <1>18, <2>2
  <2>4. \A i \in 1 .. p : L[i] = b[i]
    BY <1>13, <1>17, <1>18, <2>1, <2>2
  <2>5. \A i \in p + 1 .. p + q : L[i] = after[i - p]
    BY <1>13, <1>17, <1>18, <2>1, <2>2
  <2>6. p + 1 = k + 2
    BY <1>5, <2>1
  <2> QED
    BY <2>1, <2>2, <2>3, <2>4, <2>5, <2>6
<1>20. /\ L[k + 1] = new /\ \A i \in 1 .. k : L[i] = l[i]
       /\ k < m => L[k + 2] = [h |-> l[k + 1].h, time |-> l[k + 1].time - n]
       /\ \A i \in k + 3 .. m + 1 : L[i] = l[i - 1]
  <2>1. L[k + 1] = new /\ \A i \in 1 .. k : L[i] = l[i]
    BY <1>5, <1>17, <1>19
  <2>2. ASSUME k < m PROVE L[k + 2] = [h |-> l[k + 1].h, time |-> l[k + 1].time - n]
    <3>1. 1 \in 1 .. m - k /\ (k + 2) - (k + 1) = 1 /\ k + 2 \in k + 2 .. m + 1
      BY <1>5, <2>2
    <3>2. L[k + 2] = after[1]
      BY <1>19, <3>1
    <3>3. after[1] = [l[k + 1] EXCEPT !.time = @ - new.time]
      BY <1>10, <3>1
    <3> QED
      BY <1>12, <2>2, <3>2, <3>3
  <2>3. ASSUME NEW i \in k + 3 .. m + 1 PROVE L[i] = l[i - 1]
    <3>1. i \in k + 2 .. m + 1 /\ i - (k + 1) \in 1 .. m - k /\ i - (k + 1) # 1
          /\ k + (i - (k + 1)) = i - 1
      BY <1>5
    <3> QED
      BY <1>10, <1>19, <3>1
  <2> QED
    BY <2>1, <2>2, <2>3
<1>21. \A i \in k + 1 .. m : L[i + 1].h = l[i].h
  <2> SUFFICES ASSUME NEW i \in k + 1 .. m PROVE L[i + 1].h = l[i].h
    OBVIOUS
  <2>1. CASE i = k + 1
    <3>1. k < m /\ i + 1 = k + 2
      BY <1>5, <2>1
    <3> QED
      BY <1>20, <2>1, <3>1
  <2>2. CASE i # k + 1
    <3>1. i + 1 \in k + 3 .. m + 1 /\ (i + 1) - 1 = i
      BY <1>5, <2>2
    <3> QED
      BY <1>20, <3>1
  <2> QED
    BY <2>1, <2>2
<1>22. PICK e : e = [i \in 0 .. m + 1 |->
                      IF i <= k THEN d[i] ELSE IF i = k + 1 THEN t ELSE d[i - 1]]
  OBVIOUS
<1>23. /\ \A i \in 0 .. k : e[i] = d[i]
       /\ e[k + 1] = t
       /\ \A i \in k + 2 .. m + 1 : e[i] = d[i - 1]
  BY <1>5, <1>22
<1>24. Sums(e, L, m + 1)
  <2>1. DOMAIN e = 0 .. m + 1
    BY <1>22
  <2>2. e[0] = 0
    <3>1. e[0] = d[0]
      BY <1>5, <1>23
    <3> QED
      BY <1>4, <3>1 DEF Sums
  <2>3. ASSUME NEW i \in 1 .. m + 1 PROVE e[i] = e[i - 1] + L[i].time
    <3>1. CASE i <= k
      <4>1. i \in 1 .. k /\ i \in 0 .. k /\ i - 1 \in 0 .. k /\ i \in 1 .. m
        BY <1>5, <3>1
      <4>2. d[i] = d[i - 1] + l[i].time
        BY <1>4, <4>1 DEF Sums
      <4> QED
        BY <1>20, <1>23, <4>1, <4>2
    <3>2. CASE i = k + 1
      <4>1. i - 1 = k /\ k \in 0 .. k
        BY <1>5, <3>2
      <4>2. e[i - 1] = d[k] /\ e[i] = t /\ L[i].time = n
        BY <1>9, <1>20, <1>23, <3>2, <4>1
      <4>3. d[k] \in Nat
        BY <1>4, <1>5
      <4> QED
        BY <1>3, <1>8, <4>2, <4>3
    <3>3. CASE i = k + 2
      <4>1. k < m /\ i - 1 = k + 1 /\ i \in k + 2 .. m + 1
        BY <1>5, <3>3
      <4>2. e[i - 1] = t /\ e[i] = d[k + 1] /\ L[i].time = l[k + 1].time - n
        BY <1>20, <1>23, <3>3, <4>1
      <4>3. d[k + 1] = d[k] + l[k + 1].time
        BY <1>12, <4>1
      <4>4. d[k] \in Nat /\ l[k + 1].time \in Nat
        BY <1>4, <1>5, <1>7, <4>1
      <4>5. PICK u \in Nat : u = d[k]
        BY <4>4
      <4>6. PICK v \in Nat : v = l[k + 1].time
        BY <4>4
      <4>7. e[i] = u + v /\ e[i - 1] = t /\ L[i].time = v - n /\ n = t - u
        BY <1>8, <4>2, <4>3, <4>5, <4>6
      <4>8. t \in Nat
        BY <1>3
      <4>9. \A x, y, z \in Nat : y + z = x + (z - (x - y))
        OBVIOUS
      <4>10. u + v = t + (v - (t - u))
        BY <4>5, <4>6, <4>8, <4>9
      <4>11. L[i].time = v - (t - u)
        BY <4>7
      <4> QED
        BY <4>7, <4>10, <4>11
    <3>4. CASE i > k + 2
      <4>1. /\ i \in k + 3 .. m + 1 /\ i \in k + 2 .. m + 1 /\ i - 1 \in k + 2 .. m + 1
            /\ i - 1 \in 1 .. m
        BY <1>5, <3>4
      <4>2. e[i] = d[i - 1] /\ e[i - 1] = d[(i - 1) - 1] /\ L[i] = l[i - 1]
        BY <1>20, <1>23, <4>1
      <4>3. d[i - 1] = d[(i - 1) - 1] + l[i - 1].time
        BY <1>4, <4>1 DEF Sums
      <4> QED
        BY <4>2, <4>3
    <3> QED
      BY <1>5, <3>1, <3>2, <3>3, <3>4
  <2> QED
    BY <2>1, <2>2, <2>3 DEF Sums
<1>25. \A i \in 0 .. m + 1 : Due(L)[i] = e[i]
  <2>1. Sums(Due(L), L, m + 1)
    BY <1>19, DueIs
  <2> QED
    BY <1>24, <2>1, SumsAgree
<1>26. InsertedAt(L, l, h, k)
  <2>1. \A i \in 1 .. k : L[i].h = l[i].h /\ Due(L)[i] = d[i]
    BY <1>5, <1>20, <1>23, <1>25
  <2>2. L[k + 1].h = h /\ Due(L)[k + 1] = t
    <3>1. k + 1 \in 0 .. m + 1
      BY <1>5
    <3> QED
      BY <1>9, <1>20, <1>23, <1>25, <3>1
  <2>3. \A i \in k + 1 .. m : Due(L)[i + 1] = d[i]
    <3> SUFFICES ASSUME NEW i \in k + 1 .. m PROVE Due(L)[i + 1] = d[i]
      OBVIOUS
    <3>1. i + 1 \in k + 2 .. m + 1 /\ (i + 1) - 1 = i /\ i + 1 \in 0 .. m + 1
      BY <1>5
    <3> QED
      BY <1>23, <1>25, <3>1
  <2> QED
    BY <1>1, <1>2, <1>3, <1>19, <1>21, <2>1, <2>2, <2>3 DEF InsertedAt
<1>27. Bounded(L)
  <2> SUFFICES ASSUME NEW i \in 1 .. m + 1 PROVE L[i].time <= Interval[L[i].h]
    BY <1>19 DEF Bounded
  <2>0. \A j \in 1 .. m : l[j].time <= Interval[l[j].h] /\ Interval[l[j].h] \in Nat
    BY <1>1, <1>7, TimersAssumption DEF Bounded
  <2>1. CASE i <= k
    BY <1>5, <1>20, <2>0, <2>1
  <2>2. CASE i = k + 1
    <3>1. L[i].h = h /\ L[i].time = n
      BY <1>9, <1>20, <2>2
    <3>2. d[k] \in Nat
      BY <1>4, <1>5
    <3> QED
      BY <1>3, <1>8, <3>1, <3>2
  <2>3. CASE i = k + 2
    <3>1. k < m /\ k + 1 \in 1 .. m
      BY <1>5, <2>3
    <3>2. L[i].h = l[k + 1].h /\ L[i].time = l[k + 1].time - n
      BY <1>20, <2>3, <3>1
    <3>3. l[k + 1].time - n <= l[k + 1].time /\ l[k + 1].time - n \in Nat
      BY <1>12, <3>1
    <3>4. l[k + 1].time <= Interval[l[k + 1].h] /\ Interval[l[k + 1].h] \in Nat
      BY <2>0, <3>1
    <3>5. PICK x \in Nat : x = l[k + 1].time - n
      BY <3>3
    <3>6. PICK y \in Nat : y = l[k + 1].time
      BY <1>7, <3>1
    <3>7. PICK z \in Nat : z = Interval[l[k + 1].h]
      BY <3>4
    <3>8. x <= y /\ y <= z
      BY <3>3, <3>4, <3>5, <3>6, <3>7
    <3>9. x <= z
      BY <3>8
    <3>10. L[i].time = x /\ Interval[L[i].h] = z
      BY <3>2, <3>5, <3>7
    <3> QED
      BY <3>9, <3>10
  <2>4. CASE i > k + 2
    <3>1. i \in k + 3 .. m + 1 /\ i - 1 \in 1 .. m
      BY <1>5, <2>4
    <3> QED
      BY <1>20, <2>0, <3>1
  <2> QED
    BY <1>5, <2>1, <2>2, <2>3, <2>4
<1>28. L = Inserted(l, h)
  BY <1>11, <1>14, <1>16, <1>18
<1> QED
  BY <1>1, <1>5, <1>26, <1>27, <1>28

(* The first timer leaves the list. *)
LEMMA TailIs ==
  ASSUME NEW l \in Seq(Entries), l # << >>
  PROVE  /\ Head(l) = l[1] /\ Tail(l) \in Seq(Entries) /\ Len(Tail(l)) = Len(l) - 1
         /\ Len(l) >= 1 /\ l[1] \in Entries
         /\ \A i \in 1 .. Len(l) - 1 :
              Tail(l)[i] = l[i + 1] /\ Due(Tail(l))[i] = Due(l)[i + 1] - l[1].time
<1>1. PICK m \in Nat : m = Len(l) - 1
  OBVIOUS
<1>2. PICK L : L = Tail(l)
  OBVIOUS
<1>3. Len(l) = m + 1 /\ 1 \in 1 .. m + 1
  BY <1>1
<1>4. L \in Seq(Entries) /\ Len(L) = m
  BY <1>1, <1>2
<1>5. \A i \in 1 .. m : L[i] = l[i + 1]
  BY <1>1, <1>2
<1>6. Head(l) = l[1] /\ l[1] \in Entries
  BY <1>3
<1>7. PICK d : d = Due(l)
  OBVIOUS
<1>8. d \in [0 .. m + 1 -> Nat] /\ Sums(d, l, m + 1)
  BY <1>3, <1>7, DueIs
<1>9. PICK t \in Nat : t = l[1].time
  BY <1>6 DEF Entries
<1>10. d[1] = t
  <2>1. d[1] = d[1 - 1] + l[1].time /\ d[0] = 0 /\ 1 - 1 = 0
    BY <1>3, <1>8 DEF Sums
  <2> QED
    BY <1>9, <2>1
<1>11. PICK e : e = [i \in 0 .. m |-> d[i + 1] - t]
  OBVIOUS
<1>12. Sums(e, L, m)
  <2>1. DOMAIN e = 0 .. m /\ e[0] = 0
    BY <1>9, <1>10, <1>11
  <2>2. ASSUME NEW i \in 1 .. m PROVE e[i] = e[i - 1] + L[i].time
    <3>1. i + 1 \in 1 .. m + 1 /\ (i + 1) - 1 = i /\ i \in 0 .. m + 1 /\ i \in 0 .. m
          /\ i - 1 \in 0 .. m /\ (i - 1) + 1 = i
      OBVIOUS
    <3>2. d[i + 1] = d[i] + l[i + 1].time
      BY <1>8, <3>1 DEF Sums
    <3>3. e[i] = d[i + 1] - t /\ e[i - 1] = d[i] - t
      BY <1>11, <3>1
    <3>4. L[i].time \in Nat /\ L[i] = l[i + 1]
      <4>1. L[i] \in Entries /\ L[i] = l[i + 1]
        BY <1>4, <1>5
      <4> QED
        BY <4>1 DEF Entries
    <3>5. d[i] \in Nat
      BY <1>8, <3>1
    <3> QED
      BY <1>9, <3>2, <3>3, <3>4, <3>5
  <2> QED
    BY <2>1, <2>2 DEF Sums
<1>13. \A i \in 0 .. m : Due(L)[i] = e[i]
  <2>1. Sums(Due(L), L, m)
    BY <1>4, DueIs
  <2> QED
    BY <1>12, <2>1, SumsAgree
<1>14. \A i \in 1 .. m : Due(L)[i] = d[i + 1] - t
  BY <1>11, <1>13
<1> QED
  BY <1>1, <1>2, <1>3, <1>4, <1>5, <1>6, <1>7, <1>9, <1>14

(* Less is to be waited for the first timer, and so for every one. *)
Shorter(l, n) == [l EXCEPT ![1].time = n]

LEMMA ShorterIs ==
  ASSUME NEW l \in Seq(Entries), l # << >>, NEW n \in Nat, n <= l[1].time, Bounded(l)
  PROVE  /\ Shorter(l, n) \in Seq(Entries) /\ Len(Shorter(l, n)) = Len(l)
         /\ Bounded(Shorter(l, n))
         /\ \A i \in 1 .. Len(l) :
              /\ Shorter(l, n)[i].h = l[i].h
              /\ Due(Shorter(l, n))[i] = Due(l)[i] - (l[1].time - n)
<1>1. PICK m \in Nat : m = Len(l)
  OBVIOUS
<1>2. m >= 1 /\ DOMAIN l = 1 .. m /\ \A i \in 1 .. m : l[i] \in Entries
  BY <1>1
<1>3. PICK t \in Nat : t = l[1].time
  BY <1>2 DEF Entries
<1>4. PICK first \in Entries : first = [l[1] EXCEPT !.time = n]
  <2>1. l[1] \in Entries
    BY <1>2
  <2>2. [l[1] EXCEPT !.time = n] \in Entries
    BY <2>1 DEF Entries
  <2> QED
    BY <2>2
<1>5. PICK K : K = Shorter(l, n) /\ K = [l EXCEPT ![1] = first]
  BY <1>4 DEF Shorter
<1>6. K \in Seq(Entries) /\ Len(K) = m /\ K[1] = first /\ \A i \in 2 .. m : K[i] = l[i]
  BY <1>1, <1>2, <1>5
<1>7. first.time = n /\ first.h = l[1].h
  BY <1>2, <1>4 DEF Entries
<1>8. PICK d : d = Due(l)
  OBVIOUS
<1>9. d \in [0 .. m -> Nat] /\ Sums(d, l, m)
  BY <1>1, <1>8, DueIs
<1>10. PICK e : e = [i \in 0 .. m |-> IF i = 0 THEN 0 ELSE d[i] - (t - n)]
  OBVIOUS
<1>11. Sums(e, K, m)
  <2>1. DOMAIN e = 0 .. m /\ e[0] = 0
    BY <1>10
  <2>2. ASSUME NEW i \in 1 .. m PROVE e[i] = e[i - 1] + K[i].time
    <3>1. i \in 0 .. m /\ i - 1 \in 0 .. m /\ d[i] = d[i - 1] + l[i].time
      BY <1>9 DEF Sums
    <3>2. d[i] \in Nat /\ d[i - 1] \in Nat /\ e[i] = d[i] - (t - n)
      BY <1>9, <1>10, <3>1
    <3>3. CASE i = 1
      <4>1. d[i - 1] = 0 /\ e[i - 1] = 0 /\ K[i].time = n
        BY <1>6, <1>7, <1>9, <1>10, <3>3 DEF Sums
      <4> QED
        BY <1>3, <3>1, <3>2, <3>3, <4>1
    <3>4. CASE i # 1
      <4>1. i \in 2 .. m /\ i - 1 # 0
        BY <3>4
      <4>2. e[i - 1] = d[i - 1] - (t - n) /\ K[i] = l[i]
        BY <1>6, <1>10, <3>1, <4>1
      <4>3. PICK q \in Nat : q = l[i].time
        BY <1>2 DEF Entries
      <4>4. PICK p \in Nat : p = d[i - 1]
        BY <3>2
      <4>5. e[i] = (p + q) - (t - n) /\ e[i - 1] = p - (t - n) /\ K[i].time = q
        BY <3>1, <3>2, <4>2, <4>3, <4>4
      <4>6. (p + q) - (t - n) = (p - (t - n)) + q
        <5>1. PICK u \in Int : u = t - n
          BY <1>3
        <5>2. (p + q) - u = (p - u) + q
          BY <4>3, <4>4, <5>1
        <5> QED
          BY <5>1, <5>2
      <4> QED
        BY <4>5, <4>6
    <3> QED
      BY <3>3, <3>4
  <2> QED
    BY <2>1, <2>2 DEF Sums
<1>12. \A i \in 0 .. m : Due(K)[i] = e[i]
  <2>1. K \in Seq(Entries) /\ Sums(e, K, Len(K)) /\ Len(K) = m
    BY <1>6, <1>11
  <2>2. \A i \in 0 .. Len(K) : Due(K)[i] = e[i]
    BY <2>1, DueIsOnly
  <2> QED
    BY <2>1, <2>2
<1>13. \A i \in 1 .. m : Due(K)[i] = d[i] - (t - n)
  BY <1>10, <1>12
<1>14. \A i \in 1 .. m : K[i].h = l[i].h
  <2> SUFFICES ASSUME NEW i \in 1 .. m PROVE K[i].h = l[i].h
    OBVIOUS
  <2>1. i = 1 \/ i \in 2 .. m
    OBVIOUS
  <2> QED
    BY <1>6, <1>7, <2>1
<1>15. Bounded(K)
  <2> SUFFICES ASSUME NEW i \in 1 .. m PROVE K[i].time <= Interval[K[i].h]
    BY <1>6 DEF Bounded
  <2>1. l[i].time <= Interval[l[i].h]
    BY <1>1 DEF Bounded
  <2>2. Interval[l[i].h] \in Nat /\ l[i].time \in Nat
    BY <1>2, TimersAssumption DEF Entries
  <2>3. CASE i = 1
    BY <1>3, <1>6, <1>7, <2>1, <2>2, <2>3
  <2>4. CASE i # 1
    <3>1. i \in 2 .. m
      BY <2>4
    <3> QED
      BY <1>6, <2>1, <3>1
  <2> QED
    BY <2>3, <2>4
<1> QED
  BY <1>1, <1>3, <1>5, <1>6, <1>8, <1>13, <1>14, <1>15

-----------------------------------------------------------------------------
(* Which timers are listed. *)
Once(l) == \A i, j \in 1 .. Len(l) : l[i].h = l[j].h => i = j

LEMMA ListedIs ==
  ASSUME NEW l \in Seq(Entries)
  PROVE  /\ Listed(l) \subseteq Timers
         /\ \A h : h \in Listed(l) <=> \E i \in 1 .. Len(l) : l[i].h = h
<1>1. DOMAIN l = 1 .. Len(l) /\ \A i \in 1 .. Len(l) : l[i] \in Entries
  OBVIOUS
<1>2. \A i \in 1 .. Len(l) : l[i].h \in Timers
  BY <1>1 DEF Entries
<1> QED
  BY <1>1, <1>2 DEF Listed

LEMMA TimersFinite ==
  IsFiniteSet(Timers) /\ Cardinality(Timers) \in Nat /\ Tcp \in Timers /\ Tcp \notin Periodic
<1>1. Timers = Periodic \cup {Tcp} /\ IsFiniteSet(Periodic)
  BY TimersAssumption DEF Timers
<1> QED
  BY <1>1, TimersAssumption, FS_AddElement, FS_CardinalityType

(* As many as there are entries. *)
LEMMA ListedCounts ==
  ASSUME NEW l \in Seq(Entries), Once(l)
  PROVE  Cardinality(Listed(l)) = Len(l) /\ Len(l) <= Cardinality(Timers)
         /\ \A h \in Timers \ Listed(l) : Len(l) < Cardinality(Timers)
<1>1. PICK m \in Nat : m = Len(l)
  OBVIOUS
<1>2. PICK T : T = Listed(l)
  OBVIOUS
<1>3. PICK f : f = [i \in 1 .. m |-> l[i].h]
  OBVIOUS
<1>4. \A h : h \in T <=> \E i \in 1 .. m : l[i].h = h
  BY <1>1, <1>2, ListedIs
<1>5. f \in [1 .. m -> T]
  BY <1>3, <1>4
<1>6. \A h \in T : \E i \in 1 .. m : f[i] = h
  BY <1>3, <1>4
<1>7. \A i, j \in 1 .. m : f[i] = f[j] => i = j
  BY <1>1, <1>3 DEF Once
<1>8. f \in Surjection(1 .. m, T) /\ f \in Injection(1 .. m, T)
  BY <1>5, <1>6, <1>7 DEF Surjection, Injection, IsInjective
<1>9. IsFiniteSet(1 .. m) /\ Cardinality(1 .. m) = m
  BY FS_Interval
<1>10. Cardinality(T) = m
  BY <1>8, <1>9, FS_Surjection
<1>11. T \in SUBSET Timers
  BY <1>2, ListedIs
<1>12. m <= Cardinality(Timers) /\ (m = Cardinality(Timers) => T = Timers)
  BY <1>10, <1>11, TimersFinite, FS_Subset
<1>13. \A h \in Timers \ T : m < Cardinality(Timers)
  BY <1>12, TimersFinite
<1> QED
  BY <1>1, <1>2, <1>10, <1>12, <1>13

LEMMA InsertedListed ==
  ASSUME NEW l \in Seq(Entries), Once(l), Bounded(l), NEW h \in Timers \ Listed(l)
  PROVE  /\ Inserted(l, h) \in Seq(Entries) /\ Inserted(l, h) # << >>
         /\ Listed(Inserted(l, h)) = Listed(l) \cup {h}
         /\ Once(Inserted(l, h)) /\ Bounded(Inserted(l, h))
<1>1. PICK L : L = Inserted(l, h)
  OBVIOUS
<1>2. PICK m \in Nat : m = Len(l)
  OBVIOUS
<1>3. PICK k \in 0 .. m : InsertedAt(L, l, h, k) /\ Bounded(L)
  BY <1>1, <1>2, InsertedIs
<1>4. /\ L \in Seq(Entries) /\ Len(L) = m + 1 /\ L[k + 1].h = h
      /\ \A i \in 1 .. k : L[i].h = l[i].h
      /\ \A i \in k + 1 .. m : L[i + 1].h = l[i].h
  BY <1>2, <1>3 DEF InsertedAt
<1>5. PICK at : at = [i \in 1 .. m + 1 |-> IF i <= k THEN i ELSE i - 1]
  OBVIOUS
<1>6. \A i \in 1 .. m + 1 : i # k + 1 => at[i] \in 1 .. m /\ L[i].h = l[at[i]].h
  <2> SUFFICES ASSUME NEW i \in 1 .. m + 1, i # k + 1
               PROVE  at[i] \in 1 .. m /\ L[i].h = l[at[i]].h
    OBVIOUS
  <2>1. CASE i <= k
    <3>1. i \in 1 .. k /\ i \in 1 .. m /\ at[i] = i
      BY <1>3, <1>5, <2>1
    <3> QED
      BY <1>4, <3>1
  <2>2. CASE ~(i <= k)
    <3>1. i - 1 \in k + 1 .. m /\ i - 1 \in 1 .. m /\ (i - 1) + 1 = i /\ at[i] = i - 1
      BY <1>3, <1>5, <2>2
    <3> QED
      BY <1>4, <3>1
  <2> QED
    BY <2>1, <2>2
<1>7. \A j \in 1 .. m : \E i \in 1 .. m + 1 : i # k + 1 /\ at[i] = j
  <2> SUFFICES ASSUME NEW j \in 1 .. m PROVE \E i \in 1 .. m + 1 : i # k + 1 /\ at[i] = j
    OBVIOUS
  <2>1. CASE j <= k
    <3>1. j \in 1 .. m + 1 /\ j # k + 1 /\ at[j] = j
      BY <1>3, <1>5, <2>1
    <3> QED
      BY <3>1
  <2>2. CASE ~(j <= k)
    <3>1. j + 1 \in 1 .. m + 1 /\ j + 1 # k + 1 /\ at[j + 1] = j
      BY <1>3, <1>5, <2>2
    <3> QED
      BY <3>1
  <2> QED
    BY <2>1, <2>2
<1>8. \A i, j \in 1 .. m + 1 : i # k + 1 /\ j # k + 1 /\ at[i] = at[j] => i = j
  BY <1>3, <1>5
<1>9. /\ \A x : x \in Listed(l) <=> \E i \in 1 .. m : l[i].h = x
      /\ \A x : x \in Listed(L) <=> \E i \in 1 .. m + 1 : L[i].h = x
  BY <1>2, <1>4, ListedIs
<1>10. k + 1 \in 1 .. m + 1
  BY <1>3
<1>11. ASSUME NEW x PROVE x \in Listed(L) <=> x \in Listed(l) \/ x = h
  <2>1. ASSUME x \in Listed(L), x # h PROVE x \in Listed(l)
    <3>1. PICK i \in 1 .. m + 1 : L[i].h = x
      BY <1>9, <2>1
    <3>2. i # k + 1
      BY <1>4, <2>1, <3>1
    <3> QED
      BY <1>6, <1>9, <3>1, <3>2
  <2>2. ASSUME x \in Listed(l) PROVE x \in Listed(L)
    <3>1. PICK j \in 1 .. m : l[j].h = x
      BY <1>9, <2>2
    <3>2. PICK i \in 1 .. m + 1 : i # k + 1 /\ at[i] = j
      BY <1>7
    <3> QED
      BY <1>6, <1>9, <3>1, <3>2
  <2>3. h \in Listed(L)
    BY <1>4, <1>9, <1>10
  <2> QED
    BY <2>1, <2>2, <2>3
<1>12. Once(L)
  <2> SUFFICES ASSUME NEW i \in 1 .. m + 1, NEW j \in 1 .. m + 1, L[i].h = L[j].h
               PROVE  i = j
    BY <1>4 DEF Once
  <2>1. ASSUME NEW x \in 1 .. m + 1, x # k + 1 PROVE L[x].h # h
    <3>1. L[x].h \in Listed(l)
      BY <1>6, <1>9, <2>1
    <3> QED
      BY <3>1
  <2>2. CASE i = k + 1 \/ j = k + 1
    BY <1>4, <2>1, <2>2
  <2>3. CASE i # k + 1 /\ j # k + 1
    <3>1. at[i] \in 1 .. m /\ at[j] \in 1 .. m /\ l[at[i]].h = l[at[j]].h
      BY <1>6, <2>3
    <3>2. at[i] = at[j]
      BY <1>2, <3>1 DEF Once
    <3> QED
      BY <1>8, <2>3, <3>2
  <2> QED
    BY <2>2, <2>3
<1>13. L # << >>
  <2>1. Len(L) # 0
    BY <1>4
  <2> QED
    BY <2>1
<1> QED
  BY <1>1, <1>3, <1>4, <1>11, <1>12, <1>13

LEMMA TailListed ==
  ASSUME NEW l \in Seq(Entries), Once(l), Bounded(l), l # << >>
  PROVE  /\ Tail(l) \in Seq(Entries) /\ Once(Tail(l)) /\ Bounded(Tail(l))
         /\ Listed(Tail(l)) = Listed(l) \ {l[1].h} /\ l[1].h \in Listed(l)
         /\ l[1].h \in Timers /\ l[1].time \in Nat
<1>1. PICK m \in Nat : m = Len(l) - 1
  OBVIOUS
<1>2. PICK L : L = Tail(l)
  OBVIOUS
<1>3. /\ L \in Seq(Entries) /\ Len(L) = m /\ Len(l) = m + 1
      /\ \A i \in 1 .. m : L[i] = l[i + 1]
      /\ l[1] \in Entries
  BY <1>1, <1>2, TailIs
<1>4. /\ \A x : x \in Listed(l) <=> \E i \in 1 .. m + 1 : l[i].h = x
      /\ \A x : x \in Listed(L) <=> \E i \in 1 .. m : L[i].h = x
  <2>1. \A x : x \in Listed(l) <=> \E i \in 1 .. Len(l) : l[i].h = x
    BY ListedIs
  <2>2. \A x : x \in Listed(L) <=> \E i \in 1 .. Len(L) : L[i].h = x
    BY <1>3, ListedIs
  <2> QED
    BY <1>3, <2>1, <2>2
<1>5. Once(L)
  <2> SUFFICES ASSUME NEW i \in 1 .. m, NEW j \in 1 .. m, L[i].h = L[j].h PROVE i = j
    BY <1>3 DEF Once
  <2>1. i + 1 \in 1 .. m + 1 /\ j + 1 \in 1 .. m + 1 /\ l[i + 1].h = l[j + 1].h
    BY <1>3
  <2>2. i + 1 = j + 1
    BY <1>3, <2>1 DEF Once
  <2> QED
    BY <2>2
<1>6. Bounded(L)
  <2> SUFFICES ASSUME NEW i \in 1 .. m PROVE L[i].time <= Interval[L[i].h]
    BY <1>3 DEF Bounded
  <2>1. i + 1 \in 1 .. m + 1 /\ L[i] = l[i + 1]
    BY <1>3
  <2> QED
    BY <1>3, <2>1 DEF Bounded
<1>7. 1 \in 1 .. m + 1
  OBVIOUS
<1>8. ASSUME NEW x PROVE x \in Listed(L) <=> x \in Listed(l) /\ x # l[1].h
  <2>1. ASSUME x \in Listed(L) PROVE x \in Listed(l) /\ x # l[1].h
    <3>1. PICK i \in 1 .. m : L[i].h = x
      BY <1>4, <2>1
    <3>2. i + 1 \in 1 .. m + 1 /\ l[i + 1].h = x /\ i + 1 # 1
      BY <1>3, <3>1
    <3>3. x # l[1].h
      BY <1>3, <1>7, <3>2 DEF Once
    <3> QED
      BY <1>4, <3>2, <3>3
  <2>2. ASSUME x \in Listed(l), x # l[1].h PROVE x \in Listed(L)
    <3>1. PICK j \in 1 .. m + 1 : l[j].h = x
      BY <1>4, <2>2
    <3>2. j # 1
      BY <2>2, <3>1
    <3>3. j - 1 \in 1 .. m /\ (j - 1) + 1 = j
      BY <3>2
    <3>4. L[j - 1] = l[j]
      BY <1>3, <3>3
    <3> QED
      BY <1>4, <3>1, <3>3, <3>4
  <2> QED
    BY <2>1, <2>2
<1>9. l[1].h \in Listed(l)
  BY <1>4, <1>7
<1>10. l[1].h \in Timers /\ l[1].time \in Nat
  BY <1>3 DEF Entries
<1> QED
  BY <1>2, <1>3, <1>5, <1>6, <1>8, <1>9, <1>10

-----------------------------------------------------------------------------
(* The invariant of the list: which timers are in it, each once, and none  *)
(* waits for the one before it longer than its interval.                   *)

Labels == {"init", "fetch", "wait", "handler", "message"}
Threads == [pc: Labels, h: Timers, start: 0 .. TickMax, left: 0 .. TickMax]

Types ==
  /\ tick \in 0 .. TickMax
  /\ list \in Seq(Entries)
  /\ mbox \in 0 .. MboxSize
  /\ thread \in Threads
  /\ active \in BOOLEAN /\ pcbs \in BOOLEAN
  /\ age \in [Timers -> Nat] /\ late \in [Timers -> Nat]

Running == IF thread.pc = "handler" THEN {thread.h} ELSE {}
Expected == IF active THEN Timers ELSE Periodic
Right ==
  /\ thread.pc = "init" => ~active /\ Listed(list) \subseteq Periodic
  /\ thread.pc # "init" => Listed(list) = Expected \ Running
  /\ Running \subseteq Expected
  /\ pcbs => active

Waits == thread.pc = "wait" => thread.left <= list[1].time

LInv == Types /\ Right /\ Once(list) /\ Bounded(list) /\ Waits

LEMMA DoingTyped ==
  ASSUME NEW pc \in Labels, NEW h \in Timers
  PROVE  Doing(pc, h) \in Threads /\ Doing(pc, h).pc = pc /\ Doing(pc, h).h = h
<1>1. 0 \in 0 .. TickMax
  BY TimersAssumption
<1> QED
  BY <1>1 DEF Doing, Threads

(* While the thread fetches or waits, a timer is listed. *)
LEMMA SomeListed ==
  ASSUME LInv, thread.pc \in {"fetch", "wait", "message"} PROVE list # << >>
<1>1. PICK h : h \in Periodic
  BY TimersAssumption
<1>2. h \in Listed(list)
  BY <1>1 DEF LInv, Right, Expected, Running, Timers
<1>3. list \in Seq(Entries)
  BY DEF LInv, Types
<1>4. PICK i \in 1 .. Len(list) : list[i].h = h
  BY <1>2, <1>3, ListedIs
<1> QED
  BY <1>4

LEMMA InitList == Init => LInv
<1> SUFFICES ASSUME Init PROVE LInv
  OBVIOUS
<1>1. /\ tick \in 0 .. TickMax /\ list = << >> /\ mbox = 0 /\ active = FALSE /\ pcbs = FALSE
      /\ age = [h \in Timers |-> 0] /\ late = [h \in Timers |-> 0]
  BY DEF Init
<1>2. thread \in Threads /\ thread.pc = "init"
  <2>1. "init" \in Labels /\ Tcp \in Timers
    BY TimersFinite DEF Labels
  <2> QED
    BY <2>1, DoingTyped DEF Init
<1>3. list \in Seq(Entries) /\ Len(list) = 0
  BY <1>1
<1>4. Listed(list) = {}
  BY <1>1 DEF Listed
<1>5. Once(list) /\ Bounded(list)
  BY <1>3 DEF Once, Bounded
<1>6. Types
  <2>1. mbox \in 0 .. MboxSize
    BY <1>1, TimersAssumption
  <2>2. age \in [Timers -> Nat] /\ late \in [Timers -> Nat]
    BY <1>1
  <2>3. active \in BOOLEAN /\ pcbs \in BOOLEAN
    BY <1>1
  <2> QED
    BY <1>1, <1>2, <1>3, <2>1, <2>2, <2>3 DEF Types
<1>7. Right
  <2>1. Running = {} /\ ~active /\ ~pcbs
    BY <1>1, <1>2 DEF Running
  <2> QED
    BY <1>2, <1>4, <2>1 DEF Right
<1> QED
  BY <1>2, <1>5, <1>6, <1>7 DEF LInv, Waits

(* sys_timeout finds an entry in the pool, because the timer is not listed. *)
LEMMA SetIs ==
  ASSUME LInv, NEW h \in Timers \ Listed(list), SysTimeout(h)
  PROVE  /\ list' = Inserted(list, h)
         /\ age' = [age EXCEPT ![h] = 0] /\ late' = [late EXCEPT ![h] = 0]
         /\ list' \in Seq(Entries) /\ Listed(list') = Listed(list) \cup {h}
         /\ Once(list') /\ Bounded(list')
         /\ age' \in [Timers -> Nat] /\ late' \in [Timers -> Nat]
<1>1. /\ list \in Seq(Entries) /\ Once(list) /\ Bounded(list)
      /\ age \in [Timers -> Nat] /\ late \in [Timers -> Nat]
  BY DEF LInv, Types
<1>2. Len(list) < Timeouts
  <2>1. Len(list) < Cardinality(Timers)
    BY <1>1, ListedCounts
  <2>2. Len(list) \in Nat
    BY <1>1
  <2> QED
    BY <2>1, <2>2, TimersFinite, TimersAssumption
<1>3. /\ list' = Inserted(list, h)
      /\ age' = [age EXCEPT ![h] = 0] /\ late' = [late EXCEPT ![h] = 0]
  BY <1>2 DEF SysTimeout
<1>4. /\ list' \in Seq(Entries) /\ Listed(list') = Listed(list) \cup {h}
      /\ Once(list') /\ Bounded(list')
  BY <1>1, <1>3, InsertedListed
<1>5. age' \in [Timers -> Nat] /\ late' \in [Timers -> Nat]
  BY <1>1, <1>3
<1> QED
  BY <1>3, <1>4, <1>5

LEMMA StartHolds ==
  ASSUME LInv, SysTimeoutsInit PROVE LInv'
<1>1. PICK h \in Periodic \ Listed(list) :
        /\ SysTimeout(h)
        /\ thread' = IF Periodic \ Listed(list) = {h} THEN Doing("fetch", Tcp) ELSE thread
  BY DEF SysTimeoutsInit
<1>2. thread.pc = "init" /\ UNCHANGED <<tick, mbox, active, pcbs>>
  BY DEF SysTimeoutsInit
<1>3. h \in Timers \ Listed(list)
  BY DEF Timers
<1>4. /\ list' \in Seq(Entries) /\ Listed(list') = Listed(list) \cup {h}
      /\ Once(list') /\ Bounded(list')
      /\ age' \in [Timers -> Nat] /\ late' \in [Timers -> Nat]
  BY <1>1, <1>3, SetIs
<1>5. ~active /\ ~pcbs /\ Listed(list) \subseteq Periodic /\ thread \in Threads
  BY <1>2 DEF LInv, Right, Types
<1>6. Doing("fetch", Tcp) \in Threads /\ Doing("fetch", Tcp).pc = "fetch"
  <2>1. "fetch" \in Labels /\ Tcp \in Timers
    BY TimersFinite DEF Labels
  <2> QED
    BY <2>1, DoingTyped
<1>7. thread' \in Threads
  BY <1>1, <1>5, <1>6
<1>8. CASE Periodic \ Listed(list) = {h}
  <2>1. thread'.pc = "fetch"
    BY <1>1, <1>6, <1>8
  <2>2. Listed(list') = Periodic
    BY <1>4, <1>5, <1>8
  <2>3. Right'
    BY <1>2, <1>5, <2>1, <2>2 DEF Right, Expected, Running
  <2> QED
    BY <1>2, <1>4, <1>7, <2>1, <2>3 DEF LInv, Types, Waits
<1>9. CASE Periodic \ Listed(list) # {h}
  <2>1. thread'.pc = "init"
    BY <1>1, <1>2, <1>9
  <2>2. Right'
    BY <1>2, <1>4, <1>5, <2>1 DEF Right, Expected, Running
  <2> QED
    BY <1>2, <1>4, <1>7, <2>1, <2>2 DEF LInv, Types, Waits
<1> QED
  BY <1>8, <1>9

(* The first timer's handler runs. *)
LEMMA RunHolds ==
  ASSUME LInv, thread.pc \in {"fetch", "wait"}, Run(Head(list).h),
         UNCHANGED <<tick, mbox, active, pcbs, age, late>>
  PROVE  LInv'
<1>1. list # << >> /\ list \in Seq(Entries) /\ Once(list) /\ Bounded(list)
  BY SomeListed DEF LInv, Types
<1>2. Head(list) = list[1]
  BY <1>1, TailIs
<1>3. PICK h : h = list[1].h
  OBVIOUS
<1>4. /\ list' = Tail(list) /\ thread' = Doing("handler", h)
      /\ list' \in Seq(Entries) /\ Once(list') /\ Bounded(list')
      /\ Listed(list') = Listed(list) \ {h} /\ h \in Listed(list) /\ h \in Timers
  BY <1>1, <1>2, <1>3, TailListed DEF Run
<1>5. thread' \in Threads /\ thread'.pc = "handler" /\ thread'.h = h
  <2>1. "handler" \in Labels
    BY DEF Labels
  <2> QED
    BY <1>4, <2>1, DoingTyped
<1>6. Listed(list) = Expected /\ (pcbs => active)
  BY DEF LInv, Right, Running
<1>7. Right'
  BY <1>4, <1>5, <1>6 DEF Right, Running, Expected
<1> QED
  BY <1>4, <1>5, <1>7 DEF LInv, Types, Waits

LEMMA WaitHolds ==
  ASSUME LInv, FetchWait PROVE LInv'
<1>1. /\ thread.pc = "fetch" /\ UNCHANGED <<tick, list, mbox, active, pcbs, age, late>>
      /\ thread' = [Doing("wait", Tcp) EXCEPT !.start = tick, !.left = Remaining(list)]
  BY DEF FetchWait
<1>2. list # << >> /\ list \in Seq(Entries) /\ Bounded(list) /\ tick \in 0 .. TickMax
  BY <1>1, SomeListed DEF LInv, Types
<1>3. Remaining(list) = list[1].time /\ list[1] \in Entries
  BY <1>2, TailIs DEF Remaining
<1>4. PICK n \in 0 .. TickMax : n = list[1].time
  <2>1. list[1].time \in Nat /\ list[1].h \in Timers
    BY <1>3 DEF Entries
  <2>2. 1 \in 1 .. Len(list)
    BY <1>2
  <2>3. list[1].time <= Interval[list[1].h]
    BY <1>2, <2>2 DEF Bounded
  <2>4. Interval[list[1].h] \in Nat /\ Interval[list[1].h] <= TickMax
    BY <2>1, TimersAssumption
  <2> QED
    BY <2>1, <2>3, <2>4, TimersAssumption
<1>5. thread' = [pc |-> "wait", h |-> Tcp, start |-> tick, left |-> n]
  BY <1>1, <1>3, <1>4 DEF Doing
<1>6. thread' \in Threads /\ thread'.pc = "wait" /\ thread'.left = n
  BY <1>2, <1>4, <1>5, TimersFinite DEF Threads, Labels
<1>7. Right'
  BY <1>1, <1>6 DEF LInv, Right, Expected, Running
<1>8. Types' /\ Once(list)' /\ Bounded(list)'
  BY <1>1, <1>6 DEF LInv, Types, Once, Bounded
<1>9. Waits'
  BY <1>1, <1>4, <1>6 DEF Waits
<1> QED
  BY <1>7, <1>8, <1>9 DEF LInv

(* What is taken off the first timer is not more than is left of it. *)
LEMMA ReceivedIs ==
  ASSUME LInv, Received
  PROVE  /\ list # << >> /\ list \in Seq(Entries) /\ Bounded(list)
         /\ \E n \in Nat :
              /\ n <= list[1].time
              /\ Elapsed < list[1].time => n = list[1].time - Elapsed
              /\ ~(Elapsed < list[1].time) => n = 0
              /\ list' = Shorter(list, n)
         /\ Elapsed \in Nat /\ list[1].time \in Nat
<1>1. thread.pc = "wait"
  BY DEF Received
<1>2. list # << >> /\ list \in Seq(Entries) /\ Bounded(list)
  BY <1>1, SomeListed DEF LInv, Types
<1>3. Elapsed \in Nat
  <2>1. tick \in 0 .. TickMax /\ thread.start \in 0 .. TickMax
    BY DEF LInv, Types, Threads
  <2> QED
    BY <2>1, TimersAssumption DEF Elapsed, Wrapped
<1>4. list[1] \in Entries
  BY <1>2, TailIs
<1>5. PICK t \in Nat : t = list[1].time
  BY <1>4 DEF Entries
<1>6. PICK n : n = IF Elapsed < list[1].time THEN list[1].time - Elapsed ELSE 0
  OBVIOUS
<1>7. n \in Nat /\ n <= t
  BY <1>3, <1>5, <1>6
<1>8. list' = Shorter(list, n)
  <2>1. list' = [list EXCEPT ![1].time = IF Elapsed < @ THEN @ - Elapsed ELSE 0]
    BY DEF Received
  <2>2. 1 \in DOMAIN list
    BY <1>2
  <2> QED
    BY <1>6, <2>1, <2>2, Zenon DEF Shorter
<1> QED
  BY <1>2, <1>3, <1>5, <1>6, <1>7, <1>8

LEMMA SameListed ==
  ASSUME NEW l \in Seq(Entries), NEW L \in Seq(Entries), Len(L) = Len(l), Once(l),
         \A i \in 1 .. Len(l) : L[i].h = l[i].h
  PROVE  Listed(L) = Listed(l) /\ Once(L)
<1>1. /\ \A h : h \in Listed(l) <=> \E i \in 1 .. Len(l) : l[i].h = h
      /\ \A h : h \in Listed(L) <=> \E i \in 1 .. Len(l) : L[i].h = h
  BY ListedIs
<1>2. \A h : h \in Listed(L) <=> h \in Listed(l)
  BY <1>1
<1>3. Once(L)
  BY DEF Once
<1> QED
  BY <1>2, <1>3

LEMMA ReceivedHolds ==
  ASSUME LInv, Received PROVE LInv'
<1>1. /\ thread.pc = "wait" /\ mbox > 0 /\ mbox' = mbox - 1
      /\ thread' = Doing("message", Tcp) /\ UNCHANGED <<tick, active, pcbs, age>>
  BY DEF Received
<1>2. list # << >> /\ list \in Seq(Entries) /\ Bounded(list) /\ Once(list)
  BY ReceivedIs DEF LInv
<1>3. PICK n \in Nat : n <= list[1].time /\ list' = Shorter(list, n)
  BY ReceivedIs
<1>4. /\ list' \in Seq(Entries) /\ Len(list') = Len(list) /\ Bounded(list')
      /\ \A i \in 1 .. Len(list) : list'[i].h = list[i].h
  BY <1>2, <1>3, ShorterIs
<1>5. Listed(list') = Listed(list) /\ Once(list')
  BY <1>2, <1>4, SameListed
<1>6. thread' \in Threads /\ thread'.pc = "message"
  <2>1. "message" \in Labels /\ Tcp \in Timers
    BY TimersFinite DEF Labels
  <2> QED
    BY <1>1, <2>1, DoingTyped
<1>7. late' \in [Timers -> Nat]
  <2>1. late \in [Timers -> Nat]
    BY DEF LInv, Types
  <2>2. late' = IF Wrapped
               THEN [h \in Timers |-> IF h \in Listed(list) THEN late[h] + 1 ELSE late[h]]
               ELSE late
    BY DEF Received
  <2> QED
    BY <2>1, <2>2
<1>8. mbox' \in 0 .. MboxSize
  <2>1. mbox \in 0 .. MboxSize
    BY DEF LInv, Types
  <2> QED
    BY <1>1, <2>1, TimersAssumption
<1>9. Types'
  BY <1>1, <1>4, <1>6, <1>7, <1>8 DEF LInv, Types
<1>10. Right'
  BY <1>1, <1>5, <1>6 DEF LInv, Right, Expected, Running
<1> QED
  BY <1>4, <1>5, <1>6, <1>9, <1>10 DEF LInv, Waits

(* A handler that sets its timer again: the timer is not listed meanwhile. *)
LEMMA PeriodicHolds ==
  ASSUME LInv, PeriodicTimer PROVE LInv'
<1>1. PICK h : h = thread.h
  OBVIOUS
<1>2. /\ thread.pc = "handler" /\ h \in Periodic /\ SysTimeout(h)
      /\ thread' = Doing("fetch", Tcp) /\ UNCHANGED <<tick, mbox, active, pcbs>>
  BY <1>1 DEF PeriodicTimer
<1>3. Listed(list) = Expected \ {h} /\ h \in Expected /\ h \in Timers
  BY <1>1, <1>2 DEF LInv, Right, Running, Expected, Timers
<1>4. /\ list' \in Seq(Entries) /\ Listed(list') = Listed(list) \cup {h}
      /\ Once(list') /\ Bounded(list')
      /\ age' \in [Timers -> Nat] /\ late' \in [Timers -> Nat]
  BY <1>2, <1>3, SetIs
<1>5. thread' \in Threads /\ thread'.pc = "fetch"
  <2>1. "fetch" \in Labels /\ Tcp \in Timers
    BY TimersFinite DEF Labels
  <2> QED
    BY <1>2, <2>1, DoingTyped
<1>6. Listed(list') = Expected
  BY <1>3, <1>4
<1>7. Right'
  BY <1>2, <1>5, <1>6 DEF LInv, Right, Expected, Running
<1> QED
  BY <1>2, <1>4, <1>5, <1>7 DEF LInv, Types, Waits

LEMMA TcpHolds ==
  ASSUME LInv, TcpTimer PROVE LInv'
<1>1. /\ thread.pc = "handler" /\ thread.h = Tcp /\ pcbs' \in {pcbs, FALSE}
      /\ thread' = Doing("fetch", Tcp) /\ UNCHANGED <<tick, mbox>>
  BY DEF TcpTimer
<1>2. Listed(list) = Expected \ {Tcp} /\ Tcp \in Expected
  BY <1>1 DEF LInv, Right, Running
<1>3. active = TRUE /\ Listed(list) = Periodic /\ Expected = Timers
  <2>1. Tcp \notin Periodic /\ Timers = Periodic \cup {Tcp} /\ active \in BOOLEAN
    BY TimersFinite DEF Timers, LInv, Types
  <2>2. active = TRUE
    BY <1>2, <2>1 DEF Expected
  <2> QED
    BY <1>2, <2>1, <2>2 DEF Expected
<1>4. thread' \in Threads /\ thread'.pc = "fetch"
  <2>1. "fetch" \in Labels /\ Tcp \in Timers
    BY TimersFinite DEF Labels
  <2> QED
    BY <1>1, <2>1, DoingTyped
<1>5. pcbs' \in BOOLEAN
  BY <1>1 DEF LInv, Types
<1>6. CASE pcbs'
  <2>1. SysTimeout(Tcp) /\ active' = active
    BY <1>6 DEF TcpTimer
  <2>2. Tcp \in Timers \ Listed(list)
    BY <1>3, TimersFinite
  <2>3. /\ list' \in Seq(Entries) /\ Listed(list') = Listed(list) \cup {Tcp}
        /\ Once(list') /\ Bounded(list')
        /\ age' \in [Timers -> Nat] /\ late' \in [Timers -> Nat]
    BY <2>1, <2>2, SetIs
  <2>4. Listed(list') = Timers
    BY <1>3, <2>3 DEF Timers
  <2>5. Right'
    BY <1>3, <1>4, <2>1, <2>4 DEF Right, Expected, Running
  <2> QED
    BY <1>1, <1>4, <1>5, <2>1, <2>3, <2>5 DEF LInv, Types, Waits
<1>7. CASE ~pcbs'
  <2>1. UNCHANGED <<list, age, late>> /\ active' = FALSE
    BY <1>7 DEF TcpTimer, NoTimeout
  <2>2. Right'
    BY <1>3, <1>4, <1>7, <2>1 DEF Right, Expected, Running
  <2>3. active' \in BOOLEAN
    BY <2>1
  <2>4. Once(list)' /\ Bounded(list)'
    BY <2>1 DEF LInv, Once, Bounded
  <2>5. Types'
    BY <1>1, <1>4, <1>5, <2>1, <2>3 DEF LInv, Types
  <2> QED
    BY <1>4, <2>2, <2>4, <2>5 DEF LInv, Waits
<1> QED
  BY <1>6, <1>7

LEMMA MessageHolds ==
  ASSUME LInv, Message PROVE LInv'
<1>1. /\ thread.pc = "message" /\ pcbs' \in BOOLEAN
      /\ thread' = Doing("fetch", Tcp) /\ UNCHANGED <<tick, mbox>>
  BY DEF Message
<1>2. Listed(list) = Expected /\ active \in BOOLEAN
  BY <1>1 DEF LInv, Right, Running, Types
<1>3. thread' \in Threads /\ thread'.pc = "fetch"
  <2>1. "fetch" \in Labels /\ Tcp \in Timers
    BY TimersFinite DEF Labels
  <2> QED
    BY <1>1, <2>1, DoingTyped
<1>4. CASE pcbs' /\ ~active
  <2>1. SysTimeout(Tcp) /\ active' = TRUE
    BY <1>4 DEF Message
  <2>2. Listed(list) = Periodic /\ Tcp \in Timers \ Listed(list)
    BY <1>2, <1>4, TimersFinite DEF Expected
  <2>3. /\ list' \in Seq(Entries) /\ Listed(list') = Listed(list) \cup {Tcp}
        /\ Once(list') /\ Bounded(list')
        /\ age' \in [Timers -> Nat] /\ late' \in [Timers -> Nat]
    BY <2>1, <2>2, SetIs
  <2>4. Listed(list') = Timers
    BY <2>2, <2>3 DEF Timers
  <2>5. Right'
    BY <1>3, <2>1, <2>4 DEF Right, Expected, Running
  <2>6. active' \in BOOLEAN
    BY <2>1
  <2> QED
    BY <1>1, <1>3, <2>3, <2>5, <2>6 DEF LInv, Types, Waits
<1>5. CASE ~(pcbs' /\ ~active)
  <2>1. UNCHANGED <<list, age, late, active>>
    BY <1>5 DEF Message, NoTimeout
  <2>2. Right'
    BY <1>2, <1>3, <1>5, <2>1 DEF Right, Expected, Running
  <2>3. Once(list)' /\ Bounded(list)'
    BY <2>1 DEF LInv, Once, Bounded
  <2>4. Types'
    BY <1>1, <1>3, <2>1 DEF LInv, Types
  <2> QED
    BY <1>3, <2>2, <2>3, <2>4 DEF LInv, Waits
<1> QED
  BY <1>4, <1>5

LEMMA PostHolds ==
  ASSUME LInv, Post PROVE LInv'
<1>1. /\ mbox < MboxSize /\ mbox' = mbox + 1
      /\ UNCHANGED <<tick, list, thread, active, pcbs, age, late>>
  BY DEF Post
<1>2. mbox' \in 0 .. MboxSize
  BY <1>1, TimersAssumption DEF LInv, Types
<1>3. Types'
  BY <1>1, <1>2 DEF LInv, Types
<1>4. Right' /\ Once(list)' /\ Bounded(list)' /\ Waits'
  BY <1>1 DEF LInv, Right, Expected, Running, Once, Bounded, Waits
<1> QED
  BY <1>3, <1>4 DEF LInv

LEMMA PassesTyped ==
  ASSUME LInv, NEW lost \in Nat, Passes(lost)
  PROVE  tick' \in 0 .. TickMax /\ age' \in [Timers -> Nat] /\ late' \in [Timers -> Nat]
<1>1. tick \in 0 .. TickMax /\ age \in [Timers -> Nat] /\ late \in [Timers -> Nat]
  BY DEF LInv, Types
<1>2. tick' \in 0 .. TickMax
  <2>1. PICK M \in Nat : M = TickMax
    BY TimersAssumption
  <2>2. tick' = (tick + 1) % (M + 1) /\ tick \in Nat
    BY <1>1, <2>1 DEF Passes
  <2> QED
    BY <2>1, <2>2
<1>3. age' \in [Timers -> Nat] /\ late' \in [Timers -> Nat]
  BY <1>1 DEF Passes
<1> QED
  BY <1>2, <1>3

LEMMA WaitingHolds ==
  ASSUME LInv, TickWaiting PROVE LInv'
<1>1. /\ thread.pc = "wait" /\ thread.left > 0 /\ thread' = [thread EXCEPT !.left = @ - 1]
      /\ Passes(0)
  BY DEF TickWaiting, Waiting
<1>2. UNCHANGED <<list, mbox, active, pcbs>>
  BY <1>1 DEF Passes
<1>3. tick' \in 0 .. TickMax /\ age' \in [Timers -> Nat] /\ late' \in [Timers -> Nat]
  BY <1>1, PassesTyped
<1>4. PICK n \in 0 .. TickMax : n = thread.left
  BY DEF LInv, Types, Threads
<1>5. thread' \in Threads /\ thread'.pc = "wait" /\ thread'.left = n - 1
  <2>1. n - 1 \in 0 .. TickMax
    BY <1>1, <1>4, TimersAssumption
  <2>2. thread \in Threads
    BY DEF LInv, Types
  <2> QED
    BY <1>1, <1>4, <2>1, <2>2 DEF Threads
<1>6. Types'
  BY <1>2, <1>3, <1>5 DEF LInv, Types
<1>7. Right'
  BY <1>1, <1>2, <1>5 DEF LInv, Right, Expected, Running
<1>8. Once(list)' /\ Bounded(list)'
  BY <1>2 DEF LInv, Once, Bounded
<1>9. Waits'
  <2>1. n <= list[1].time
    BY <1>1, <1>4 DEF LInv, Waits
  <2>2. list # << >> /\ list \in Seq(Entries)
    BY <1>1, SomeListed DEF LInv, Types
  <2>3. list[1].time \in Nat
    BY <2>2, TailIs DEF Entries
  <2>4. n - 1 <= list[1].time
    BY <2>1, <2>3
  <2> QED
    BY <1>2, <1>5, <2>4 DEF Waits
<1> QED
  BY <1>6, <1>7, <1>8, <1>9 DEF LInv

LEMMA BusyHolds ==
  ASSUME LInv, TickBusy PROVE LInv'
<1>1. Passes(1) /\ thread' = thread
  BY DEF TickBusy
<1>2. UNCHANGED <<list, mbox, active, pcbs>>
  BY <1>1 DEF Passes
<1>3. tick' \in 0 .. TickMax /\ age' \in [Timers -> Nat] /\ late' \in [Timers -> Nat]
  BY <1>1, PassesTyped
<1>4. Types'
  BY <1>1, <1>2, <1>3 DEF LInv, Types
<1>5. Right' /\ Once(list)' /\ Bounded(list)' /\ Waits'
  BY <1>1, <1>2 DEF LInv, Right, Expected, Running, Once, Bounded, Waits
<1> QED
  BY <1>4, <1>5 DEF LInv

LEMMA StepList ==
  ASSUME LInv, [Next]_vars PROVE LInv'
<1>1. CASE SysTimeoutsInit
  BY <1>1, StartHolds
<1>2. CASE FetchExpired
  <2>1. /\ thread.pc \in {"fetch", "wait"} /\ Run(Head(list).h)
        /\ UNCHANGED <<tick, mbox, active, pcbs, age, late>>
    BY <1>2 DEF FetchExpired
  <2> QED
    BY <2>1, RunHolds
<1>3. CASE FetchWait
  BY <1>3, WaitHolds
<1>4. CASE TimedOut
  <2>1. /\ thread.pc \in {"fetch", "wait"} /\ Run(Head(list).h)
        /\ UNCHANGED <<tick, mbox, active, pcbs, age, late>>
    BY <1>4 DEF TimedOut
  <2> QED
    BY <2>1, RunHolds
<1>5. CASE Received
  BY <1>5, ReceivedHolds
<1>6. CASE PeriodicTimer
  BY <1>6, PeriodicHolds
<1>7. CASE TcpTimer
  BY <1>7, TcpHolds
<1>8. CASE Message
  BY <1>8, MessageHolds
<1>9. CASE Post
  BY <1>9, PostHolds
<1>10. CASE TickWaiting
  BY <1>10, WaitingHolds
<1>11. CASE TickBusy
  BY <1>11, BusyHolds
<1>12. CASE UNCHANGED vars
  BY <1>12 DEF vars, LInv, Types, Right, Expected, Running, Once, Bounded, Waits
<1> QED
  BY <1>1, <1>2, <1>3, <1>4, <1>5, <1>6, <1>7, <1>8, <1>9, <1>10, <1>11, <1>12
  DEF Next, Thread

LEMMA ListHolds == Spec => []LInv
<1>1. Init => LInv
  BY InitList
<1>2. LInv /\ [Next]_vars => LInv'
  BY StepList
<1> QED
  BY <1>1, <1>2, PTL DEF Spec

(* The counters and the times stay in their ranges, the list never has     *)
(* more entries than the pool of timeouts, and whenever the thread fetches *)
(* a message there is a timer to wait for (timers.c:260-289, 411-462).     *)
THEOREM TimersTyped == Spec => []TypeOK
<1>1. ASSUME LInv PROVE TypeOK
  <2>1. Types /\ Once(list)
    BY <1>1 DEF LInv
  <2>2. Len(list) <= Timeouts
    <3>1. Len(list) <= Cardinality(Timers) /\ Len(list) \in Nat
      BY <2>1, ListedCounts DEF Types
    <3> QED
      BY <3>1, TimersFinite, TimersAssumption
  <2>3. \A i \in DOMAIN list : list[i].h \in Timers /\ list[i].time \in Nat
    <3>1. \A i \in DOMAIN list : list[i] \in Entries
      BY <2>1 DEF Types
    <3> QED
      BY <3>1 DEF Entries
  <2>4. thread.pc = "fetch" => list # << >>
    BY <1>1, SomeListed
  <2>5. /\ thread.pc \in Labels /\ thread.h \in Timers
        /\ thread.start \in 0 .. TickMax /\ thread.left \in 0 .. TickMax
    BY <2>1 DEF Types, Threads
  <2> QED
    BY <2>1, <2>2, <2>3, <2>4, <2>5 DEF TypeOK, Types, Labels
<1> QED
  BY <1>1, ListHolds, PTL

(* Each timer that should run is in the list, and once: a connection never *)
(* starts a second TCP timer, none is left without one, and no timer is    *)
(* lost because the pool of timeouts is empty (timers.c:80-108, 260-289).  *)
THEOREM EachTimerOnce == Spec => []TimersListed
<1>1. ASSUME LInv PROVE TimersListed
  <2>1. Right /\ list \in Seq(Entries) /\ Once(list)
    BY <1>1 DEF LInv, Types
  <2>2. Cardinality(Listed(list)) = Len(list)
    BY <2>1, ListedCounts
  <2>3. Listed(list) \cup Running \subseteq Expected
    <3>1. CASE thread.pc = "init"
      BY <2>1, <3>1 DEF Right, Expected, Running
    <3>2. CASE thread.pc # "init"
      BY <2>1, <3>2 DEF Right
    <3> QED
      BY <3>1, <3>2
  <2> QED
    BY <2>1, <2>2, <2>3 DEF TimersListed, Right, Expected, Running
<1> QED
  BY <1>1, ListHolds, PTL

-----------------------------------------------------------------------------
(* The times in the list, less what the thread has waited for already, add *)
(* up with the age of each timer to its interval, or to more than that by  *)
(* what it is late.                                                        *)
Add(l, w, a, t) ==
  \A i \in 1 .. Len(l) :
    /\ Interval[l[i].h] <= Due(l)[i] - w + a[l[i].h]
    /\ Due(l)[i] - w + a[l[i].h] <= Interval[l[i].h] + t[l[i].h]

Ages == [Timers -> Nat]

LEMMA EntryIs ==
  ASSUME NEW l \in Seq(Entries), NEW a \in Ages, NEW i \in 1 .. Len(l)
  PROVE  /\ l[i].h \in Timers /\ l[i].time \in Nat /\ Due(l)[i] \in Nat
         /\ Interval[l[i].h] \in Nat /\ a[l[i].h] \in Nat /\ l[i].h \in Listed(l)
<1>1. PICK m \in Nat : m = Len(l)
  OBVIOUS
<1>2. l[i] \in Entries
  OBVIOUS
<1>3. l[i].h \in Timers /\ l[i].time \in Nat
  BY <1>2 DEF Entries
<1>4. Due(l) \in [0 .. m -> Nat] /\ i \in 0 .. m
  BY <1>1, DueIs
<1>5. Interval[l[i].h] \in Nat /\ a[l[i].h] \in Nat
  BY <1>3, TimersAssumption DEF Ages
<1>6. l[i].h \in Listed(l)
  BY ListedIs
<1> QED
  BY <1>3, <1>4, <1>5, <1>6

LEMMA AddPasses ==
  ASSUME NEW l \in Seq(Entries), NEW a \in Ages, NEW t \in Ages, NEW w \in Nat, Add(l, w, a, t),
         NEW A \in Ages, NEW T \in Ages, NEW lost \in {0, 1},
         \A h \in Listed(l) : A[h] = a[h] + 1 /\ T[h] = t[h] + lost
  PROVE  Add(l, w + 1 - lost, A, T)
<1> SUFFICES ASSUME NEW i \in 1 .. Len(l)
             PROVE  /\ Interval[l[i].h] <= Due(l)[i] - (w + 1 - lost) + A[l[i].h]
                    /\ Due(l)[i] - (w + 1 - lost) + A[l[i].h] <= Interval[l[i].h] + T[l[i].h]
  BY DEF Add
<1>1. PICK h \in Listed(l) : h = l[i].h
  BY EntryIs
<1>2. PICK d \in Nat : d = Due(l)[i]
  BY EntryIs
<1>3. PICK n \in Nat : n = Interval[h]
  BY <1>1, EntryIs
<1>4. PICK x \in Nat : x = a[h]
  BY <1>1, EntryIs
<1>5. PICK y \in Nat : y = t[h]
  BY <1>1, EntryIs
<1>6. n <= d - w + x /\ d - w + x <= n + y
  BY <1>1, <1>2, <1>3, <1>4, <1>5 DEF Add
<1>7. A[h] = x + 1 /\ T[h] = y + lost
  BY <1>1, <1>4, <1>5
<1>8. n <= d - (w + 1 - lost) + (x + 1) /\ d - (w + 1 - lost) + (x + 1) <= n + (y + lost)
  BY <1>6
<1> QED
  BY <1>1, <1>2, <1>3, <1>7, <1>8

(* What is taken off may be one less than what was waited for. *)
LEMMA AddShorter ==
  ASSUME NEW l \in Seq(Entries), l # << >>, Bounded(l), NEW n \in Nat, n <= l[1].time,
         NEW a \in Ages, NEW t \in Ages, NEW w \in Nat, Add(l, w, a, t),
         NEW T \in Ages, NEW s \in {0, 1}, l[1].time - n = w - s,
         \A h \in Listed(l) : T[h] >= t[h] + s
  PROVE  Add(Shorter(l, n), 0, a, T)
<1>1. PICK L : L = Shorter(l, n)
  OBVIOUS
<1>2. PICK c \in Int : c = l[1].time - n
  <2>1. l[1] \in Entries
    BY TailIs
  <2>2. l[1].time \in Nat
    BY <2>1 DEF Entries
  <2> QED
    BY <2>2
<1>3. Len(L) = Len(l) /\ \A i \in 1 .. Len(l) : L[i].h = l[i].h /\ Due(L)[i] = Due(l)[i] - c
  BY <1>1, <1>2, ShorterIs
<1> SUFFICES ASSUME NEW i \in 1 .. Len(l)
             PROVE  /\ Interval[L[i].h] <= Due(L)[i] - 0 + a[L[i].h]
                    /\ Due(L)[i] - 0 + a[L[i].h] <= Interval[L[i].h] + T[L[i].h]
  BY <1>1, <1>3 DEF Add
<1>4. PICK h \in Listed(l) : h = l[i].h
  BY EntryIs
<1>5. PICK d \in Nat : d = Due(l)[i]
  BY EntryIs
<1>6. PICK v \in Nat : v = Interval[h]
  BY <1>4, EntryIs
<1>7. PICK x \in Nat : x = a[h]
  BY <1>4, EntryIs
<1>8. PICK y \in Nat : y = t[h]
  BY <1>4, EntryIs
<1>9. PICK z \in Nat : z = T[h]
  BY <1>4, EntryIs
<1>10. v <= d - w + x /\ d - w + x <= v + y
  BY <1>4, <1>5, <1>6, <1>7, <1>8 DEF Add
<1>11. z >= y + s /\ c = w - s
  BY <1>2, <1>4, <1>8, <1>9
<1>12. L[i].h = h /\ Due(L)[i] = d - c
  BY <1>3, <1>4, <1>5
<1>13. v <= d - c - 0 + x /\ d - c - 0 + x <= v + z
  BY <1>10, <1>11
<1> QED
  BY <1>6, <1>7, <1>9, <1>12, <1>13

(* The wait for the first timer is over: its time has come. *)
LEMMA AddTail ==
  ASSUME NEW l \in Seq(Entries), l # << >>, NEW a \in Ages, NEW t \in Ages,
         NEW w \in Nat, w = l[1].time, Add(l, w, a, t)
  PROVE  /\ Add(Tail(l), 0, a, t)
         /\ a[l[1].h] \in Interval[l[1].h] .. Interval[l[1].h] + t[l[1].h]
<1>1. PICK L : L = Tail(l)
  OBVIOUS
<1>2. PICK m \in Nat : m = Len(l) - 1
  OBVIOUS
<1>3. /\ L \in Seq(Entries) /\ Len(L) = m /\ Len(l) = m + 1 /\ l[1] \in Entries
      /\ \A i \in 1 .. m : L[i] = l[i + 1] /\ Due(L)[i] = Due(l)[i + 1] - w
  BY <1>1, <1>2, TailIs
<1>4. ASSUME NEW i \in 1 .. m
      PROVE  /\ Interval[L[i].h] <= Due(L)[i] - 0 + a[L[i].h]
             /\ Due(L)[i] - 0 + a[L[i].h] <= Interval[L[i].h] + t[L[i].h]
  <2>1. i + 1 \in 1 .. Len(l)
    BY <1>3
  <2>2. PICK h : h = l[i + 1].h
    OBVIOUS
  <2>3. PICK d \in Nat : d = Due(l)[i + 1]
    BY <2>1, EntryIs
  <2>4. PICK v \in Nat : v = Interval[h]
    BY <2>1, <2>2, EntryIs
  <2>5. PICK x \in Nat : x = a[h]
    BY <2>1, <2>2, EntryIs
  <2>6. PICK y \in Nat : y = t[h]
    BY <2>1, <2>2, EntryIs
  <2>7. v <= d - w + x /\ d - w + x <= v + y
    BY <2>1, <2>2, <2>3, <2>4, <2>5, <2>6 DEF Add
  <2>8. L[i].h = h /\ Due(L)[i] = d - w
    BY <1>3, <2>2, <2>3
  <2>9. v <= d - w - 0 + x /\ d - w - 0 + x <= v + y
    BY <2>7
  <2> QED
    BY <2>4, <2>5, <2>6, <2>8, <2>9
<1>5. a[l[1].h] \in Interval[l[1].h] .. Interval[l[1].h] + t[l[1].h]
  <2>1. 1 \in 1 .. Len(l)
    BY <1>3
  <2>2. PICK h : h = l[1].h
    OBVIOUS
  <2>3. Due(l)[1] = w
    <3>1. /\ Due(l)[0] = 0 /\ Due(l)[1] = Due(l)[1 - 1] + l[1].time
      BY <2>1, DueIs DEF Sums
    <3>2. 1 - 1 = 0
      OBVIOUS
    <3> QED
      BY <3>1, <3>2
  <2>4. PICK v \in Nat : v = Interval[h]
    BY <2>1, <2>2, EntryIs
  <2>5. PICK x \in Nat : x = a[h]
    BY <2>1, <2>2, EntryIs
  <2>6. PICK y \in Nat : y = t[h]
    BY <2>1, <2>2, EntryIs
  <2>7. v <= w - w + x /\ w - w + x <= v + y
    BY <2>1, <2>2, <2>3, <2>4, <2>5, <2>6 DEF Add
  <2>8. x \in v .. v + y
    BY <2>7
  <2> QED
    BY <2>2, <2>4, <2>5, <2>6, <2>8
<1> QED
  BY <1>1, <1>3, <1>4, <1>5 DEF Add

LEMMA AddInserted ==
  ASSUME NEW l \in Seq(Entries), Bounded(l), NEW h \in Timers \ Listed(l),
         NEW a \in Ages, NEW t \in Ages, Add(l, 0, a, t)
  PROVE  Add(Inserted(l, h), 0, [a EXCEPT ![h] = 0], [t EXCEPT ![h] = 0])
<1>1. PICK L : L = Inserted(l, h)
  OBVIOUS
<1>2. PICK m \in Nat : m = Len(l)
  OBVIOUS
<1>3. PICK k \in 0 .. m : InsertedAt(L, l, h, k) /\ Bounded(L)
  BY <1>1, <1>2, InsertedIs
<1>4. /\ L \in Seq(Entries) /\ Len(L) = m + 1
      /\ \A i \in 1 .. k : L[i].h = l[i].h /\ Due(L)[i] = Due(l)[i]
      /\ L[k + 1].h = h /\ Due(L)[k + 1] = Interval[h]
      /\ \A i \in k + 1 .. m : L[i + 1].h = l[i].h /\ Due(L)[i + 1] = Due(l)[i]
  BY <1>2, <1>3 DEF InsertedAt
<1>5. PICK A : A = [a EXCEPT ![h] = 0]
  OBVIOUS
<1>6. PICK T : T = [t EXCEPT ![h] = 0]
  OBVIOUS
<1>7. /\ \A x \in Timers : x # h => A[x] = a[x] /\ T[x] = t[x]
      /\ A[h] = 0 /\ T[h] = 0
  BY <1>5, <1>6 DEF Ages
<1>8. ASSUME NEW j \in 1 .. m, NEW i, L[i].h = l[j].h, Due(L)[i] = Due(l)[j]
      PROVE  /\ Interval[L[i].h] <= Due(L)[i] - 0 + A[L[i].h]
             /\ Due(L)[i] - 0 + A[L[i].h] <= Interval[L[i].h] + T[L[i].h]
  <2>1. /\ Interval[l[j].h] <= Due(l)[j] - 0 + a[l[j].h]
        /\ Due(l)[j] - 0 + a[l[j].h] <= Interval[l[j].h] + t[l[j].h]
    BY <1>2 DEF Add
  <2>2. l[j].h \in Timers /\ l[j].h \in Listed(l)
    BY <1>2, EntryIs
  <2>3. l[j].h # h
    BY <2>2
  <2>4. A[l[j].h] = a[l[j].h] /\ T[l[j].h] = t[l[j].h]
    BY <1>7, <2>2, <2>3
  <2> QED
    BY <1>8, <2>1, <2>4
<1>9. ASSUME NEW i \in 1 .. m + 1
      PROVE  /\ Interval[L[i].h] <= Due(L)[i] - 0 + A[L[i].h]
             /\ Due(L)[i] - 0 + A[L[i].h] <= Interval[L[i].h] + T[L[i].h]
  <2>1. CASE i <= k
    <3>1. i \in 1 .. k /\ i \in 1 .. m
      BY <1>3, <2>1
    <3> QED
      BY <1>4, <1>8, <3>1
  <2>2. CASE i = k + 1
    <3>1. Interval[h] \in Nat
      BY TimersAssumption
    <3>2. Interval[h] <= Interval[h] - 0 + 0 /\ Interval[h] - 0 + 0 <= Interval[h] + 0
      BY <3>1
    <3> QED
      BY <1>4, <1>7, <2>2, <3>2
  <2>3. CASE i > k + 1
    <3>1. i - 1 \in k + 1 .. m /\ i - 1 \in 1 .. m /\ (i - 1) + 1 = i
      BY <1>3, <2>3
    <3>2. L[i].h = l[i - 1].h /\ Due(L)[i] = Due(l)[i - 1]
      BY <1>4, <3>1
    <3> QED
      BY <1>8, <3>1, <3>2
  <2> QED
    BY <1>3, <2>1, <2>2, <2>3
<1> QED
  BY <1>1, <1>4, <1>5, <1>6, <1>9 DEF Add

-----------------------------------------------------------------------------
(* The tick counter, and the time that the thread has waited.              *)
LEMMA CounterIs ==
  ASSUME NEW M \in Nat, NEW s \in 0 .. M, NEW n \in Nat, n <= M
  PROVE  (s + n) % (M + 1) = IF s + n <= M THEN s + n ELSE s + n - (M + 1)
<1>1. CASE s + n <= M
  BY <1>1
<1>2. CASE s + n > M
  <2>1. PICK r : r = s + n - (M + 1)
    OBVIOUS
  <2>2. r \in 0 .. M /\ s + n = r + (M + 1)
    BY <1>2, <2>1
  <2>3. PICK N \in Nat \ {0} : N = M + 1
    OBVIOUS
  <2>4. (r + N) % N = r
    BY <2>2, <2>3
  <2> QED
    BY <1>2, <2>1, <2>2, <2>3, <2>4
<1> QED
  BY <1>1, <1>2

LEMMA CounterSteps ==
  ASSUME NEW M \in Nat, NEW s \in 0 .. M, NEW n \in Nat, n < M
  PROVE  (((s + n) % (M + 1)) + 1) % (M + 1) = (s + (n + 1)) % (M + 1)
<1>1. PICK x : x = (s + n) % (M + 1)
  OBVIOUS
<1>2. x = IF s + n <= M THEN s + n ELSE s + n - (M + 1)
  BY <1>1, CounterIs
<1>3. x \in 0 .. M
  BY <1>2
<1>4. M = 0 \/ 1 <= M
  OBVIOUS
<1>5. (x + 1) % (M + 1) = IF x + 1 <= M THEN x + 1 ELSE x + 1 - (M + 1)
  BY <1>3, CounterIs
<1>6. (s + (n + 1)) % (M + 1) = IF s + (n + 1) <= M THEN s + (n + 1) ELSE s + (n + 1) - (M + 1)
  <2>1. PICK q \in Nat : q = n + 1 /\ q <= M
    OBVIOUS
  <2>2. (s + q) % (M + 1) = IF s + q <= M THEN s + q ELSE s + q - (M + 1)
    BY <2>1, CounterIs
  <2> QED
    BY <2>1, <2>2
<1> QED
  BY <1>1, <1>2, <1>3, <1>5, <1>6

(* The thread is not kept from running for so long that the counter comes  *)
(* round to where it was when the wait began.                              *)
Short == \A h \in Timers : Interval[h] + MaxBusy <= TickMax

Waited == IF thread.pc = "wait" THEN list[1].time - thread.left ELSE 0
AddsUp == Add(list, Waited, age, late)

(* In a wait: b ticks have passed since its time was over. *)
Clock ==
  thread.pc = "wait" =>
    \E b \in 0 .. MaxBusy :
      /\ b <= late[list[1].h]
      /\ b > 0 => thread.left = 0
      /\ tick = (thread.start + (Waited + b)) % (TickMax + 1)

TInv == LInv /\ AddsUp /\ Clock /\ OnTime

LEMMA Parts ==
  ASSUME LInv
  PROVE  /\ list \in Seq(Entries) /\ Once(list) /\ Bounded(list)
         /\ age \in Ages /\ late \in Ages /\ Waited \in Nat
         /\ thread.pc # "wait" => Waited = 0
         /\ thread.pc = "wait" => Waited = list[1].time - thread.left
<1>1. /\ list \in Seq(Entries) /\ Once(list) /\ Bounded(list)
      /\ age \in Ages /\ late \in Ages
  BY DEF LInv, Types, Ages
<1>2. ASSUME thread.pc = "wait" PROVE Waited \in Nat
  <2>1. list # << >>
    BY <1>2, SomeListed
  <2>2. PICK t \in Nat : t = list[1].time
    BY <1>1, <2>1, TailIs DEF Entries
  <2>3. PICK n \in 0 .. TickMax : n = thread.left
    BY DEF LInv, Types, Threads
  <2>4. n <= t
    BY <1>2, <2>2, <2>3 DEF LInv, Waits
  <2> QED
    BY <1>2, <2>2, <2>3, <2>4, TimersAssumption DEF Waited
<1>3. thread.pc # "wait" => Waited = 0
  BY DEF Waited
<1>4. thread.pc = "wait" => Waited = list[1].time - thread.left
  BY DEF Waited
<1> QED
  BY <1>1, <1>2, <1>3, <1>4

LEMMA InitTime == Init => TInv
<1> SUFFICES ASSUME Init PROVE TInv
  OBVIOUS
<1>1. LInv
  BY InitList
<1>2. list = << >> /\ thread.pc = "init"
  BY DEF Init, Doing
<1>3. AddsUp
  BY <1>2 DEF AddsUp, Add
<1>4. Clock /\ OnTime
  BY <1>2 DEF Clock, OnTime
<1> QED
  BY <1>1, <1>3, <1>4 DEF TInv

(* A timer that is set, by a thread that does not wait and waits not yet. *)
LEMMA SetTime ==
  ASSUME TInv, LInv', NEW h \in Timers \ Listed(list), SysTimeout(h),
         thread.pc # "wait", thread'.pc \notin {"wait", "handler"}
  PROVE  TInv'
<1>1. /\ list \in Seq(Entries) /\ Bounded(list) /\ age \in Ages /\ late \in Ages
      /\ Waited = 0 /\ LInv
  BY Parts DEF TInv
<1>2. Add(list, 0, age, late)
  BY <1>1 DEF TInv, AddsUp
<1>3. /\ list' = Inserted(list, h)
      /\ age' = [age EXCEPT ![h] = 0] /\ late' = [late EXCEPT ![h] = 0]
  BY <1>1, SetIs
<1>4. Add(list', 0, age', late')
  BY <1>1, <1>2, <1>3, AddInserted
<1>5. Waited' = 0
  BY DEF Waited
<1>6. AddsUp'
  BY <1>4, <1>5 DEF AddsUp
<1>7. Clock' /\ OnTime'
  BY DEF Clock, OnTime
<1> QED
  BY <1>6, <1>7 DEF TInv

(* A thread that goes on, with the list as it is. *)
LEMMA KeptTime ==
  ASSUME TInv, LInv', UNCHANGED <<list, age, late>>,
         thread.pc # "wait", thread'.pc \notin {"wait", "handler"}
  PROVE  TInv'
<1>1. Waited = 0 /\ Waited' = 0
  BY DEF Waited
<1>2. AddsUp'
  BY <1>1 DEF TInv, AddsUp, Add
<1>3. Clock' /\ OnTime'
  BY DEF Clock, OnTime
<1> QED
  BY <1>2, <1>3 DEF TInv

(* The first timer's time has come. *)
LEMMA RunTime ==
  ASSUME TInv, LInv', thread.pc \in {"fetch", "wait"}, Waited = list[1].time,
         Run(Head(list).h), UNCHANGED <<age, late>>
  PROVE  TInv'
<1>1. /\ list \in Seq(Entries) /\ list # << >> /\ age \in Ages /\ late \in Ages
      /\ Waited \in Nat /\ Add(list, Waited, age, late)
  <2>1. LInv
    BY DEF TInv
  <2> QED
    BY <2>1, Parts, SomeListed DEF TInv, AddsUp
<1>2. PICK h : h = list[1].h
  OBVIOUS
<1>3. list' = Tail(list) /\ thread' = Doing("handler", h)
  BY <1>1, <1>2, TailIs DEF Run
<1>4. thread'.pc = "handler" /\ thread'.h = h
  BY <1>3 DEF Doing
<1>5. PICK w \in Nat : w = Waited
  BY <1>1
<1>6. Add(list, w, age, late) /\ w = list[1].time
  BY <1>1, <1>5
<1>7. Add(Tail(list), 0, age, late) /\ age[h] \in Interval[h] .. Interval[h] + late[h]
  BY <1>1, <1>2, <1>6, AddTail
<1>8. Waited' = 0
  BY <1>4 DEF Waited
<1>9. AddsUp'
  BY <1>3, <1>7, <1>8 DEF AddsUp
<1>10. Clock'
  BY <1>4 DEF Clock
<1>11. OnTime'
  BY <1>4, <1>7 DEF OnTime
<1> QED
  BY <1>9, <1>10, <1>11 DEF TInv

LEMMA WaitTime ==
  ASSUME TInv, LInv', FetchWait PROVE TInv'
<1>1. /\ thread.pc = "fetch" /\ UNCHANGED <<tick, list, age, late>>
      /\ thread' = [Doing("wait", Tcp) EXCEPT !.start = tick, !.left = Remaining(list)]
  BY DEF FetchWait
<1>2. list # << >> /\ list \in Seq(Entries) /\ tick \in 0 .. TickMax /\ late \in Ages
      /\ Waited = 0
  BY <1>1, SomeListed, Parts DEF TInv, LInv, Types
<1>3. PICK t \in Nat : t = list[1].time /\ t = Remaining(list) /\ list[1].h \in Timers
  BY <1>2, TailIs DEF Entries, Remaining
<1>4. thread'.pc = "wait" /\ thread'.start = tick /\ thread'.left = t
  BY <1>1, <1>3 DEF Doing
<1>5. Waited' = 0
  BY <1>1, <1>3, <1>4 DEF Waited
<1>6. AddsUp'
  BY <1>1, <1>2, <1>5 DEF TInv, AddsUp, Add
<1>7. Clock'
  <2>1. (tick + (0 + 0)) % (TickMax + 1) = tick
    <3>1. PICK M \in Nat : M = TickMax
      BY TimersAssumption
    <3> QED
      BY <1>2, <3>1
  <2>2. 0 \in 0 .. MaxBusy
    BY TimersAssumption
  <2>3. late[list[1].h] \in Nat
    BY <1>2, <1>3 DEF Ages
  <2>4. 0 <= late'[list'[1].h]
    BY <1>1, <2>3
  <2>5. tick' = (thread'.start + (Waited' + 0)) % (TickMax + 1)
    BY <1>1, <1>4, <1>5, <2>1
  <2> QED
    BY <2>2, <2>4, <2>5 DEF Clock
<1>8. OnTime'
  BY <1>4 DEF OnTime
<1> QED
  BY <1>6, <1>7, <1>8 DEF TInv

(* How long the wait took, by the counter: if it has wrapped, one tick is  *)
(* not counted.                                                            *)
LEMMA ElapsedIs ==
  ASSUME NEW M \in Nat, NEW s \in 0 .. M, NEW n \in Nat, n <= M,
         NEW k, k = (s + n) % (M + 1)
  PROVE  /\ k < s => M - s + k = n - 1
         /\ ~(k < s) => k - s = n
<1>1. k = IF s + n <= M THEN s + n ELSE s + n - (M + 1)
  BY CounterIs
<1> QED
  BY <1>1

LEMMA ReceivedTime ==
  ASSUME Short, TInv, LInv', Received PROVE TInv'
<1>1. /\ thread.pc = "wait" /\ age' = age
      /\ thread' = Doing("message", Tcp)
  BY DEF Received
<1>2. /\ list # << >> /\ list \in Seq(Entries) /\ Bounded(list)
      /\ age \in Ages /\ late \in Ages /\ late' \in Ages /\ Add(list, Waited, age, late)
  <2>1. LInv /\ late' \in Ages
    BY DEF TInv, LInv, Types, Ages
  <2> QED
    BY <1>1, <2>1, Parts, SomeListed DEF TInv, AddsUp
<1>3. PICK n \in Nat : /\ n <= list[1].time
                       /\ Elapsed < list[1].time => n = list[1].time - Elapsed
                       /\ ~(Elapsed < list[1].time) => n = 0
                       /\ list' = Shorter(list, n)
  BY ReceivedIs DEF TInv
<1>4. PICK e \in Nat : e = Elapsed
  BY ReceivedIs DEF TInv
<1>5. PICK h \in Timers : h = list[1].h
  BY <1>2, TailIs DEF Entries
<1>6. PICK t \in Nat : t = list[1].time /\ t <= Interval[h]
  <2>1. 1 \in 1 .. Len(list) /\ list[1] \in Entries
    BY <1>2
  <2>2. list[1].time \in Nat
    BY <2>1 DEF Entries
  <2> QED
    BY <1>2, <1>5, <2>1, <2>2 DEF Bounded
<1>7. PICK left \in 0 .. TickMax : left = thread.left
  BY DEF TInv, LInv, Types, Threads
<1>8. left <= t
  BY <1>1, <1>6, <1>7 DEF TInv, LInv, Waits
<1>9. PICK w \in Nat : w = Waited /\ w = t - left
  <2>1. Waited = t - left
    BY <1>1, <1>6, <1>7 DEF Waited
  <2> QED
    BY <1>6, <1>7, <1>8, <2>1
<1>10. PICK b \in 0 .. MaxBusy : /\ b > 0 => left = 0
                                 /\ tick = (thread.start + (w + b)) % (TickMax + 1)
  BY <1>1, <1>7, <1>9 DEF TInv, Clock
<1>11. b \in Nat /\ w + b <= TickMax
  <2>1. Interval[h] \in Nat /\ Interval[h] + MaxBusy <= TickMax
    BY <1>5, TimersAssumption DEF Short
  <2> QED
    BY <1>6, <1>7, <1>8, <1>9, <1>10, <2>1, TimersAssumption
<1>12. PICK M \in Nat : M = TickMax
  BY TimersAssumption
<1>13. PICK s \in 0 .. M : s = thread.start
  BY <1>12 DEF TInv, LInv, Types, Threads
<1>14. PICK q \in Nat : q = w + b
  BY <1>11
<1>15. /\ tick < s => M - s + tick = q - 1
       /\ ~(tick < s) => tick - s = q
  BY <1>10, <1>11, <1>12, <1>13, <1>14, ElapsedIs
<1>16. /\ Wrapped => e = q - 1
       /\ ~Wrapped => e = q
  BY <1>4, <1>12, <1>13, <1>15 DEF Elapsed, Wrapped
<1>17. n <= t /\ (e < t => n = t - e) /\ (~(e < t) => n = 0)
  BY <1>3, <1>4, <1>6
<1>18. PICK r \in {0, 1} : t - n = w - r /\ (r = 1 => Wrapped)
  <2>1. CASE b = 0
    <3>1. CASE Wrapped
      <4>1. e = w - 1
        BY <1>14, <1>16, <2>1, <3>1
      <4>2. e < t /\ t - n = w - 1
        BY <1>4, <1>7, <1>9, <1>17, <4>1
      <4> QED
        BY <3>1, <4>2
    <3>2. CASE ~Wrapped
      <4>1. e = w
        BY <1>14, <1>16, <2>1, <3>2
      <4>2. t - n = w - 0
        BY <1>7, <1>9, <1>17, <4>1
      <4> QED
        BY <4>2
    <3> QED
      BY <3>1, <3>2
  <2>2. CASE b # 0
    <3>1. left = 0 /\ w = t /\ q >= t + 1
      BY <1>9, <1>10, <1>11, <1>14, <2>2
    <3>2. ~(e < t)
      BY <1>16, <3>1
    <3>3. t - n = w - 0
      BY <1>17, <3>1, <3>2
    <3> QED
      BY <3>3
  <2> QED
    BY <2>1, <2>2
<1>19. \A x \in Listed(list) : late'[x] >= late[x] + r
  <2> SUFFICES ASSUME NEW x \in Listed(list) PROVE late'[x] >= late[x] + r
    OBVIOUS
  <2>1. x \in Timers /\ late[x] \in Nat
    BY <1>2, ListedIs DEF Ages
  <2>2. late' = IF Wrapped
               THEN [y \in Timers |-> IF y \in Listed(list) THEN late[y] + 1 ELSE late[y]]
               ELSE late
    BY DEF Received
  <2>3. CASE Wrapped
    <3>1. late'[x] = late[x] + 1
      BY <2>1, <2>2, <2>3
    <3> QED
      BY <1>18, <2>1, <3>1
  <2>4. CASE ~Wrapped
    <3>1. late'[x] = late[x] /\ r = 0
      BY <1>18, <2>2, <2>4
    <3> QED
      BY <2>1, <3>1
  <2> QED
    BY <2>3, <2>4
<1>20. Add(Shorter(list, n), 0, age, late')
  <2>1. Add(list, w, age, late) /\ n <= list[1].time /\ list[1].time - n = w - r
    BY <1>2, <1>3, <1>6, <1>9, <1>18
  <2> QED
    BY <1>2, <1>19, <2>1, AddShorter
<1>21. thread'.pc = "message"
  BY <1>1 DEF Doing
<1>22. AddsUp'
  <2>1. Waited' = 0
    BY <1>21 DEF Waited
  <2>2. list' = Shorter(list, n)
    BY <1>3
  <2> QED
    BY <1>1, <1>20, <2>1, <2>2 DEF AddsUp
<1>23. Clock' /\ OnTime'
  BY <1>21 DEF Clock, OnTime
<1> QED
  BY <1>22, <1>23 DEF TInv

(* The timers in the list grow older. *)
LEMMA PassesAdd ==
  ASSUME TInv, NEW lost \in {0, 1}, Passes(lost)
  PROVE  Add(list, Waited + 1 - lost, age', late') /\ list' = list
<1>1. /\ list \in Seq(Entries) /\ age \in Ages /\ late \in Ages /\ Waited \in Nat
      /\ Add(list, Waited, age, late) /\ LInv
  BY Parts DEF TInv, AddsUp
<1>2. age' \in Ages /\ late' \in Ages
  BY <1>1, PassesTyped DEF Ages
<1>3. \A h \in Listed(list) : age'[h] = age[h] + 1 /\ late'[h] = late[h] + lost
  <2>1. \A h \in Listed(list) : h \in Timers
    BY <1>1, ListedIs
  <2> QED
    BY <2>1 DEF Passes
<1>4. Add(list, Waited + 1 - lost, age', late')
  BY <1>1, <1>2, <1>3, AddPasses
<1> QED
  BY <1>4 DEF Passes

LEMMA WaitingTime ==
  ASSUME Short, TInv, LInv', TickWaiting PROVE TInv'
<1>1. /\ thread.pc = "wait" /\ thread.left > 0 /\ thread' = [thread EXCEPT !.left = @ - 1]
      /\ Passes(0)
  BY DEF TickWaiting, Waiting
<1>2. Add(list, Waited + 1 - 0, age', late') /\ list' = list
  BY <1>1, PassesAdd
<1>3. /\ list \in Seq(Entries) /\ list # << >> /\ Bounded(list)
      /\ late \in Ages /\ LInv
  BY <1>1, SomeListed, Parts DEF TInv
<1>4. PICK left \in 0 .. TickMax : left = thread.left
  BY DEF TInv, LInv, Types, Threads
<1>5. thread'.pc = "wait" /\ thread'.left = left - 1 /\ thread'.start = thread.start
  <2>1. thread \in Threads
    BY <1>3 DEF LInv, Types
  <2> QED
    BY <1>1, <1>4, <2>1 DEF Threads
<1>6. PICK h \in Timers : h = list[1].h
  BY <1>3, TailIs DEF Entries
<1>7. PICK t \in Nat : t = list[1].time /\ t <= Interval[h]
  <2>1. 1 \in 1 .. Len(list) /\ list[1] \in Entries
    BY <1>3
  <2>2. list[1].time \in Nat
    BY <2>1 DEF Entries
  <2> QED
    BY <1>3, <1>6, <2>1, <2>2 DEF Bounded
<1>8. left <= t
  BY <1>1, <1>3, <1>4, <1>7 DEF LInv, Waits
<1>9. PICK w \in Nat : w = Waited /\ w = t - left
  <2>1. Waited = t - left
    BY <1>1, <1>4, <1>7 DEF Waited
  <2> QED
    BY <1>4, <1>7, <1>8, <2>1
<1>10. Waited' = w + 1
  <2>1. Waited' = t - (left - 1)
    BY <1>2, <1>5, <1>7 DEF Waited
  <2> QED
    BY <1>4, <1>7, <1>9, <2>1
<1>11. AddsUp'
  <2>1. Waited + 1 - 0 = w + 1
    BY <1>9
  <2> QED
    BY <1>2, <1>10, <2>1 DEF AddsUp
<1>12. Clock'
  <2>1. PICK b \in 0 .. MaxBusy : /\ b <= late[list[1].h]
                                  /\ b > 0 => thread.left = 0
                                  /\ tick = (thread.start + (Waited + b)) % (TickMax + 1)
    BY <1>1 DEF TInv, Clock
  <2>2. b = 0 /\ tick = (thread.start + w) % (TickMax + 1)
    <3>1. b \in Nat
      BY <2>1, TimersAssumption
    <3>2. b = 0
      BY <1>1, <1>4, <2>1, <3>1
    <3>3. Waited + b = w
      BY <1>9, <3>2
    <3> QED
      BY <2>1, <3>2, <3>3
  <2>3. PICK M \in Nat : M = TickMax
    BY TimersAssumption
  <2>4. PICK s \in 0 .. M : s = thread.start
    BY <1>3, <2>3 DEF LInv, Types, Threads
  <2>5. w < M
    <3>1. Interval[h] \in Nat /\ Interval[h] + MaxBusy <= TickMax /\ MaxBusy \in Nat
      BY <1>6, TimersAssumption DEF Short
    <3> QED
      BY <1>1, <1>4, <1>7, <1>9, <2>3, <3>1
  <2>6. tick' = (tick + 1) % (M + 1) /\ tick = (s + w) % (M + 1)
    BY <1>1, <2>2, <2>3, <2>4 DEF Passes
  <2>7. tick' = (s + (w + 1)) % (M + 1)
    BY <2>4, <2>5, <2>6, CounterSteps
  <2>8. thread'.start + (Waited' + 0) = s + (w + 1)
    BY <1>5, <1>10, <2>4
  <2>9. 0 <= late'[list'[1].h]
    <3>1. late'[h] = late[h] \/ late'[h] = late[h] + 0
      BY <1>1, <1>6 DEF Passes
    <3>2. late[h] \in Nat
      BY <1>3, <1>6 DEF Ages
    <3> QED
      BY <1>2, <1>6, <3>1, <3>2
  <2>10. 0 \in 0 .. MaxBusy
    BY TimersAssumption
  <2>11. tick' = (thread'.start + (Waited' + 0)) % (TickMax + 1)
    BY <2>3, <2>7, <2>8
  <2> QED
    BY <2>9, <2>10, <2>11 DEF Clock
<1>13. OnTime'
  BY <1>5 DEF OnTime
<1> QED
  BY <1>11, <1>12, <1>13 DEF TInv

LEMMA BusyTime ==
  ASSUME Short, TInv, LInv', TickBusy PROVE TInv'
<1>1. ~Waiting /\ (\A h \in Listed(list) : late[h] < MaxBusy) /\ Passes(1) /\ thread' = thread
  BY DEF TickBusy
<1>2. Add(list, Waited + 1 - 1, age', late') /\ list' = list
  BY <1>1, PassesAdd
<1>3. list \in Seq(Entries) /\ Bounded(list) /\ late \in Ages /\ LInv /\ Waited \in Nat
  BY Parts DEF TInv
<1>4. Waited' = Waited
  BY <1>1, <1>2 DEF Waited
<1>5. AddsUp'
  <2>1. Waited + 1 - 1 = Waited
    BY <1>3
  <2> QED
    BY <1>2, <1>4, <2>1 DEF AddsUp
<1>6. Clock'
  <2> SUFFICES ASSUME thread'.pc = "wait"
               PROVE  \E b \in 0 .. MaxBusy :
                        /\ b <= late'[list'[1].h]
                        /\ b > 0 => thread'.left = 0
                        /\ tick' = (thread'.start + (Waited' + b)) % (TickMax + 1)
    BY DEF Clock
  <2>1. thread.pc = "wait" /\ list # << >>
    BY <1>1, <1>3, SomeListed
  <2>2. PICK h \in Timers : h = list[1].h /\ h \in Listed(list)
    <3>1. 1 \in 1 .. Len(list)
      BY <1>3, <2>1
    <3> QED
      BY <1>3, <3>1, EntryIs
  <2>3. PICK b \in 0 .. MaxBusy : /\ b <= late[list[1].h]
                                  /\ b > 0 => thread.left = 0
                                  /\ tick = (thread.start + (Waited + b)) % (TickMax + 1)
    BY <2>1 DEF TInv, Clock
  <2>4. PICK y \in Nat : y = late[h] /\ y < MaxBusy /\ b <= y /\ late'[h] = y + 1
    <3>1. late[h] \in Nat /\ late[h] < MaxBusy /\ b <= late[h]
      BY <1>1, <1>3, <2>2, <2>3 DEF Ages
    <3>2. late'[h] = late[h] + 1
      BY <1>1, <2>2 DEF Passes
    <3> QED
      BY <3>1, <3>2
  <2>5. PICK M \in Nat : M = TickMax
    BY TimersAssumption
  <2>6. PICK s \in 0 .. M : s = thread.start
    BY <1>3, <2>5 DEF LInv, Types, Threads
  <2>7. thread.left = 0
    <3>1. thread.left \in 0 .. M
      BY <1>3, <2>5 DEF LInv, Types, Threads
    <3> QED
      BY <1>1, <2>1, <2>5, <3>1 DEF Waiting
  <2>8. PICK w \in Nat : w = Waited /\ w <= Interval[h]
    <3>1. 1 \in 1 .. Len(list) /\ list[1] \in Entries
      BY <1>3, <2>1
    <3>2. list[1].time \in Nat
      BY <3>1 DEF Entries
    <3>3. list[1].time <= Interval[h]
      BY <1>3, <2>2, <3>1 DEF Bounded
    <3>4. Waited = list[1].time - thread.left
      BY <2>1 DEF Waited
    <3> QED
      BY <2>7, <3>2, <3>3, <3>4
  <2>9. PICK n \in Nat : n = w + b /\ n < M /\ MaxBusy \in Nat
    <3>1. Interval[h] \in Nat /\ Interval[h] + MaxBusy <= TickMax /\ MaxBusy \in Nat
      BY <2>2, TimersAssumption DEF Short
    <3> QED
      BY <2>3, <2>4, <2>5, <2>8, <3>1
  <2>10. tick' = (tick + 1) % (M + 1) /\ tick = (s + n) % (M + 1)
    BY <1>1, <2>3, <2>5, <2>6, <2>8, <2>9 DEF Passes
  <2>11. tick' = (s + (n + 1)) % (M + 1)
    BY <2>6, <2>9, <2>10, CounterSteps
  <2>12. thread'.start + (Waited' + (b + 1)) = s + (n + 1)
    BY <1>1, <1>4, <2>3, <2>6, <2>8, <2>9
  <2>13. b + 1 \in 0 .. MaxBusy /\ b + 1 <= late'[list'[1].h]
    BY <1>2, <2>2, <2>3, <2>4, <2>9
  <2>14. tick' = (thread'.start + (Waited' + (b + 1))) % (TickMax + 1)
    BY <2>5, <2>11, <2>12
  <2>15. thread'.left = 0
    BY <1>1, <2>7
  <2> QED
    BY <2>13, <2>14, <2>15
<1>7. OnTime'
  <2> SUFFICES ASSUME thread'.pc = "handler"
               PROVE  age'[thread'.h] \in Interval[thread'.h]
                                           .. Interval[thread'.h] + late'[thread'.h]
    BY DEF OnTime
  <2>1. thread.pc = "handler" /\ thread'.h = thread.h
    BY <1>1
  <2>2. PICK h \in Timers : h = thread.h
    BY <1>3 DEF LInv, Types, Threads
  <2>3. h \notin Listed(list)
    BY <1>3, <2>1, <2>2 DEF LInv, Right, Running
  <2>4. age'[h] = age[h] /\ late'[h] = late[h]
    BY <1>1, <2>3 DEF Passes
  <2>5. age[h] \in Interval[h] .. Interval[h] + late[h]
    BY <2>1, <2>2 DEF TInv, OnTime
  <2> QED
    BY <2>1, <2>2, <2>4, <2>5
<1> QED
  BY <1>5, <1>6, <1>7 DEF TInv

LEMMA StepTime ==
  ASSUME Short, TInv, [Next]_vars PROVE TInv'
<1>0. LInv /\ LInv'
  BY StepList DEF TInv
<1>1. CASE SysTimeoutsInit
  <2>1. PICK h \in Periodic \ Listed(list) :
          /\ SysTimeout(h)
          /\ thread' = IF Periodic \ Listed(list) = {h} THEN Doing("fetch", Tcp) ELSE thread
    BY <1>1 DEF SysTimeoutsInit
  <2>2. thread.pc = "init" /\ h \in Timers \ Listed(list)
    BY <1>1 DEF SysTimeoutsInit, Timers
  <2>3. thread'.pc \notin {"wait", "handler"}
    BY <2>1, <2>2 DEF Doing
  <2> QED
    BY <1>0, <2>1, <2>2, <2>3, SetTime
<1>2. CASE FetchExpired
  <2>1. /\ thread.pc = "fetch" /\ Remaining(list) = 0 /\ Run(Head(list).h)
        /\ UNCHANGED <<age, late>>
    BY <1>2 DEF FetchExpired
  <2>2. list # << >> /\ list \in Seq(Entries)
    BY <1>0, <2>1, SomeListed DEF LInv, Types
  <2>3. list[1].time = 0 /\ Waited = 0
    BY <2>1, <2>2 DEF Remaining, Waited
  <2> QED
    BY <1>0, <2>1, <2>3, RunTime
<1>3. CASE FetchWait
  BY <1>0, <1>3, WaitTime
<1>4. CASE TimedOut
  <2>1. /\ thread.pc = "wait" /\ thread.left = 0 /\ Run(Head(list).h)
        /\ UNCHANGED <<age, late>>
    BY <1>4 DEF TimedOut
  <2>2. list # << >> /\ list \in Seq(Entries)
    BY <1>0, <2>1, SomeListed DEF LInv, Types
  <2>3. list[1].time \in Nat
    BY <2>2, TailIs DEF Entries
  <2>4. Waited = list[1].time
    BY <2>1, <2>3 DEF Waited
  <2> QED
    BY <1>0, <2>1, <2>4, RunTime
<1>5. CASE Received
  BY <1>0, <1>5, ReceivedTime
<1>6. CASE PeriodicTimer
  <2>1. PICK h : h = thread.h
    OBVIOUS
  <2>2. /\ thread.pc = "handler" /\ h \in Periodic /\ SysTimeout(h)
        /\ thread' = Doing("fetch", Tcp)
    BY <1>6, <2>1 DEF PeriodicTimer
  <2>3. h \in Timers \ Listed(list)
    BY <1>0, <2>1, <2>2 DEF LInv, Right, Running, Timers
  <2>4. thread'.pc \notin {"wait", "handler"} /\ thread.pc # "wait"
    BY <2>2 DEF Doing
  <2> QED
    BY <1>0, <2>2, <2>3, <2>4, SetTime
<1>7. CASE TcpTimer
  <2>1. /\ thread.pc = "handler" /\ thread.h = Tcp /\ thread' = Doing("fetch", Tcp)
        /\ SysTimeout(Tcp) \/ UNCHANGED <<list, age, late>>
    BY <1>7 DEF TcpTimer, NoTimeout
  <2>2. Tcp \in Timers \ Listed(list)
    BY <1>0, <2>1, TimersFinite DEF LInv, Right, Running
  <2>3. thread'.pc \notin {"wait", "handler"} /\ thread.pc # "wait"
    BY <2>1 DEF Doing
  <2> QED
    BY <1>0, <2>1, <2>2, <2>3, SetTime, KeptTime
<1>8. CASE Message
  <2>1. thread.pc = "message" /\ thread' = Doing("fetch", Tcp)
    BY <1>8 DEF Message
  <2>2. thread'.pc \notin {"wait", "handler"} /\ thread.pc # "wait"
    BY <2>1 DEF Doing
  <2>3. CASE pcbs' /\ ~active
    <3>1. SysTimeout(Tcp)
      BY <1>8, <2>3 DEF Message
    <3>2. Tcp \in Timers \ Listed(list)
      BY <1>0, <2>1, <2>3, TimersFinite DEF LInv, Right, Running, Expected
    <3> QED
      BY <1>0, <2>2, <3>1, <3>2, SetTime
  <2>4. CASE ~(pcbs' /\ ~active)
    <3>1. UNCHANGED <<list, age, late>>
      BY <1>8, <2>4 DEF Message, NoTimeout
    <3> QED
      BY <1>0, <2>2, <3>1, KeptTime
  <2> QED
    BY <2>3, <2>4
<1>9. CASE Post
  <2>1. UNCHANGED <<tick, list, thread, age, late>>
    BY <1>9 DEF Post
  <2>2. Waited' = Waited
    BY <2>1 DEF Waited
  <2> QED
    BY <1>0, <2>1, <2>2 DEF TInv, AddsUp, Add, Clock, OnTime
<1>10. CASE TickWaiting
  BY <1>0, <1>10, WaitingTime
<1>11. CASE TickBusy
  BY <1>0, <1>11, BusyTime
<1>12. CASE UNCHANGED vars
  <2>1. UNCHANGED <<tick, list, thread, age, late>>
    BY <1>12 DEF vars
  <2>2. Waited' = Waited
    BY <2>1 DEF Waited
  <2> QED
    BY <1>0, <2>1, <2>2 DEF TInv, AddsUp, Add, Clock, OnTime
<1> QED
  BY <1>1, <1>2, <1>3, <1>4, <1>5, <1>6, <1>7, <1>8, <1>9, <1>10, <1>11, <1>12
  DEF Next, Thread

(* A handler never runs before its time, whatever messages come and        *)
(* whatever timers are set meanwhile, and no later than the ticks that     *)
(* passed while the thread was kept from running, with one more for each   *)
(* wrap of the tick counter that a message came after: as long as the      *)
(* thread is not kept for so long that the counter comes round             *)
(* (timers.c:260-289, 411-462, sys_arch.c:347-363).                        *)
THEOREM HandlersOnTime ==
  ASSUME Short PROVE Spec => []OnTime
<1>1. Init => TInv
  BY InitTime
<1>2. TInv /\ [Next]_vars => TInv'
  BY StepTime
<1>3. TInv => OnTime
  BY DEF TInv
<1> QED
  BY <1>1, <1>2, <1>3, PTL DEF Spec
=============================================================================
