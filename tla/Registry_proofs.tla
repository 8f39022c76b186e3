--------------------------- MODULE Registry_proofs ---------------------------
(***************************************************************************)
(* Theorems about the registry, for a table of any size, sectors of any    *)
(* length and any keys:                                                    *)
(*   - TypeCorrect;                                                        *)
(*   - KeysStayFound: if no two keys have the same home (as the keys of    *)
(*     the kernel), every stored key is found where it is stored;          *)
(*   - UpdateKeysUndisturbed: if moreover each key of the update is alone  *)
(*     in its sector, only setting that key changes its entry.  This is    *)
(*     what module FirmwareUpdate relies on when it keeps the three keys   *)
(*     of the update in a record;                                          *)
(*   - KeysAreThere: the keys that a program initialises are all there     *)
(*     when it has initialised them, if a later write spares the earlier   *)
(*     keys, as the order of the kernel's calls does.                      *)
(***************************************************************************)
EXTENDS Registry, FiniteSetTheorems, TLAPS

(* No collisions. *)
Injective == \A j, k \in Keys : Home[j] = Home[k] => j = k

(* The update's keys share a sector with no other key, nor with the size.  *)
Isolated ==
  \A u \in UpdateKeys :
    /\ SectorOf(Home[u]) # SectorOf(0)
    /\ \A k \in Keys : k # u => SectorOf(Home[k]) # SectorOf(Home[u])

-----------------------------------------------------------------------------
(* Written keeps the type of the table. *)
LEMMA WrittenType ==
  ASSUME slots \in [Slot -> Entry], NEW i \in Slot, NEW e \in Entry
  PROVE  Written(i, e) \in [Slot -> Entry]
<1>1. Empty \in Entry
  BY DEF Empty, Entry
<1>. QED BY <1>1 DEF Written

(* Changing the value of an entry leaves an entry. *)
LEMMA ValueType ==
  ASSUME slots \in [Slot -> Entry], NEW i \in Slot, NEW v \in Nat
  PROVE  /\ [slots[i] EXCEPT !.value = v] \in Entry
         /\ [slots[i] EXCEPT !.value = v].key = slots[i].key
BY DEF Entry

LEMMA SlotZero == 0 \in Slot
BY TableAssumption DEF Slot

LEMMA HomeSlot == ASSUME NEW k \in Keys PROVE Home[k] \in Slot
BY TableAssumption DEF Slot

(* What Perform leaves is a call of the right type, to the first key.      *)
LEMMA PerformType ==
  ASSUME NEW keys \in Seq(Keys), Perform(keys)
  PROVE  /\ todo' \in Seq(Keys)
         /\ call' \in [pc : {"idle", "wipe", "count", "find", "create",
                             "write", "size"}, at : Slot]
         /\ call'.pc \in {"idle", "find"}
         /\ call'.pc = "find" => todo' # <<>> /\ call'.at = Home[Head(todo')]
<1>1. todo' = keys
  BY DEF Perform
<1>2. CASE keys = <<>>
  <2>1. call' = [pc |-> "idle", at |-> 0]
    BY <1>2 DEF Perform, Idle
  <2>. QED BY <1>1, <2>1, SlotZero
<1>3. CASE keys # <<>>
  <2>1. Head(keys) \in Keys
    BY <1>3
  <2>2. call' = [pc |-> "find", at |-> Home[Head(keys)]]
    BY <1>3 DEF Perform
  <2>. QED BY <1>1, <1>3, <2>1, <2>2, HomeSlot
<1>. QED BY <1>2, <1>3

LEMMA TailType ==
  ASSUME todo \in Seq(Keys), todo # <<>>
  PROVE  Tail(todo) \in Seq(Keys) /\ Head(todo) \in Keys
OBVIOUS

LEMMA NextSlotType == ASSUME NEW s \in Slot PROVE NextSlot(s) \in Slot
BY TableAssumption DEF Slot, NextSlot

(* A set leaves a table of the right type. *)
LEMMA SetType ==
  ASSUME slots \in [Slot -> Entry], NEW k, NEW v \in Nat, SetValue(k, v)
  PROVE  slots' \in [Slot -> Entry]
<1>1. CASE ~Found(k) /\ slots' = slots
  BY <1>1
<1>2. ASSUME NEW s \in Slot, slots' = Written(s, [slots[s] EXCEPT !.value = v])
      PROVE  slots' \in [Slot -> Entry]
  BY <1>2, WrittenType, ValueType
<1>. QED BY <1>1, <1>2 DEF SetValue

(* Occupied slots are finitely many. *)
LEMMA SlotsFinite ==
  ASSUME NEW S \in SUBSET Slot
  PROVE  IsFiniteSet(S) /\ Cardinality(S) \in Nat
<1>1. IsFiniteSet(Slot)
  BY FS_Interval, TableAssumption DEF Slot
<1>. QED BY <1>1, FS_Subset, FS_CardinalityType

(* A write occupies at most the slot it is made to, and with the key that  *)
(* the slot has, or with none, it occupies nothing.                        *)
LEMMA WrittenOccupies ==
  ASSUME NEW i \in Slot, NEW e, slots' = Written(i, e)
  PROVE  /\ Occupied' \subseteq Occupied \cup {i}
         /\ e.key = NoKey \/ e.key = slots[i].key => Occupied' \subseteq Occupied
BY DEF Occupied, Written, Empty

LEMMA SetOccupies ==
  ASSUME slots \in [Slot -> Entry], NEW k, NEW v \in Nat, SetValue(k, v)
  PROVE  Occupied' \subseteq Occupied
<1>1. CASE ~Found(k) /\ slots' = slots
  BY <1>1 DEF Occupied
<1>2. ASSUME NEW s \in Slot, slots' = Written(s, [slots[s] EXCEPT !.value = v])
      PROVE  Occupied' \subseteq Occupied
  <2> DEFINE e == [slots[s] EXCEPT !.value = v]
  <2>1. e.key = slots[s].key
    BY ValueType
  <2> HIDE DEF e
  <2>2. slots' = Written(s, e)
    BY <1>2 DEF e
  <2>. QED BY <2>1, <2>2, WrittenOccupies
<1>. QED BY <1>1, <1>2 DEF SetValue

LEMMA FewerOccupied ==
  ASSUME Occupied' \subseteq Occupied
  PROVE  Cardinality(Occupied') <= Cardinality(Occupied)
<1>1. IsFiniteSet(Occupied)
  BY SlotsFinite DEF Occupied
<1>. QED BY <1>1, FS_Subset

LEMMA OneMoreOccupied ==
  ASSUME NEW i \in Slot, Occupied' \subseteq Occupied \cup {i}
  PROVE  Cardinality(Occupied') <= Cardinality(Occupied) + 1
<1>1. IsFiniteSet(Occupied) /\ Cardinality(Occupied) \in Nat
  BY SlotsFinite DEF Occupied
<1>2. /\ IsFiniteSet(Occupied \cup {i})
      /\ Cardinality(Occupied \cup {i}) <= Cardinality(Occupied) + 1
  <2>1. /\ IsFiniteSet(Occupied \cup {i})
        /\ Cardinality(Occupied \cup {i})
             = IF i \in Occupied THEN Cardinality(Occupied) ELSE Cardinality(Occupied) + 1
    BY <1>1, FS_AddElement
  <2>. QED BY <1>1, <2>1
<1>3. Cardinality(Occupied') <= Cardinality(Occupied \cup {i})
  BY <1>2, FS_Subset
<1>. QED
  <2>1. Cardinality(Occupied \cup {i}) \in Nat /\ Cardinality(Occupied') \in Nat
    BY <1>2, FS_CardinalityType, SlotsFinite DEF Occupied
  <2>. QED BY <1>1, <1>2, <1>3, <2>1

-----------------------------------------------------------------------------
(* Type correctness and the size. *)

Calls == call.pc \in {"find", "create", "write", "size"} => todo # <<>>

Phase ==
  /\ call.pc = "wipe" => program = "loader"
  /\ call.pc = "count" => program \in {"loader", "kernel"} /\ size = 0
  /\ program = "off" => call.pc = "idle"

Wiped == call.pc = "wipe" => \A s \in Slot : s < call.at => slots[s].key = NoKey

Counted ==
  call.pc \notin {"wipe", "count"} /\ program # "off" =>
    Cardinality(Occupied) <= size + (IF call.pc = "size" THEN 1 ELSE 0)

SizeInv == TypeOK /\ Calls /\ Phase /\ Wiped /\ Counted

CallType == [pc : {"idle", "wipe", "count", "find", "create", "write", "size"},
             at : Slot]

LEMMA SizeInit == Init => SizeInv
<1> SUFFICES ASSUME Init PROVE SizeInv
  OBVIOUS
<1>1. /\ slots = [s \in Slot |-> Empty] /\ size = 0 /\ program = "off"
      /\ todo = <<>> /\ call = Idle /\ pending = NoSet
  BY DEF Init
<1>2. TypeOK
  BY <1>1, SlotZero DEF TypeOK, Empty, Entry, Idle, NoSet
<1>. QED BY <1>1, <1>2 DEF SizeInv, Calls, Phase, Wiped, Counted, Idle

(* The call that follows NotFound. *)
LEMMA NotFoundType ==
  ASSUME TypeOK, todo # <<>>, NotFound
  PROVE  /\ todo' \in Seq(Keys) /\ call' \in CallType
         /\ call'.pc \in {"idle", "find", "create"}
         /\ call'.pc \in {"find", "create"} => todo' # <<>>
<1>1. todo \in Seq(Keys)
  BY DEF TypeOK
<1>2. Tail(todo) \in Seq(Keys) /\ Head(todo) \in Keys
  BY <1>1, TailType
<1>3. CASE size < Slots
  <2>1. call' = [pc |-> "create", at |-> Home[Head(todo)]] /\ todo' = todo
    BY <1>3 DEF NotFound
  <2>. QED BY <1>1, <1>2, <2>1, HomeSlot DEF CallType
<1>4. CASE ~(size < Slots)
  <2>1. Perform(Tail(todo))
    BY <1>4 DEF NotFound
  <2>. QED BY <1>2, <2>1, PerformType DEF CallType
<1>. QED BY <1>3, <1>4

(* registry_init *)
LEMMA OpenStep ==
  ASSUME SizeInv,
         (\E b \in BOOLEAN : PowerUp(b)) \/ Wipe \/ Count \/ StartKernel
  PROVE  SizeInv'
<1>1. /\ slots \in [Slot -> Entry] /\ size \in Nat /\ todo \in Seq(Keys)
      /\ call \in CallType
      /\ program \in {"off", "loader", "kernel", "run"}
      /\ pending \in [key : UpdateKeys \cup {NoKey}, at : Slot, value : Nat]
      /\ Calls /\ Phase /\ Wiped /\ Counted
  BY DEF SizeInv, TypeOK, CallType
<1>2. CASE (\E b \in BOOLEAN : PowerUp(b)) \/ StartKernel
  <2>1. /\ program' \in {"loader", "kernel"} /\ size' = 0 /\ todo' \in Seq(Keys)
        /\ call' \in CallType /\ call'.at = 0
        /\ call'.pc = "count" \/ (call'.pc = "wipe" /\ program' = "loader")
        /\ slots' = slots /\ pending' = pending
    BY <1>2, ScriptAssumption, SlotZero DEF PowerUp, StartKernel, CallType
  <2>2. TypeOK'
    BY <1>1, <2>1 DEF TypeOK, CallType
  <2>3. Calls' /\ Phase' /\ Counted'
    BY <2>1 DEF Calls, Phase, Counted
  <2>4. Wiped'
    BY <2>1, TableAssumption DEF Wiped, Slot
  <2>. QED BY <2>2, <2>3, <2>4 DEF SizeInv
<1>3. CASE Wipe
  <2>1. /\ call.pc = "wipe" /\ slots' = Written(call.at, Empty)
        /\ program' = program /\ pending' = pending /\ program = "loader"
        /\ call.at \in Slot
    BY <1>1, <1>3 DEF Wipe, Phase, CallType
  <2>2. slots' \in [Slot -> Entry]
    <3>1. Empty \in Entry
      BY DEF Empty, Entry
    <3>. QED BY <1>1, <2>1, <3>1, WrittenType
  <2>3. \A s \in Slot : s <= call.at => slots'[s].key = NoKey
    <3>1. \A s \in Slot : s < call.at => slots[s].key = NoKey
      BY <1>1, <2>1 DEF Wiped
    <3>2. \A s \in Slot : s <= call.at => s = call.at \/ s < call.at
      BY <2>1, TableAssumption DEF Slot
    <3>. QED BY <2>1, <3>1, <3>2 DEF Written, Empty
  <2>4. CASE call.at < Slots - 1
    <3>1. /\ call' = [call EXCEPT !.at = @ + 1] /\ size' = size /\ todo' = todo
      BY <1>3, <2>4 DEF Wipe
    <3>2. call.at + 1 \in Slot
      BY <2>1, <2>4, TableAssumption DEF Slot
    <3>3. call' \in CallType /\ call'.pc = "wipe" /\ call'.at = call.at + 1
      BY <1>1, <2>1, <3>1, <3>2 DEF CallType
    <3>4. TypeOK'
      BY <1>1, <2>1, <2>2, <3>1, <3>3 DEF TypeOK, CallType
    <3>5. Calls' /\ Phase' /\ Counted'
      BY <2>1, <3>3 DEF Calls, Phase, Counted
    <3>6. \A s \in Slot : s < call.at + 1 => s <= call.at
      BY <2>1, TableAssumption DEF Slot
    <3>7. Wiped'
      BY <2>3, <3>3, <3>6 DEF Wiped
    <3>. QED BY <3>4, <3>5, <3>7 DEF SizeInv
  <2>5. CASE ~(call.at < Slots - 1)
    <3>1. size' = 0 /\ Perform(todo)
      BY <1>3, <2>5 DEF Wipe
    <3>2. /\ todo' \in Seq(Keys) /\ call' \in CallType
          /\ call'.pc \in {"idle", "find"} /\ (call'.pc = "find" => todo' # <<>>)
      BY <1>1, <3>1, PerformType DEF CallType
    <3>3. Occupied' = {}
      <4>1. \A s \in Slot : s <= call.at
        BY <2>1, <2>5, TableAssumption DEF Slot
      <4>. QED BY <2>3, <4>1 DEF Occupied
    <3>4. Cardinality(Occupied') = 0
      BY <3>3, FS_EmptySet
    <3>5. TypeOK'
      BY <1>1, <2>1, <2>2, <3>1, <3>2 DEF TypeOK, CallType
    <3>6. Calls' /\ Phase' /\ Wiped'
      BY <2>1, <3>2 DEF Calls, Phase, Wiped
    <3>7. Counted'
      BY <3>1, <3>2, <3>4 DEF Counted
    <3>. QED BY <3>5, <3>6, <3>7 DEF SizeInv
  <2>. QED BY <2>4, <2>5
<1>4. CASE Count
  <2>1. /\ size' = size + Cardinality(Occupied) /\ Perform(todo) /\ size = 0
        /\ program' = program /\ pending' = pending /\ slots' = slots
        /\ program \in {"loader", "kernel"}
    BY <1>1, <1>4 DEF Count, Phase
  <2>2. /\ todo' \in Seq(Keys) /\ call' \in CallType
        /\ call'.pc \in {"idle", "find"} /\ (call'.pc = "find" => todo' # <<>>)
    BY <1>1, <2>1, PerformType DEF CallType
  <2>3. Cardinality(Occupied) \in Nat /\ Occupied' = Occupied
    BY <2>1, SlotsFinite DEF Occupied
  <2>4. TypeOK'
    <3>1. size' \in Nat
      BY <2>1, <2>3
    <3>. QED BY <1>1, <2>1, <2>2, <3>1 DEF TypeOK, CallType
  <2>5. Calls' /\ Phase' /\ Wiped'
    BY <2>1, <2>2 DEF Calls, Phase, Wiped
  <2>6. Counted'
    BY <2>1, <2>2, <2>3 DEF Counted
  <2>. QED BY <2>4, <2>5, <2>6 DEF SizeInv
<1>. QED BY <1>2, <1>3, <1>4

(* registry_initialize_key *)
LEMMA InitializeKeyStep == SizeInv /\ InitializeKey => SizeInv'
<1> SUFFICES ASSUME SizeInv, InitializeKey PROVE SizeInv'
  OBVIOUS
<1>1. /\ slots \in [Slot -> Entry] /\ size \in Nat /\ todo \in Seq(Keys)
      /\ call \in CallType /\ call.at \in Slot
      /\ program \in {"off", "loader", "kernel", "run"}
      /\ pending \in [key : UpdateKeys \cup {NoKey}, at : Slot, value : Nat]
      /\ Calls /\ Phase /\ Wiped /\ Counted
  BY DEF SizeInv, TypeOK, CallType
<1>2. /\ call.pc \in {"find", "create", "write", "size"} /\ todo # <<>>
      /\ program # "off" /\ program' = program /\ pending' = pending
  BY <1>1 DEF InitializeKey, FindEmpty, FindMatch, FindOther, CreateProbe,
              CreateWrite, CreateSize, Calls, Phase
<1>3. Tail(todo) \in Seq(Keys) /\ Head(todo) \in Keys
  BY <1>1, <1>2, TailType
<1>4. ASSUME slots' \in [Slot -> Entry], size' \in Nat, todo' \in Seq(Keys),
             call' \in CallType,
             call'.pc \in {"idle", "find", "create", "write", "size"},
             call'.pc \in {"find", "create", "write", "size"} => todo' # <<>>,
             Counted'
      PROVE  SizeInv'
  <2>1. TypeOK'
    BY <1>1, <1>2, <1>4 DEF TypeOK, CallType
  <2>2. Calls' /\ Phase' /\ Wiped'
    BY <1>2, <1>4 DEF Calls, Phase, Wiped
  <2>. QED BY <1>4, <2>1, <2>2 DEF SizeInv
<1>5. ASSUME slots' = slots, size' = size, call.pc # "size", call'.pc # "size"
      PROVE  Counted'
  <2>1. Cardinality(Occupied) <= size /\ Occupied' = Occupied
    BY <1>1, <1>2, <1>5 DEF Counted, Occupied
  <2>. QED BY <1>1, <1>5, <2>1 DEF Counted
<1>6. CASE FindEmpty \/ FindMatch \/ FindOther
  <2>1. slots' = slots /\ size' = size /\ call.pc = "find"
    BY <1>6 DEF FindEmpty, FindMatch, FindOther
  <2>2. \/ NotFound \/ Perform(Tail(todo))
        \/ call' = [call EXCEPT !.at = NextSlot(@)] /\ todo' = todo
    BY <1>6 DEF FindEmpty, FindMatch, FindOther
  <2>3. /\ todo' \in Seq(Keys) /\ call' \in CallType
        /\ call'.pc \in {"idle", "find", "create"}
        /\ call'.pc \in {"find", "create"} => todo' # <<>>
    <3>1. CASE NotFound
      BY <1>2, <3>1, NotFoundType DEF SizeInv
    <3>2. CASE Perform(Tail(todo))
      BY <1>3, <3>2, PerformType DEF CallType
    <3>3. CASE call' = [call EXCEPT !.at = NextSlot(@)] /\ todo' = todo
      BY <1>1, <1>2, <2>1, <3>3, NextSlotType DEF CallType
    <3>. QED BY <2>2, <3>1, <3>2, <3>3
  <2>. QED BY <1>1, <1>4, <1>5, <2>1, <2>3
<1>7. CASE CreateProbe
  <2>1. /\ slots' = slots /\ size' = size /\ todo' = todo /\ call.pc = "create"
        /\ \/ call' = [call EXCEPT !.pc = "write"]
           \/ call' = [call EXCEPT !.at = NextSlot(@)]
    BY <1>7 DEF CreateProbe
  <2>2. call' \in CallType /\ call'.pc \in {"create", "write"}
    BY <1>1, <2>1, NextSlotType DEF CallType
  <2>. QED BY <1>1, <1>2, <1>4, <1>5, <2>1, <2>2
<1>8. CASE CreateWrite
  <2> DEFINE e == [key |-> Head(todo), value |-> Default[Head(todo)]]
  <2>1. /\ call.pc = "write" /\ slots' = Written(call.at, e)
        /\ call' = [call EXCEPT !.pc = "size"] /\ size' = size /\ todo' = todo
    BY <1>8 DEF CreateWrite
  <2>2. e \in Entry
    BY <1>3, TableAssumption DEF Entry
  <2> HIDE DEF e
  <2>3. slots' \in [Slot -> Entry] /\ Occupied' \subseteq Occupied \cup {call.at}
    BY <1>1, <2>1, <2>2, WrittenType, WrittenOccupies
  <2>4. call' \in CallType /\ call'.pc = "size"
    BY <1>1, <2>1 DEF CallType
  <2>5. Counted'
    <3>1. Cardinality(Occupied) <= size
      BY <1>1, <1>2, <2>1 DEF Counted
    <3>2. Cardinality(Occupied') <= Cardinality(Occupied) + 1
      BY <1>1, <2>3, OneMoreOccupied
    <3>3. Cardinality(Occupied) \in Nat /\ Cardinality(Occupied') \in Nat
      BY SlotsFinite DEF Occupied
    <3>. QED BY <1>1, <2>1, <2>4, <3>1, <3>2, <3>3 DEF Counted
  <2>. QED BY <1>1, <1>2, <1>4, <2>1, <2>3, <2>4, <2>5
<1>9. CASE CreateSize
  <2> DEFINE e == [slots[0] EXCEPT !.value = size + 1]
  <2>1. /\ call.pc = "size" /\ slots' = Written(0, e) /\ size' = size + 1
        /\ Perform(Tail(todo))
    BY <1>9 DEF CreateSize
  <2>2. e \in Entry /\ e.key = slots[0].key
    BY <1>1, SlotZero, ValueType
  <2> HIDE DEF e
  <2>3. slots' \in [Slot -> Entry] /\ Occupied' \subseteq Occupied
    BY <1>1, <2>1, <2>2, SlotZero, WrittenType, WrittenOccupies
  <2>4. /\ todo' \in Seq(Keys) /\ call' \in CallType
        /\ call'.pc \in {"idle", "find"} /\ (call'.pc = "find" => todo' # <<>>)
    BY <1>3, <2>1, PerformType DEF CallType
  <2>5. Counted'
    <3>1. Cardinality(Occupied) <= size + 1
      BY <1>1, <1>2, <2>1 DEF Counted
    <3>2. Cardinality(Occupied') <= Cardinality(Occupied)
      BY <2>3, FewerOccupied
    <3>3. Cardinality(Occupied) \in Nat /\ Cardinality(Occupied') \in Nat
      BY SlotsFinite DEF Occupied
    <3>. QED BY <1>1, <2>1, <2>4, <3>1, <3>2, <3>3 DEF Counted
  <2>6. size' \in Nat
    BY <1>1, <2>1
  <2>. QED BY <1>4, <2>3, <2>4, <2>5, <2>6
<1>. QED BY <1>6, <1>7, <1>8, <1>9 DEF InitializeKey

(* The steps that neither open the table nor initialise a key. *)
LEMMA OtherStep ==
  ASSUME SizeInv,
         \/ StartScheduler
         \/ \E k \in Keys, v \in Values :
              UpdateSet(k, v) \/ BackupFind(k, v) \/ UserSet(k, v)
         \/ BackupWrite
         \/ PowerOff
         \/ UNCHANGED vars
  PROVE  SizeInv'
<1>1. /\ slots \in [Slot -> Entry] /\ size \in Nat /\ todo \in Seq(Keys)
      /\ call \in CallType
      /\ program \in {"off", "loader", "kernel", "run"}
      /\ pending \in [key : UpdateKeys \cup {NoKey}, at : Slot, value : Nat]
      /\ Calls /\ Phase /\ Wiped /\ Counted
  BY DEF SizeInv, TypeOK, CallType
<1>2. CASE StartScheduler
  <2>1. /\ call.pc = "idle" /\ program = "kernel" /\ program' = "run"
        /\ Perform(TaskKeys)
        /\ slots' = slots /\ size' = size /\ pending' = pending
    BY <1>2 DEF StartScheduler
  <2>2. /\ todo' \in Seq(Keys) /\ call' \in CallType
        /\ call'.pc \in {"idle", "find"} /\ (call'.pc = "find" => todo' # <<>>)
    BY <2>1, ScriptAssumption, PerformType DEF CallType
  <2>3. TypeOK'
    BY <1>1, <2>1, <2>2 DEF TypeOK, CallType
  <2>4. Calls' /\ Phase' /\ Wiped'
    BY <2>1, <2>2 DEF Calls, Phase, Wiped
  <2>5. Counted'
    <3>1. Occupied' = Occupied
      BY <2>1 DEF Occupied
    <3>. QED BY <1>1, <2>1, <2>2, <3>1 DEF Counted
  <2>. QED BY <2>3, <2>4, <2>5 DEF SizeInv
<1>3. ASSUME slots' \in [Slot -> Entry], Occupied' \subseteq Occupied,
             size' = size, program' = program, todo' = todo, call' = call,
             pending' \in [key : UpdateKeys \cup {NoKey}, at : Slot, value : Nat],
             slots' = slots \/ call.pc \notin {"wipe", "count"}
      PROVE  SizeInv'
  <2>1. TypeOK'
    BY <1>1, <1>3 DEF TypeOK, CallType
  <2>2. Calls' /\ Phase'
    BY <1>1, <1>3 DEF Calls, Phase
  <2>3. Wiped'
    BY <1>1, <1>3 DEF Wiped
  <2>4. Counted'
    <3>1. Cardinality(Occupied') <= Cardinality(Occupied)
      BY <1>3, FewerOccupied
    <3>2. Cardinality(Occupied) \in Nat /\ Cardinality(Occupied') \in Nat
      BY SlotsFinite DEF Occupied
    <3>. QED BY <1>1, <1>3, <3>1, <3>2 DEF Counted
  <2>. QED BY <2>1, <2>2, <2>3, <2>4 DEF SizeInv
<1>4. ASSUME NEW k \in Keys, NEW v \in Values, UpdateSet(k, v) \/ UserSet(k, v)
      PROVE  SizeInv'
  <2>1. /\ SetValue(k, v) /\ size' = size /\ program' = program /\ todo' = todo
        /\ call' = call /\ pending' = pending
        /\ program = "run" \/ call.pc = "idle"
    BY <1>4 DEF UpdateSet, UserSet
  <2>2. v \in Nat
    BY TableAssumption
  <2>3. slots' \in [Slot -> Entry] /\ Occupied' \subseteq Occupied
    BY <1>1, <2>1, <2>2, SetType, SetOccupies
  <2>4. call.pc \notin {"wipe", "count"}
    BY <1>1, <2>1 DEF Phase
  <2>. QED BY <1>1, <1>3, <2>1, <2>3, <2>4
<1>5. ASSUME NEW k \in Keys, NEW v \in Values, BackupFind(k, v)
      PROVE  SizeInv'
  <2>1. PICK s \in Slot :
          /\ pending' = [key |-> k, at |-> s, value |-> v] /\ k \in UpdateKeys
          /\ slots' = slots /\ size' = size /\ program' = program
          /\ todo' = todo /\ call' = call
    BY <1>5 DEF BackupFind
  <2>2. v \in Nat
    BY TableAssumption
  <2>3. pending' \in [key : UpdateKeys \cup {NoKey}, at : Slot, value : Nat]
    BY <2>1, <2>2
  <2>4. Occupied' = Occupied
    BY <2>1 DEF Occupied
  <2>. QED BY <1>1, <1>3, <2>1, <2>3, <2>4
<1>6. CASE BackupWrite
  <2> DEFINE e == [slots[pending.at] EXCEPT !.value = pending.value]
  <2>1. /\ slots' = Written(pending.at, e) /\ pending' = NoSet
        /\ size' = size /\ program' = program /\ todo' = todo /\ call' = call
        /\ program = "run"
    BY <1>6 DEF BackupWrite
  <2>2. pending.at \in Slot /\ pending.value \in Nat
    BY <1>1
  <2>3. e \in Entry /\ e.key = slots[pending.at].key
    BY <1>1, <2>2, ValueType
  <2> HIDE DEF e
  <2>4. slots' \in [Slot -> Entry] /\ Occupied' \subseteq Occupied
    BY <1>1, <2>1, <2>2, <2>3, WrittenType, WrittenOccupies
  <2>5. pending' \in [key : UpdateKeys \cup {NoKey}, at : Slot, value : Nat]
    BY <2>1, SlotZero DEF NoSet
  <2>6. call.pc \notin {"wipe", "count"}
    BY <1>1, <2>1 DEF Phase
  <2>. QED BY <1>3, <2>1, <2>4, <2>5, <2>6
<1>7. CASE PowerOff
  <2>1. /\ program' = "off" /\ size' = 0 /\ todo' = <<>> /\ call' = Idle
        /\ pending' = NoSet /\ slots' = slots
    BY <1>7 DEF PowerOff
  <2>2. TypeOK'
    BY <1>1, <2>1, SlotZero DEF TypeOK, Idle, NoSet
  <2>. QED BY <2>1, <2>2 DEF SizeInv, Calls, Phase, Wiped, Counted, Idle
<1>8. CASE UNCHANGED vars
  <2>1. /\ slots' = slots /\ size' = size /\ program' = program /\ todo' = todo
        /\ call' = call /\ pending' = pending
    BY <1>8 DEF vars
  <2>2. Occupied' = Occupied
    BY <2>1 DEF Occupied
  <2>. QED BY <1>1, <1>3, <2>1, <2>2
<1>. QED BY <1>2, <1>4, <1>5, <1>6, <1>7, <1>8

THEOREM SizeInvariant == Spec => []SizeInv
<1>1. SizeInv /\ [Next]_vars => SizeInv'
  BY OpenStep, InitializeKeyStep, OtherStep DEF Next, Startup
<1>. QED BY SizeInit, <1>1, PTL DEF Spec

(* Every variable of the registry keeps its type, for every table, layout  *)
(* and order of initialisation.                                            *)
THEOREM TypeCorrect == Spec => []TypeOK
<1>1. SizeInv => TypeOK
  BY DEF SizeInv
<1>. QED BY SizeInvariant, <1>1, PTL

(* registry_size covers the entries in use whenever a key is looked for or *)
(* created, whatever was set, erased, interrupted or written by others in  *)
(* between (registry.c:110).                                               *)
THEOREM SizeAlwaysCovers == Spec => []SizeCovers
<1>1. SizeInv => SizeCovers
  BY DEF SizeInv, Counted, Phase, SizeCovers
<1>. QED BY SizeInvariant, <1>1, PTL

-----------------------------------------------------------------------------
(* Without collisions every key is at home. *)

AtHome == \A s \in Slot : slots[s].key # NoKey => s = Home[slots[s].key]

(* The call in progress is at the home of its key, which is free once the  *)
(* key was not found; so is the set that the backup task is about to make. *)
CallAtHome ==
  /\ call.pc \in {"find", "create", "write"} => call.at = Home[Head(todo)]
  /\ call.pc \in {"create", "write"} => slots[call.at].key = NoKey
  /\ pending # NoSet => pending.key \in UpdateKeys /\ pending.at = Home[pending.key]

HomeInv == SizeInv /\ AtHome /\ CallAtHome

LEMMA HomeInit == Init => HomeInv
BY SizeInit DEF Init, HomeInv, AtHome, CallAtHome, Empty, Idle, NoSet

(* The table after a write that puts an entry where it belongs. *)
LEMMA WrittenHome ==
  ASSUME NEW i \in Slot, NEW e, slots' = Written(i, e), AtHome,
         e.key # NoKey => i = Home[e.key]
  PROVE  AtHome'
BY DEF AtHome, Written, Empty

(* A write of the key a slot has leaves no new key anywhere. *)
LEMMA WrittenKeepsFree ==
  ASSUME NEW i \in Slot, NEW e, slots' = Written(i, e), e.key = slots[i].key
  PROVE  \A s \in Slot : slots[s].key = NoKey => slots'[s].key = NoKey
BY DEF Written, Empty

LEMMA SetHome ==
  ASSUME slots \in [Slot -> Entry], AtHome, NEW k \in Keys, NEW v \in Nat,
         SetValue(k, v)
  PROVE  /\ AtHome'
         /\ \A s \in Slot : slots[s].key = NoKey => slots'[s].key = NoKey
         /\ \/ slots' = slots
            \/ slots' = Written(Home[k], [slots[Home[k]] EXCEPT !.value = v])
<1>1. CASE ~Found(k) /\ slots' = slots
  BY <1>1 DEF AtHome
<1>2. ASSUME NEW s \in Slot, FoundAt(k, s),
             slots' = Written(s, [slots[s] EXCEPT !.value = v])
      PROVE  /\ AtHome'
             /\ \A u \in Slot : slots[u].key = NoKey => slots'[u].key = NoKey
             /\ slots' = Written(Home[k], [slots[Home[k]] EXCEPT !.value = v])
  <2> DEFINE e == [slots[s] EXCEPT !.value = v]
  <2>1. e.key = slots[s].key /\ slots' = Written(s, e)
    BY <1>2, ValueType
  <2>2. slots[s].key = k /\ k # NoKey
    BY <1>2, TableAssumption DEF FoundAt
  <2>3. s = Home[k]
    BY <2>2 DEF AtHome
  <2> HIDE DEF e
  <2>4. AtHome'
    BY <2>1, <2>2, <2>3, WrittenHome
  <2>5. \A u \in Slot : slots[u].key = NoKey => slots'[u].key = NoKey
    BY <2>1, WrittenKeepsFree
  <2>. QED BY <1>2, <2>3, <2>4, <2>5
<1>. QED BY <1>1, <1>2 DEF SetValue

LEMMA NotFoundHome ==
  ASSUME TypeOK, todo # <<>>, NotFound
  PROVE  /\ call'.pc \in {"idle", "find", "create"}
         /\ call'.pc \in {"find", "create"} => call'.at = Home[Head(todo')]
         /\ call'.pc = "create" => todo' = todo
<1>1. todo \in Seq(Keys)
  BY DEF TypeOK
<1>2. Tail(todo) \in Seq(Keys)
  BY <1>1, TailType
<1>3. CASE size < Slots
  <2>1. call' = [pc |-> "create", at |-> Home[Head(todo)]] /\ todo' = todo
    BY <1>3 DEF NotFound
  <2>. QED BY <2>1
<1>4. CASE ~(size < Slots)
  <2>1. Perform(Tail(todo))
    BY <1>4 DEF NotFound
  <2>. QED BY <1>2, <2>1, PerformType
<1>. QED BY <1>3, <1>4

LEMMA HomeStep ==
  ASSUME Injective, HomeInv, [Next]_vars
  PROVE  AtHome' /\ CallAtHome'
<1>1. /\ slots \in [Slot -> Entry] /\ size \in Nat /\ todo \in Seq(Keys)
      /\ call \in CallType /\ call.at \in Slot
      /\ pending \in [key : UpdateKeys \cup {NoKey}, at : Slot, value : Nat]
      /\ TypeOK /\ Calls /\ Phase /\ AtHome /\ CallAtHome
  BY DEF HomeInv, SizeInv, TypeOK, CallType
<1>2. ASSUME call.pc \in {"find", "create", "write", "size"}
      PROVE  todo # <<>> /\ Tail(todo) \in Seq(Keys) /\ Head(todo) \in Keys
  BY <1>1, <1>2, TailType DEF Calls
<1>3. ASSUME NEW b \in BOOLEAN, PowerUp(b)
      PROVE  AtHome' /\ CallAtHome'
  <2>1. slots' = slots /\ pending' = pending /\ call'.pc \in {"wipe", "count"}
    BY <1>3 DEF PowerUp
  <2>. QED BY <1>1, <2>1 DEF AtHome, CallAtHome
<1>4. CASE Wipe
  <2>1. slots' = Written(call.at, Empty) /\ pending' = pending
    BY <1>4 DEF Wipe
  <2>2. AtHome'
    BY <1>1, <2>1, WrittenHome DEF Empty
  <2>3. /\ call'.pc \in {"wipe", "idle", "find"}
        /\ call'.pc = "find" => call'.at = Home[Head(todo')]
    <3>1. CASE call.at < Slots - 1
      BY <1>1, <1>4, <3>1 DEF Wipe, CallType
    <3>2. CASE ~(call.at < Slots - 1)
      BY <1>1, <1>4, <3>2, PerformType DEF Wipe
    <3>. QED BY <3>1, <3>2
  <2>. QED BY <1>1, <2>1, <2>2, <2>3 DEF CallAtHome
<1>5. CASE Count
  <2>1. slots' = slots /\ pending' = pending /\ Perform(todo)
    BY <1>5 DEF Count
  <2>. QED BY <1>1, <2>1, PerformType DEF AtHome, CallAtHome
<1>6. CASE FindEmpty
  <2>1. /\ slots' = slots /\ pending' = pending /\ NotFound
        /\ call.pc = "find" /\ slots[call.at].key = NoKey
    BY <1>6 DEF FindEmpty
  <2>2. call.at = Home[Head(todo)]
    BY <1>1, <2>1 DEF CallAtHome
  <2>3. /\ call'.pc \in {"idle", "find", "create"}
        /\ call'.pc \in {"find", "create"} => call'.at = Home[Head(todo')]
        /\ call'.pc = "create" => todo' = todo
    BY <1>1, <1>2, <2>1, NotFoundHome
  <2>. QED BY <1>1, <2>1, <2>2, <2>3 DEF AtHome, CallAtHome
<1>7. CASE FindMatch
  <2>1. slots' = slots /\ pending' = pending /\ Perform(Tail(todo)) /\ call.pc = "find"
    BY <1>7 DEF FindMatch
  <2>. QED BY <1>1, <1>2, <2>1, PerformType DEF AtHome, CallAtHome
<1>8. CASE FindOther
  (* The slot holds a key with the same home. *)
  <2>1. /\ call.pc = "find" /\ slots[call.at].key \notin {NoKey, Head(todo)}
        /\ call.at = Home[Head(todo)]
    BY <1>1, <1>8 DEF FindOther, CallAtHome
  <2>2. slots[call.at].key \in Keys /\ call.at = Home[slots[call.at].key]
    BY <1>1, <2>1 DEF AtHome, Entry
  <2>. QED BY <1>2, <2>1, <2>2 DEF Injective
<1>9. CASE CreateProbe
  <2>1. /\ call.pc = "create" /\ slots[call.at].key = NoKey
        /\ call.at = Home[Head(todo)]
    BY <1>1, <1>9 DEF CreateProbe, CallAtHome
  <2>2. /\ call' = [call EXCEPT !.pc = "write"]
        /\ slots' = slots /\ todo' = todo /\ pending' = pending
    BY <1>9, <2>1 DEF CreateProbe
  <2>3. call'.at = call.at /\ call'.pc = "write"
    BY <1>1, <2>2 DEF CallType
  <2>. QED BY <1>1, <2>1, <2>2, <2>3 DEF AtHome, CallAtHome
<1>10. CASE CreateWrite
  <2> DEFINE e == [key |-> Head(todo), value |-> Default[Head(todo)]]
  <2>1. /\ call.pc = "write" /\ call.at = Home[Head(todo)]
        /\ slots' = Written(call.at, e) /\ e.key = Head(todo)
        /\ call' = [call EXCEPT !.pc = "size"] /\ pending' = pending
    BY <1>1, <1>10 DEF CreateWrite, CallAtHome
  <2> HIDE DEF e
  <2>2. AtHome'
    BY <1>1, <2>1, WrittenHome
  <2>3. call'.pc = "size"
    BY <1>1, <2>1 DEF CallType
  <2>. QED BY <1>1, <2>1, <2>2, <2>3 DEF CallAtHome
<1>11. CASE CreateSize
  <2> DEFINE e == [slots[0] EXCEPT !.value = size + 1]
  <2>1. /\ call.pc = "size" /\ slots' = Written(0, e) /\ pending' = pending
        /\ Perform(Tail(todo))
    BY <1>11 DEF CreateSize
  <2>2. e.key = slots[0].key
    BY <1>1, SlotZero, ValueType
  <2> HIDE DEF e
  <2>3. AtHome'
    BY <1>1, <2>1, <2>2, SlotZero, WrittenHome DEF AtHome
  <2>. QED BY <1>1, <1>2, <2>1, <2>3, PerformType DEF CallAtHome
<1>12. CASE StartKernel
  <2>1. slots' = slots /\ pending' = pending /\ call'.pc = "count"
    BY <1>12 DEF StartKernel
  <2>. QED BY <1>1, <2>1 DEF AtHome, CallAtHome
<1>13. CASE StartScheduler
  <2>1. slots' = slots /\ pending' = pending /\ Perform(TaskKeys)
    BY <1>13 DEF StartScheduler
  <2>. QED BY <1>1, <2>1, ScriptAssumption, PerformType DEF AtHome, CallAtHome
<1>14. ASSUME NEW k \in Keys, NEW v \in Values, UpdateSet(k, v) \/ UserSet(k, v)
       PROVE  AtHome' /\ CallAtHome'
  <2>1. SetValue(k, v) /\ todo' = todo /\ call' = call /\ pending' = pending
    BY <1>14 DEF UpdateSet, UserSet
  <2>2. v \in Nat
    BY TableAssumption
  <2>3. AtHome' /\ \A s \in Slot : slots[s].key = NoKey => slots'[s].key = NoKey
    BY <1>1, <2>1, <2>2, SetHome
  <2>. QED BY <1>1, <2>1, <2>3 DEF CallAtHome
<1>15. ASSUME NEW k \in Keys, NEW v \in Values, BackupFind(k, v)
       PROVE  AtHome' /\ CallAtHome'
  <2>1. PICK s \in Slot :
          /\ FoundAt(k, s) /\ pending' = [key |-> k, at |-> s, value |-> v]
          /\ slots' = slots /\ todo' = todo /\ call' = call /\ k \in UpdateKeys
    BY <1>15 DEF BackupFind
  <2>2. s = Home[k]
    BY <1>1, <2>1, TableAssumption DEF FoundAt, AtHome
  <2>. QED BY <1>1, <2>1, <2>2 DEF AtHome, CallAtHome
<1>16. CASE BackupWrite
  <2> DEFINE e == [slots[pending.at] EXCEPT !.value = pending.value]
  <2>1. /\ slots' = Written(pending.at, e) /\ pending' = NoSet
        /\ todo' = todo /\ call' = call
    BY <1>16 DEF BackupWrite
  <2>2. pending.at \in Slot /\ pending.value \in Nat
    BY <1>1
  <2>3. e.key = slots[pending.at].key
    BY <1>1, <2>2, ValueType
  <2> HIDE DEF e
  <2>4. AtHome'
    BY <1>1, <2>1, <2>2, <2>3, WrittenHome DEF AtHome
  <2>5. \A s \in Slot : slots[s].key = NoKey => slots'[s].key = NoKey
    BY <2>1, <2>2, <2>3, WrittenKeepsFree
  <2>. QED BY <1>1, <2>1, <2>4, <2>5 DEF CallAtHome, NoSet
<1>17. CASE PowerOff
  BY <1>1, <1>17 DEF PowerOff, AtHome, CallAtHome, Idle, NoSet
<1>18. CASE UNCHANGED vars
  BY <1>1, <1>18 DEF vars, AtHome, CallAtHome
<1>. QED
  BY <1>3, <1>4, <1>5, <1>6, <1>7, <1>8, <1>9, <1>10, <1>11, <1>12, <1>13,
     <1>14, <1>15, <1>16, <1>17, <1>18 DEF Next, Startup, InitializeKey

LEMMA HomeInvariant == ASSUME Injective PROVE Spec => []HomeInv
<1>1. HomeInv /\ [Next]_vars => HomeInv'
  <2> SUFFICES ASSUME HomeInv, [Next]_vars PROVE HomeInv'
    OBVIOUS
  <2>1. SizeInv'
    BY OpenStep, InitializeKeyStep, OtherStep DEF HomeInv, Next, Startup
  <2>. QED BY <2>1, HomeStep DEF HomeInv
<1>. QED BY HomeInit, <1>1, PTL DEF Spec

(* With no two keys of the same home, no erasure, interruption or          *)
(* interleaving leaves a stored key that registry_find_key does not find,  *)
(* or finds elsewhere.                                                     *)
THEOREM KeysStayFound == ASSUME Injective PROVE Spec => []KeysFound
<1>1. HomeInv => KeysFound
  <2> SUFFICES ASSUME HomeInv, NEW s \in Slot, slots[s].key # NoKey
               PROVE  FoundAt(slots[s].key, s)
    BY DEF KeysFound
  <2>1. s = Home[slots[s].key]
    BY DEF HomeInv, AtHome
  <2>2. (s - s) % Slots = 0
    BY TableAssumption DEF Slot
  <2>. QED BY <2>1, <2>2 DEF FoundAt
<1>. QED BY HomeInvariant, <1>1, PTL

(* A write does not reach another sector. *)
LEMMA WrittenElsewhere ==
  ASSUME NEW i \in Slot, NEW e, slots' = Written(i, e),
         NEW s \in Slot, SectorOf(s) # SectorOf(i)
  PROVE  slots'[s] = slots[s]
BY DEF Written

LEMMA UpdateKeysStep ==
  ASSUME Injective, Isolated, HomeInv, [Next]_vars,
         NEW s \in Slot, slots[s].key \in UpdateKeys, slots'[s] # slots[s]
  PROVE  \/ call.pc = "wipe"
         \/ \E v \in Values : UpdateSet(slots[s].key, v)
         \/ BackupWrite /\ pending.key = slots[s].key
<1>1. /\ slots \in [Slot -> Entry] /\ size \in Nat /\ todo \in Seq(Keys)
      /\ call.at \in Slot
      /\ pending \in [key : UpdateKeys \cup {NoKey}, at : Slot, value : Nat]
      /\ Calls /\ AtHome /\ CallAtHome
  BY DEF HomeInv, SizeInv, TypeOK
<1> DEFINE u == slots[s].key
<1>2. u \in UpdateKeys /\ u \in Keys /\ u # NoKey /\ s = Home[u]
  BY <1>1, TableAssumption DEF AtHome
<1> HIDE DEF u
<1>3. ASSUME NEW k \in Keys, NEW e, slots' = Written(Home[k], e)
      PROVE  k = u
  <2>1. SUFFICES ASSUME k # u PROVE FALSE
    OBVIOUS
  <2>2. SectorOf(s) # SectorOf(Home[k]) /\ Home[k] \in Slot
    BY <1>2, <2>1, HomeSlot DEF Isolated
  <2>. QED BY <1>3, <2>2, WrittenElsewhere
<1>4. \/ Wipe \/ CreateWrite \/ CreateSize \/ BackupWrite
      \/ \E k \in Keys, v \in Values : UpdateSet(k, v) \/ UserSet(k, v)
  BY DEF Next, Startup, InitializeKey, PowerUp, Count, FindEmpty, FindMatch,
         FindOther, CreateProbe, StartKernel, StartScheduler, BackupFind,
         PowerOff, vars
<1>5. CASE Wipe
  BY <1>5 DEF Wipe
<1>6. CASE CreateWrite
  (* It writes to the free home of the key it creates. *)
  <2> DEFINE e == [key |-> Head(todo), value |-> Default[Head(todo)]]
  <2>1. /\ call.at = Home[Head(todo)] /\ slots[call.at].key = NoKey
        /\ slots' = Written(call.at, e) /\ todo # <<>>
    BY <1>1, <1>6 DEF CreateWrite, CallAtHome, Calls
  <2>2. Head(todo) \in Keys
    BY <1>1, <2>1, TailType
  <2> HIDE DEF e
  <2>3. Head(todo) = u
    BY <1>3, <2>1, <2>2
  <2>. QED BY <1>2, <2>1, <2>3 DEF u
<1>7. CASE CreateSize
  <2>1. slots' = Written(0, [slots[0] EXCEPT !.value = size + 1])
    BY <1>7 DEF CreateSize
  <2>2. SectorOf(s) # SectorOf(0)
    BY <1>2 DEF Isolated
  <2>. QED BY <2>1, <2>2, SlotZero, WrittenElsewhere
<1>8. CASE BackupWrite
  <2>1. /\ pending # NoSet
        /\ slots' = Written(pending.at, [slots[pending.at] EXCEPT !.value = pending.value])
    BY <1>8 DEF BackupWrite
  <2>2. pending.key \in Keys /\ pending.at = Home[pending.key]
    BY <1>1, <2>1, TableAssumption DEF CallAtHome
  <2>3. pending.key = u
    BY <1>3, <2>1, <2>2
  <2>. QED BY <1>8, <2>3 DEF u
<1>9. ASSUME NEW k \in Keys, NEW v \in Values, UpdateSet(k, v) \/ UserSet(k, v)
      PROVE  \E w \in Values : UpdateSet(slots[s].key, w)
  <2>1. SetValue(k, v)
    BY <1>9 DEF UpdateSet, UserSet
  <2>2. v \in Nat
    BY TableAssumption
  <2>3. slots' = Written(Home[k], [slots[Home[k]] EXCEPT !.value = v])
    BY <1>1, <2>1, <2>2, SetHome
  <2>4. k = u
    BY <1>3, <2>3
  <2>5. UpdateSet(k, v)
    BY <1>2, <1>9, <2>4 DEF UserSet
  <2>. QED BY <2>4, <2>5 DEF u
<1>. QED BY <1>4, <1>5, <1>6, <1>7, <1>8, <1>9

(* A key of the update that is alone in its sector is changed only by      *)
(* setting it: no other key, whatever the user sets or an application      *)
(* initialises, and not the size, reaches its entry.                       *)
THEOREM UpdateKeysUndisturbed ==
  ASSUME Injective, Isolated PROVE Spec => UpdateKeysKept
<1> DEFINE Kept ==
      \A s \in Slot :
        slots[s].key \in UpdateKeys /\ slots'[s] # slots[s] =>
          \/ call.pc = "wipe"
          \/ \E v \in Values : UpdateSet(slots[s].key, v)
          \/ BackupWrite /\ pending.key = slots[s].key
<1>1. HomeInv /\ [Next]_vars => Kept
  BY UpdateKeysStep
<1>2. HomeInv /\ [Next]_vars => [Kept]_vars
  BY <1>1
<1>. QED BY HomeInvariant, <1>2, PTL DEF Spec, UpdateKeysKept

-----------------------------------------------------------------------------
(* The keys of a start. *)

Homes == {Home[k] : k \in Keys}

(* A script whose later writes spare its earlier keys: no key of it in the *)
(* sector of the size, those of a sector in the order of their slots, and  *)
(* room for all of them (each may be counted twice by registry_size).      *)
Orderly(script) ==
  /\ \A i \in DOMAIN script : SectorOf(Home[script[i]]) # SectorOf(0)
  /\ \A i, j \in DOMAIN script :
       i < j /\ SectorOf(Home[script[i]]) = SectorOf(Home[script[j]]) =>
         Home[script[i]] <= Home[script[j]]
  /\ Cardinality(Homes) + Len(script) <= Slots

Scripted ==
  /\ Orderly(LoaderKeys) /\ Orderly(KernelKeys)
  /\ \A u \in UpdateKeys : \E i \in DOMAIN LoaderKeys : LoaderKeys[i] = u

Stored(k) == slots[Home[k]].key = k
Script == IF program = "loader" THEN LoaderKeys ELSE KernelKeys

(* n keys of script s are done and t is what is left. *)
Rest(t, s, n) ==
  /\ n \in 0 .. Len(s)
  /\ Len(t) = Len(s) - n
  /\ \A i \in 1 .. Len(t) : t[i] = s[n + i]

Done(n) ==
  /\ \A i \in 1 .. n : Stored(Script[i])
  /\ size <= Cardinality(Homes) + n
  /\ call.pc = "idle" => n = Len(Script)
  /\ call.pc = "size" => Stored(Head(todo))

Progress ==
  program \in {"loader", "kernel"} =>
    IF call.pc \in {"wipe", "count"} THEN Rest(todo, Script, 0)
    ELSE \E n \in Nat : Rest(todo, Script, n) /\ Done(n)

UpdateStored ==
  program \in {"kernel", "run"} => \A u \in UpdateKeys : Stored(u)

KeysInv == HomeInv /\ Progress /\ UpdateStored

LEMMA RestSeq ==
  ASSUME NEW s \in Seq(Keys), NEW t \in Seq(Keys), NEW n \in Nat, Rest(t, s, n)
  PROVE  /\ t = <<>> <=> n = Len(s)
         /\ t # <<>> => /\ n + 1 \in 1 .. Len(s) /\ n + 1 \in DOMAIN s
                        /\ Head(t) = s[n + 1] /\ Rest(Tail(t), s, n + 1)
<1>1. n \in 0 .. Len(s) /\ Len(t) = Len(s) - n /\ Len(s) \in Nat
      /\ \A i \in 1 .. Len(t) : t[i] = s[n + i]
  BY DEF Rest
<1>2. t = <<>> <=> Len(t) = 0
  OBVIOUS
<1>3. ASSUME t # <<>>
      PROVE  /\ n + 1 \in 1 .. Len(s) /\ n + 1 \in DOMAIN s
             /\ Head(t) = s[n + 1] /\ Rest(Tail(t), s, n + 1)
  <2>1. n + 1 \in 1 .. Len(s) /\ 1 \in 1 .. Len(t) /\ Len(t) \in Nat
    BY <1>1, <1>2, <1>3
  <2>2. Head(t) = t[1]
    BY <1>3
  <2>3. Tail(t) \in Seq(Keys) /\ Len(Tail(t)) = Len(t) - 1
        /\ \A i \in 1 .. Len(t) - 1 : Tail(t)[i] = t[i + 1]
    BY <1>3
  <2>4. \A i \in 1 .. Len(Tail(t)) : Tail(t)[i] = s[n + 1 + i]
    <3> TAKE i \in 1 .. Len(Tail(t))
    <3>1. i \in 1 .. Len(t) - 1 /\ i + 1 \in 1 .. Len(t)
      BY <2>1, <2>3
    <3>2. Tail(t)[i] = t[i + 1] /\ t[i + 1] = s[n + (i + 1)]
      BY <1>1, <2>3, <3>1
    <3>3. n + (i + 1) = n + 1 + i
      BY <3>1
    <3> QED
      BY <3>2, <3>3
  <2>5. DOMAIN s = 1 .. Len(s)
    OBVIOUS
  <2> QED
    BY <1>1, <2>1, <2>2, <2>3, <2>4, <2>5 DEF Rest
<1> QED
  BY <1>1, <1>2, <1>3

LEMMA RestWhole == ASSUME NEW s \in Seq(Keys) PROVE Rest(s, s, 0)
BY DEF Rest

LEMMA ScriptSeq == Script \in Seq(Keys)
BY ScriptAssumption DEF Script

LEMMA HomesCover ==
  ASSUME slots \in [Slot -> Entry], AtHome
  PROVE  /\ Cardinality(Homes) \in Nat
         /\ Cardinality(Occupied) \in Nat
         /\ Cardinality(Occupied) <= Cardinality(Homes)
<1>1. Homes \subseteq Slot /\ Occupied \subseteq Slot
  BY HomeSlot DEF Homes, Occupied
<1>2. Occupied \subseteq Homes
  BY DEF Occupied, Homes, AtHome, Entry
<1> QED
  BY <1>1, <1>2, SlotsFinite, FS_Subset

(* A stored key is found where it is. *)
LEMMA StoredFound ==
  ASSUME NEW k \in Keys, Stored(k)
  PROVE  Found(k)
<1>1. Home[k] \in Slot
  BY HomeSlot
<1>2. (Home[k] - Home[k]) % Slots = 0
  BY <1>1, TableAssumption DEF Slot
<1>3. FoundAt(k, Home[k])
  BY <1>2 DEF FoundAt, Stored
<1> QED
  BY <1>1, <1>3 DEF Found

(* What a call leaves that performs the rest of a script. *)
LEMMA PerformDone ==
  ASSUME NEW s \in Seq(Keys), NEW t \in Seq(Keys), NEW n \in Nat,
         Rest(t, s, n), Perform(t)
  PROVE  /\ todo' = t /\ call'.pc \in {"idle", "find"}
         /\ call'.pc = "idle" => n = Len(s)
<1>1. todo' = t
  BY DEF Perform
<1>2. call'.pc = "idle" => t = <<>>
  BY DEF Perform, Idle
<1> QED
  BY <1>1, <1>2, PerformType, RestSeq

(* An entry stays when something is written before it in another sector,   *)
(* or after it, or when its own key is written to it.                      *)
LEMMA WrittenStored ==
  ASSUME NEW i \in Slot, NEW e, slots' = Written(i, e), NEW k \in Keys, Stored(k),
         \/ SectorOf(Home[k]) # SectorOf(i)
         \/ Home[k] <= i /\ (Home[k] = i => e.key = k)
  PROVE  Stored(k)'
<1>1. Home[k] \in Slot
  BY HomeSlot
<1>2. CASE SectorOf(Home[k]) # SectorOf(i)
  BY <1>1, <1>2, WrittenElsewhere DEF Stored
<1>3. CASE Home[k] <= i /\ (Home[k] = i => e.key = k)
  <2>1. ~(i < Home[k])
    BY <1>1, <1>3, TableAssumption DEF Slot
  <2>2. slots'[Home[k]] = IF Home[k] = i THEN e ELSE slots[Home[k]]
    BY <1>1, <2>1 DEF Written
  <2> QED
    BY <1>3, <2>2 DEF Stored
<1> QED
  BY <1>2, <1>3

-----------------------------------------------------------------------------
(* The steps. *)

LEMMA KeysInit == Init => KeysInv
BY HomeInit DEF Init, KeysInv, Progress, UpdateStored

(* A program opens the table. *)
LEMMA OpenProgress ==
  ASSUME KeysInv, Scripted,
         (\E b \in BOOLEAN : PowerUp(b)) \/ Wipe \/ Count \/ StartKernel
  PROVE  Progress'
<1>1. /\ slots \in [Slot -> Entry] /\ todo \in Seq(Keys) /\ call \in CallType
      /\ program \in {"off", "loader", "kernel", "run"}
      /\ AtHome /\ Phase /\ Progress /\ size \in Nat
  BY DEF KeysInv, HomeInv, SizeInv, TypeOK, CallType
<1>2. CASE (\E b \in BOOLEAN : PowerUp(b)) \/ StartKernel
  <2>1. /\ call'.pc \in {"wipe", "count"}
        /\ program' \in {"loader", "kernel"} /\ todo' = Script'
    BY <1>2 DEF PowerUp, StartKernel, Script
  <2>2. Rest(Script', Script', 0)
    BY ScriptAssumption, RestWhole DEF Script
  <2> QED
    BY <2>1, <2>2 DEF Progress
<1>3. CASE Wipe \/ Count
  <2>1. /\ program \in {"loader", "kernel"} /\ program' = program
        /\ Rest(todo, Script, 0) /\ Script' = Script
    BY <1>1, <1>3 DEF Wipe, Count, Phase, Progress, Script
  <2>2. CASE call'.pc \in {"wipe", "count"} /\ todo' = todo
    BY <2>1, <2>2 DEF Progress
  <2>3. CASE Perform(todo) /\ size' <= Cardinality(Homes)
    <3>1. /\ todo' = todo /\ call'.pc \in {"idle", "find"}
          /\ call'.pc = "idle" => 0 = Len(Script)
      BY <1>1, <2>1, <2>3, ScriptSeq, PerformDone
    <3>2. Cardinality(Homes) \in Nat
      BY <1>1, HomesCover
    <3>3. size' <= Cardinality(Homes) + 0
      BY <2>3, <3>2
    <3>4. Done(0)'
      BY <2>1, <3>1, <3>3 DEF Done, Homes
    <3>5. Rest(todo', Script', 0)
      BY <2>1, <3>1
    <3> QED
      BY <3>1, <3>4, <3>5 DEF Progress
  <2>4. ASSUME Wipe
        PROVE  \/ call'.pc \in {"wipe", "count"} /\ todo' = todo
               \/ Perform(todo) /\ size' <= Cardinality(Homes)
    <3>1. CASE call.at < Slots - 1
      BY <1>1, <2>4, <3>1 DEF Wipe, CallType
    <3>2. CASE ~(call.at < Slots - 1)
      <4>1. size' = 0 /\ Perform(todo)
        BY <2>4, <3>2 DEF Wipe
      <4> QED
        BY <1>1, <4>1, HomesCover
    <3> QED
      BY <3>1, <3>2
  <2>5. ASSUME Count
        PROVE  Perform(todo) /\ size' <= Cardinality(Homes)
    <3>1. /\ size = 0 /\ size' = size + Cardinality(Occupied) /\ Perform(todo)
      BY <1>1, <2>5 DEF Count, Phase
    <3> QED
      BY <1>1, <3>1, HomesCover
  <2> QED
    BY <1>3, <2>2, <2>3, <2>4, <2>5
<1> QED
  BY <1>2, <1>3

(* The next key of the script is initialised: it is not refused, because   *)
(* there is room, and its writes reach no key that came before it.         *)
LEMMA InitializeProgress ==
  ASSUME Injective, KeysInv, Scripted, InitializeKey
  PROVE  Progress'
<1>1. /\ slots \in [Slot -> Entry] /\ todo \in Seq(Keys) /\ call \in CallType
      /\ call.at \in Slot
      /\ AtHome /\ CallAtHome /\ Calls /\ Progress /\ size \in Nat
  BY DEF KeysInv, HomeInv, SizeInv, TypeOK, CallType
<1>2. /\ call.pc \in {"find", "create", "write", "size"} /\ todo # <<>>
      /\ program' = program /\ Script' = Script
  BY <1>1 DEF InitializeKey, FindEmpty, FindMatch, FindOther, CreateProbe,
              CreateWrite, CreateSize, Calls, Script
<1>3. SUFFICES ASSUME program \in {"loader", "kernel"} PROVE Progress'
  BY <1>2 DEF Progress
<1>3a. PICK s : s = Script
  OBVIOUS
<1>3b. PICK k : k = Head(todo)
  OBVIOUS
<1>4. PICK n : n \in Nat /\ Rest(todo, s, n) /\ Done(n)
  BY <1>1, <1>2, <1>3, <1>3a DEF Progress
<1>5. s \in Seq(Keys) /\ k \in Keys /\ Tail(todo) \in Seq(Keys)
  BY <1>1, <1>2, <1>3a, <1>3b, ScriptSeq
<1>6. /\ n + 1 \in 1 .. Len(s) /\ n + 1 \in DOMAIN s /\ k = s[n + 1]
      /\ Rest(Tail(todo), s, n + 1) /\ n < Len(s)
  <2>1. Len(s) \in Nat
    BY <1>5
  <2> QED
    BY <1>1, <1>2, <1>4, <1>5, <1>3b, <2>1, RestSeq
<1>7. Orderly(s)
  BY <1>3a DEF Scripted, Script
<1>8. /\ \A i \in 1 .. n : Stored(s[i])
      /\ size <= Cardinality(Homes) + n /\ Cardinality(Homes) \in Nat
  BY <1>1, <1>4, <1>3a, HomesCover DEF Done
<1>9. \A i \in 1 .. n : i \in DOMAIN s /\ s[i] \in Keys /\ i < n + 1
  BY <1>4, <1>5, <1>6
<1>10. size < Slots
  BY <1>1, <1>4, <1>5, <1>6, <1>7, <1>8, TableAssumption DEF Orderly
(* The key stays, or is done. *)
<1>11. ASSUME todo' = todo, call'.pc \in {"find", "create", "write", "size"},
              \A i \in 1 .. n : Stored(s[i])', size' = size,
              call'.pc = "size" => Stored(k)'
       PROVE  Progress'
  <2>1. Rest(todo', Script', n)
    BY <1>2, <1>4, <1>11, <1>3a
  <2>2. Done(n)'
    BY <1>2, <1>8, <1>11, <1>3a, <1>3b DEF Done, Homes
  <2> QED
    BY <1>4, <1>11, <2>1, <2>2 DEF Progress
<1>12. ASSUME Perform(Tail(todo)), \A i \in 1 .. n : Stored(s[i])', Stored(k)',
              size' \in {size, size + 1}
       PROVE  Progress'
  <2>1. /\ todo' = Tail(todo) /\ call'.pc \in {"idle", "find"}
        /\ call'.pc = "idle" => n + 1 = Len(s)
    <3>1. n + 1 \in Nat
      BY <1>4
    <3> QED
      BY <1>5, <1>6, <1>12, <3>1, PerformDone
  <2>2. \A i \in 1 .. n + 1 : Stored(s[i])'
    <3>1. \A i \in 1 .. n + 1 : i \in 1 .. n \/ i = n + 1
      BY <1>4
    <3> QED
      BY <1>6, <1>12, <3>1
  <2>3. size' <= Cardinality(Homes) + (n + 1)
    BY <1>1, <1>4, <1>8, <1>12
  <2>4. Done(n + 1)'
    BY <1>2, <1>3a, <2>1, <2>2, <2>3 DEF Done, Homes
  <2>5. Rest(todo', Script', n + 1)
    BY <1>2, <1>6, <1>3a, <2>1
  <2>6. n + 1 \in Nat
    BY <1>4
  <2> QED
    BY <2>1, <2>4, <2>5, <2>6 DEF Progress
<1>13. ASSUME slots' = slots
       PROVE  \A j \in Keys : Stored(j) => Stored(j)'
  BY <1>13 DEF Stored
<1>14. CASE FindEmpty \/ FindOther
  <2>1. /\ slots' = slots /\ size' = size /\ call.pc = "find"
        /\ (NotFound \/ (call' = [call EXCEPT !.at = NextSlot(@)] /\ todo' = todo))
    BY <1>14 DEF FindEmpty, FindOther
  <2>2. CASE NotFound
    <3>1. call' = [pc |-> "create", at |-> Home[Head(todo)]] /\ todo' = todo
      BY <1>10, <2>2 DEF NotFound
    <3>2. call'.pc = "create"
      BY <3>1
    <3> QED
      BY <1>8, <1>9, <1>11, <1>13, <2>1, <3>1, <3>2
  <2>3. CASE call' = [call EXCEPT !.at = NextSlot(@)] /\ todo' = todo
    <3>1. call'.pc = "find"
      BY <1>1, <2>1, <2>3 DEF CallType
    <3> QED
      BY <1>8, <1>9, <1>11, <1>13, <2>1, <2>3, <3>1
  <2> QED
    BY <2>1, <2>2, <2>3
<1>15. CASE FindMatch
  <2>1. /\ slots' = slots /\ size' = size /\ call.pc = "find"
        /\ Perform(Tail(todo)) /\ slots[call.at].key = k
    BY <1>15, <1>3b DEF FindMatch
  <2>2. Stored(k)
    BY <1>1, <1>3b, <2>1 DEF CallAtHome, Stored
  <2> QED
    BY <1>5, <1>8, <1>9, <1>12, <1>13, <2>1, <2>2
<1>16. CASE CreateProbe
  <2>1. /\ slots' = slots /\ size' = size /\ todo' = todo
        /\ slots[call.at].key = NoKey /\ call.pc = "create"
    BY <1>1, <1>16 DEF CreateProbe, CallAtHome
  <2>2. call'.pc = "write"
    BY <1>1, <1>16, <2>1 DEF CreateProbe, CallType
  <2> QED
    BY <1>8, <1>9, <1>11, <1>13, <2>1, <2>2
<1>17. CASE CreateWrite
  <2> DEFINE e == [key |-> k, value |-> Default[k]]
  <2>1. /\ call.pc = "write" /\ call.at = Home[k]
        /\ slots[call.at].key = NoKey
        /\ slots' = Written(call.at, e) /\ size' = size /\ todo' = todo
        /\ call' = [call EXCEPT !.pc = "size"] /\ e.key = k
    BY <1>1, <1>17, <1>3b DEF CreateWrite, CallAtHome
  <2> HIDE DEF e
  <2>2. call'.pc = "size"
    BY <1>1, <2>1 DEF CallType
  <2>3. Stored(k)'
    BY <1>1, <2>1 DEF Stored, Written
  <2>4. \A i \in 1 .. n : Stored(s[i])'
    <3> TAKE i \in 1 .. n
    <3>1. Stored(s[i]) /\ s[i] \in Keys /\ s[i] # NoKey /\ i \in DOMAIN s /\ i < n + 1
      BY <1>8, <1>9, TableAssumption
    <3>2. Home[s[i]] # call.at
      BY <2>1, <3>1 DEF Stored
    <3>3. \/ SectorOf(Home[s[i]]) # SectorOf(call.at)
          \/ Home[s[i]] <= call.at
      BY <1>6, <1>7, <2>1, <3>1 DEF Orderly
    <3> QED
      BY <1>1, <2>1, <3>1, <3>2, <3>3, WrittenStored
  <2> QED
    BY <1>11, <2>1, <2>2, <2>3, <2>4
<1>18. CASE CreateSize
  <2>1. /\ slots' = Written(0, [slots[0] EXCEPT !.value = size + 1])
        /\ call.pc = "size" /\ size' = size + 1 /\ Perform(Tail(todo))
    BY <1>18 DEF CreateSize
  <2>2. ASSUME NEW i \in DOMAIN s, s[i] \in Keys, Stored(s[i])
        PROVE  Stored(s[i])'
    <3>1. SectorOf(Home[s[i]]) # SectorOf(0)
      BY <1>7, <2>2 DEF Orderly
    <3> QED
      BY <2>1, <2>2, <3>1, SlotZero, WrittenStored
  <2>3. Stored(k)
    BY <1>4, <1>3b, <2>1 DEF Done
  <2> QED
    BY <1>5, <1>6, <1>8, <1>9, <1>12, <2>1, <2>2, <2>3
<1> QED
  BY <1>14, <1>15, <1>16, <1>17, <1>18 DEF InitializeKey

(* A set between the starts of two programs spares the other keys, as the  *)
(* key that is set is alone in its sector.                                 *)
LEMMA OtherProgress ==
  ASSUME Injective, Isolated, KeysInv, Scripted,
         [\/ StartScheduler \/ BackupWrite \/ PowerOff
          \/ \E k \in Keys, v \in Values :
               UpdateSet(k, v) \/ BackupFind(k, v) \/ UserSet(k, v)]_vars
  PROVE  Progress'
<1>1. /\ slots \in [Slot -> Entry] /\ AtHome /\ Progress
  BY DEF KeysInv, HomeInv, SizeInv, TypeOK
<1>2. CASE program' \in {"off", "run"}
  BY <1>2 DEF Progress
<1>3. CASE UNCHANGED vars
  BY <1>1, <1>3 DEF vars, Progress, Done, Script, Stored, Homes
<1>4. ASSUME NEW u \in Keys, NEW v \in Values, UpdateSet(u, v),
             program = "loader"
      PROVE  Progress'
  <2>1. /\ SetValue(u, v) /\ u \in UpdateKeys /\ v \in Nat
        /\ UNCHANGED <<size, program, todo, call>> /\ call.pc = "idle"
    BY <1>4, TableAssumption DEF UpdateSet
  <2>2. ASSUME NEW k \in Keys, Stored(k)
        PROVE  Stored(k)'
    <3>1. CASE slots' = slots
      BY <2>2, <3>1 DEF Stored
    <3>2. CASE slots' = Written(Home[u], [slots[Home[u]] EXCEPT !.value = v])
      <4> DEFINE e == [slots[Home[u]] EXCEPT !.value = v]
      <4>1. Home[u] \in Slot
        BY HomeSlot
      <4>2. e.key = slots[Home[u]].key /\ slots' = Written(Home[u], e)
        BY <1>1, <2>1, <3>2, <4>1, ValueType
      <4> HIDE DEF e
      <4>3. CASE k = u
        <5>1. Home[k] <= Home[u] /\ e.key = k
          BY <2>2, <4>1, <4>2, <4>3, TableAssumption DEF Stored, Slot
        <5> QED
          BY <2>2, <4>1, <4>2, <5>1, WrittenStored
      <4>4. CASE k # u
        <5>1. SectorOf(Home[k]) # SectorOf(Home[u])
          BY <2>1, <2>2, <4>4 DEF Isolated
        <5> QED
          BY <2>2, <4>1, <4>2, <5>1, WrittenStored
      <4> QED
        BY <4>3, <4>4
    <3> QED
      BY <1>1, <2>1, <3>1, <3>2, SetHome
  <2>3. PICK n \in Nat : Rest(todo, Script, n) /\ Done(n)
    BY <1>1, <1>4, <2>1 DEF Progress
  <2>4. \A i \in 1 .. n : Script[i] \in Keys
    <3>1. Script \in Seq(Keys) /\ n <= Len(Script)
      BY <2>3, ScriptSeq DEF Rest
    <3> QED
      BY <3>1
  <2>5. Script' = Script /\ Rest(todo', Script', n)
    BY <2>1, <2>3 DEF Script
  <2>6. Done(n)'
    BY <2>1, <2>2, <2>3, <2>4, <2>5 DEF Done, Homes
  <2> QED
    BY <1>4, <2>1, <2>5, <2>6 DEF Progress
<1> QED
  BY <1>2, <1>3, <1>4
     DEF StartScheduler, BackupWrite, PowerOff, UpdateSet, BackupFind, UserSet

(* The keys of the update stay from the end of the boot loader on: a write *)
(* that reaches the entry of one is a set of that key, which keeps it.     *)
LEMMA UpdateStep ==
  ASSUME Injective, Isolated, Scripted, KeysInv, [Next]_vars
  PROVE  UpdateStored'
<1>1. /\ slots \in [Slot -> Entry] /\ AtHome /\ CallAtHome /\ Phase /\ HomeInv
      /\ Progress /\ UpdateStored
      /\ pending \in [key : UpdateKeys \cup {NoKey}, at : Slot, value : Nat]
  BY DEF KeysInv, HomeInv, SizeInv, TypeOK
<1>2. CASE StartKernel
  <2>1. slots' = slots /\ program = "loader" /\ call.pc = "idle"
    BY <1>2 DEF StartKernel
  <2>2. PICK n \in Nat : Rest(todo, Script, n) /\ Done(n)
    BY <1>1, <2>1 DEF Progress
  <2>3. n = Len(LoaderKeys) /\ \A i \in 1 .. n : Stored(LoaderKeys[i])
    BY <2>1, <2>2 DEF Done, Script
  <2>4. DOMAIN LoaderKeys = 1 .. Len(LoaderKeys)
    BY ScriptAssumption
  <2>5. \A u \in UpdateKeys : Stored(u)
    BY <2>3, <2>4 DEF Scripted
  <2> QED
    BY <2>1, <2>5 DEF UpdateStored, Stored
<1>3. CASE program' \in {"kernel", "run"} /\ ~StartKernel
  <2>1. program \in {"kernel", "run"} /\ call.pc # "wipe"
    BY <1>1, <1>3 DEF Next, Startup, InitializeKey, PowerUp, Wipe, Count,
       FindEmpty, FindMatch, FindOther, CreateProbe, CreateWrite, CreateSize,
       StartScheduler, UpdateSet, BackupFind, UserSet, BackupWrite, PowerOff,
       vars, Phase
  <2> SUFFICES ASSUME NEW u \in UpdateKeys PROVE Stored(u)'
    BY DEF UpdateStored
  <2>2. /\ u \in Keys /\ Stored(u) /\ Home[u] \in Slot
        /\ slots[Home[u]].key = u
    BY <1>1, <2>1, HomeSlot, TableAssumption DEF UpdateStored, Stored
  <2>3. CASE slots'[Home[u]] = slots[Home[u]]
    BY <2>2, <2>3 DEF Stored
  <2>4. CASE slots'[Home[u]] # slots[Home[u]]
    <3>1. \/ \E v \in Values : UpdateSet(u, v)
          \/ BackupWrite /\ pending.key = u
      BY <1>1, <2>1, <2>2, <2>4, UpdateKeysStep
    <3>2. \E v \in Nat : slots' = Written(Home[u], [slots[Home[u]] EXCEPT !.value = v])
      <4>1. CASE BackupWrite /\ pending.key = u
        BY <1>1, <4>1 DEF BackupWrite, CallAtHome
      <4>2. ASSUME NEW v \in Values, UpdateSet(u, v)
            PROVE  slots' = Written(Home[u], [slots[Home[u]] EXCEPT !.value = v])
        <5>1. SetValue(u, v) /\ v \in Nat
          BY <4>2, TableAssumption DEF UpdateSet
        <5>2. slots' # slots
          BY <2>4
        <5> QED
          BY <1>1, <2>2, <5>1, <5>2, SetHome
      <4>3. Values \subseteq Nat
        BY TableAssumption
      <4> QED
        BY <3>1, <4>1, <4>2, <4>3
    <3>3. PICK v \in Nat : slots' = Written(Home[u], [slots[Home[u]] EXCEPT !.value = v])
      BY <3>2
    <3>4. [slots[Home[u]] EXCEPT !.value = v].key = u
      BY <1>1, <2>2, ValueType
    <3> QED
      BY <2>2, <3>3, <3>4 DEF Written, Stored
  <2> QED
    BY <2>3, <2>4
<1> QED
  BY <1>2, <1>3 DEF UpdateStored

LEMMA KeysStep ==
  ASSUME Injective, Isolated, Scripted
  PROVE  KeysInv /\ [Next]_vars => KeysInv'
<1> SUFFICES ASSUME KeysInv, [Next]_vars PROVE KeysInv'
  OBVIOUS
<1>1. SizeInv'
  BY OpenStep, InitializeKeyStep, OtherStep DEF KeysInv, HomeInv, Next, Startup
<1>2. AtHome' /\ CallAtHome'
  BY HomeStep DEF KeysInv
<1>3. Progress'
  BY OpenProgress, InitializeProgress, OtherProgress DEF Next, Startup
<1>4. UpdateStored'
  BY UpdateStep
<1> QED
  BY <1>1, <1>2, <1>3, <1>4 DEF KeysInv, HomeInv

(* Every key of a program is in the table when the program has initialised *)
(* its keys, and those of the update from then on, wherever the supply     *)
(* failed and whatever is set: no initialisation of a key erases one that  *)
(* came before it.                                                         *)
THEOREM KeysAreThere ==
  ASSUME Injective, Isolated, Scripted
  PROVE  Spec => []KeysInitialized
<1>1. KeysInv => KeysInitialized
  <2> SUFFICES ASSUME KeysInv PROVE KeysInitialized
    OBVIOUS
  <2>1. ASSUME program \in {"loader", "kernel"}, call.pc = "idle"
        PROVE  \A i \in DOMAIN Script : Found(Script[i])
    <3>1. PICK n \in Nat : Rest(todo, Script, n) /\ Done(n)
      BY <2>1 DEF KeysInv, Progress
    <3>2. Script \in Seq(Keys) /\ DOMAIN Script = 1 .. n
      BY <2>1, <3>1, ScriptSeq DEF Done
    <3>3. \A i \in DOMAIN Script : Script[i] \in Keys /\ Stored(Script[i])
      BY <3>1, <3>2 DEF Done
    <3> QED
      BY <3>3, StoredFound
  <2>2. program \in {"kernel", "run"} => \A u \in UpdateKeys : Found(u)
    BY StoredFound, TableAssumption DEF KeysInv, UpdateStored
  <2> QED
    BY <2>1, <2>2 DEF KeysInitialized, Script
<1> QED
  BY KeysInit, KeysStep, <1>1, PTL DEF Spec
=============================================================================
