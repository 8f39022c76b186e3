------------------------------ MODULE Registry ------------------------------
(***************************************************************************)
(* The registry of avr32webboot (registry.c): a hash table with linear     *)
(* probing in the data flash, which both programs open at every start and  *)
(* in which each of them initialises its keys.                             *)
(*                                                                         *)
(* Before the scheduler runs the calls come one after another from main;   *)
(* afterwards an application task initialises its keys while the server,   *)
(* whose priority is higher, and the backup task set values.  Every access *)
(* to the data flash is a critical section (eeprom.c), and is a step.      *)
(*                                                                         *)
(* A write is closed by filling the rest of the 512-byte sector with       *)
(* zeros: a sector of SectorSlots entries is what one write can change.    *)
(* A key's read-only flag is fixed by the call that initialises it, so it  *)
(* is not kept in the entries: UpdateKeys are the read-only ones.          *)
(***************************************************************************)
EXTENDS Integers, Sequences, FiniteSets

CONSTANTS
  Keys,         (* The keys that some module initialises.                  *)
  NoKey,        (* A key that begins with a zero byte.                     *)
  Slots,        (* REGISTRY_SIZE                                           *)
  SectorSlots,  (* Entries in a sector of the data flash.                  *)
  Home,         (* Home[k]: the hash of k modulo REGISTRY_SIZE.            *)
  Default,      (* Default[k]: the value k is initialised to.              *)
  Values,       (* The values a user or the update sets.                   *)
  LoaderKeys,   (* The keys of the boot loader, in the order of its calls. *)
  KernelKeys,   (* The keys of kernel_init, in the order of its calls.     *)
  TaskKeys,     (* The keys of the application's task.                     *)
  UpdateKeys    (* The keys that only the firmware update sets.            *)

ASSUME TableAssumption ==
  /\ Slots \in Nat \ {0}
  /\ SectorSlots \in Nat \ {0}
  /\ NoKey \notin Keys
  /\ Home \in [Keys -> 0 .. Slots - 1]
  /\ Default \in [Keys -> Nat]
  /\ Values \subseteq Nat
  /\ UpdateKeys \subseteq Keys

ASSUME ScriptAssumption ==
  /\ LoaderKeys \in Seq(Keys)
  /\ KernelKeys \in Seq(Keys)
  /\ TaskKeys \in Seq(Keys)

Slot == 0 .. Slots - 1
Entry == [key : Keys \cup {NoKey}, value : Nat]
Empty == [key |-> NoKey, value |-> 0]

VARIABLES
  slots,    (* The table.  The only variable that is not in RAM.           *)
  size,     (* registry_size, of the program that runs.                    *)
  program,  (* The program that runs; "run": the kernel with its scheduler. *)
  todo,     (* The keys that are still to be initialised.                  *)
  call,     (* The registry call in progress and the slot it has come to.  *)
  pending   (* The value the backup task is about to write.                *)

vars == <<slots, size, program, todo, call, pending>>

Idle == [pc |-> "idle", at |-> 0]
NoSet == [key |-> NoKey, at |-> 0, value |-> 0]

TypeOK ==
  /\ slots \in [Slot -> Entry]
  /\ size \in Nat
  /\ program \in {"off", "loader", "kernel", "run"}
  /\ todo \in Seq(Keys)
  /\ call \in [pc : {"idle", "wipe", "count", "find", "create", "write", "size"},
               at : Slot]
  /\ pending \in [key : UpdateKeys \cup {NoKey}, at : Slot, value : Nat]

-----------------------------------------------------------------------------
(* The table. *)

SectorOf(s) == s \div SectorSlots
Occupied == {s \in Slot : slots[s].key # NoKey}

(* Mutant of Written: the sector's old contents are not fetched first. *)
Written_NotFetched(i, e) ==
  [s \in Slot |-> IF s = i THEN e
                  ELSE IF SectorOf(s) = SectorOf(i) THEN Empty
                  ELSE slots[s]]

(* Mutant of Written: the page of two sectors is filled, not the sector. *)
Written_FillsPage(i, e) ==
  [s \in Slot |-> IF s = i THEN e
                  ELSE IF i < s /\ SectorOf(s) \div 2 = SectorOf(i) \div 2
                  THEN Empty
                  ELSE slots[s]]

(* The table after entry e was written to slot i by eeprom_write. *)
Written(i, e) ==
  [s \in Slot |-> IF s = i THEN e
                  ELSE IF i < s /\ SectorOf(s) = SectorOf(i) THEN Empty
                  ELSE slots[s]]

(* Slot s is where registry_find_key finds k. *)
FoundAt(k, s) ==
  /\ slots[s].key = k
  /\ \A d \in 0 .. ((s - Home[k]) % Slots) - 1 :
       slots[(Home[k] + d) % Slots].key \notin {NoKey, k}

Found(k) == \E s \in Slot : FoundAt(k, s)

(* registry_set_value *)
SetValue(k, v) ==
  \/ \E s \in Slot :
       FoundAt(k, s) /\ slots' = Written(s, [slots[s] EXCEPT !.value = v])
  \/ ~Found(k) /\ slots' = slots

-----------------------------------------------------------------------------
(* registry_init *)

Perform(keys) ==
  /\ todo' = keys
  /\ call' = IF keys = <<>> THEN Idle ELSE [pc |-> "find", at |-> Home[Head(keys)]]

(* The boot loader starts; the button may be held. *)
PowerUp(button) ==
  /\ program = "off"
  /\ program' = "loader"
  /\ size' = 0
  /\ todo' = LoaderKeys
  /\ call' = [pc |-> IF button THEN "wipe" ELSE "count", at |-> 0]
  /\ UNCHANGED <<slots, pending>>

(* Mutant of Wipe: one turn too many. *)
Wipe_OneMore ==
  /\ call.pc = "wipe"
  /\ slots' = Written(call.at, Empty)
  /\ call' = IF call.at < Slots THEN [call EXCEPT !.at = @ + 1] ELSE Idle
  /\ UNCHANGED <<size, program, todo, pending>>

(* One turn of the loop that resets the table. *)
Wipe ==
  /\ call.pc = "wipe"
  /\ slots' = Written(call.at, Empty)
  /\ IF call.at < Slots - 1
     THEN call' = [call EXCEPT !.at = @ + 1] /\ UNCHANGED <<size, todo>>
     ELSE size' = 0 /\ Perform(todo)
  /\ UNCHANGED <<program, pending>>

Count ==
  /\ call.pc = "count"
  /\ size' = size + Cardinality(Occupied)
  /\ Perform(todo)
  /\ UNCHANGED <<slots, program, pending>>

-----------------------------------------------------------------------------
(* registry_initialize_key, for the first key of todo. *)

NextSlot(s) == (s + 1) % Slots

(* The key was not found: it is created, unless the registry is full. *)
NotFound ==
  IF size < Slots
  THEN call' = [pc |-> "create", at |-> Home[Head(todo)]] /\ todo' = todo
  ELSE Perform(Tail(todo))

FindEmpty ==
  /\ call.pc = "find"
  /\ slots[call.at].key = NoKey
  /\ NotFound
  /\ UNCHANGED <<slots, size, program, pending>>

FindMatch ==
  /\ call.pc = "find"
  /\ slots[call.at].key = Head(todo)
  /\ Perform(Tail(todo))
  /\ UNCHANGED <<slots, size, program, pending>>

FindOther ==
  /\ call.pc = "find"
  /\ slots[call.at].key \notin {NoKey, Head(todo)}
  /\ IF NextSlot(call.at) # Home[Head(todo)]
     THEN call' = [call EXCEPT !.at = NextSlot(@)] /\ todo' = todo
     ELSE NotFound
  /\ UNCHANGED <<slots, size, program, pending>>

(* Mutant of CreateProbe: the home slot is taken, free or not. *)
CreateProbe_HomeOnly ==
  /\ call.pc = "create"
  /\ call' = [call EXCEPT !.pc = "write"]
  /\ UNCHANGED <<slots, size, program, todo, pending>>

(* Mutant of CreateProbe: the hash is not advanced. *)
CreateProbe_NoAdvance ==
  /\ call.pc = "create"
  /\ call' = IF slots[call.at].key = NoKey THEN [call EXCEPT !.pc = "write"]
             ELSE call
  /\ UNCHANGED <<slots, size, program, todo, pending>>

CreateProbe ==
  /\ call.pc = "create"
  /\ call' = IF slots[call.at].key = NoKey THEN [call EXCEPT !.pc = "write"]
             ELSE [call EXCEPT !.at = NextSlot(@)]
  /\ UNCHANGED <<slots, size, program, todo, pending>>

CreateWrite ==
  /\ call.pc = "write"
  /\ LET k == Head(todo) IN
     slots' = Written(call.at, [key |-> k, value |-> Default[k]])
  /\ call' = [call EXCEPT !.pc = "size"]
  /\ UNCHANGED <<size, program, todo, pending>>

(* Mutant of CreateSize: registry_size is written but not incremented. *)
CreateSize_NotCounted ==
  /\ call.pc = "size"
  /\ slots' = Written(0, [slots[0] EXCEPT !.value = size])
  /\ Perform(Tail(todo))
  /\ UNCHANGED <<size, program, pending>>

(* registry_size is incremented and written into the first entry. *)
CreateSize ==
  /\ call.pc = "size"
  /\ size' = size + 1
  /\ slots' = Written(0, [slots[0] EXCEPT !.value = size + 1])
  /\ Perform(Tail(todo))
  /\ UNCHANGED <<program, pending>>

InitializeKey ==
  FindEmpty \/ FindMatch \/ FindOther \/ CreateProbe \/ CreateWrite \/ CreateSize

-----------------------------------------------------------------------------
(* The programs. *)

(* application_start: the kernel opens the table anew. *)
StartKernel ==
  /\ program = "loader" /\ call.pc = "idle"
  /\ program' = "kernel"
  /\ size' = 0
  /\ todo' = KernelKeys
  /\ call' = [pc |-> "count", at |-> 0]
  /\ UNCHANGED <<slots, pending>>

StartScheduler ==
  /\ program = "kernel" /\ call.pc = "idle"
  /\ program' = "run"
  /\ Perform(TaskKeys)
  /\ UNCHANGED <<slots, size, pending>>

(* The boot loader, or the server for the update. *)
UpdateSet(k, v) ==
  /\ program = "run" \/ (program = "loader" /\ call.pc = "idle")
  /\ k \in UpdateKeys
  /\ SetValue(k, v)
  /\ UNCHANGED <<size, program, todo, call, pending>>

(* The backup task: between finding the key and writing the value it can   *)
(* be preempted.                                                           *)
BackupFind(k, v) ==
  /\ program = "run"
  /\ pending = NoSet
  /\ k \in UpdateKeys
  /\ \E s \in Slot : FoundAt(k, s) /\ pending' = [key |-> k, at |-> s, value |-> v]
  /\ UNCHANGED <<slots, size, program, todo, call>>

BackupWrite ==
  /\ program = "run"
  /\ pending # NoSet
  /\ slots' = Written(pending.at, [slots[pending.at] EXCEPT !.value = pending.value])
  /\ pending' = NoSet
  /\ UNCHANGED <<size, program, todo, call>>

(* http_post_handler_registry_set, from the page's table: the page shows   *)
(* the read-only keys with their buttons disabled.                         *)
UserSet(k, v) ==
  /\ program = "run"
  /\ k \notin UpdateKeys
  /\ SetValue(k, v)
  /\ UNCHANGED <<size, program, todo, call, pending>>

(* A reset, or the supply fails. *)
PowerOff ==
  /\ program # "off"
  /\ program' = "off"
  /\ size' = 0 /\ todo' = <<>> /\ call' = Idle /\ pending' = NoSet
  /\ UNCHANGED slots

-----------------------------------------------------------------------------
(* The table has been reset once, by the first start with the button held. *)
Init ==
  /\ slots = [s \in Slot |-> Empty]
  /\ size = 0
  /\ program = "off"
  /\ todo = <<>>
  /\ call = Idle
  /\ pending = NoSet

Startup ==
  \/ \E button \in BOOLEAN : PowerUp(button)
  \/ Wipe
  \/ Count
  \/ InitializeKey
  \/ StartKernel
  \/ StartScheduler

Next ==
  \/ Startup
  \/ \E k \in Keys, v \in Values :
       UpdateSet(k, v) \/ BackupFind(k, v) \/ UserSet(k, v)
  \/ BackupWrite
  \/ PowerOff

Spec == Init /\ [][Next]_vars

(* main runs alone until the scheduler starts; a task that waits for its   *)
(* critical section gets the processor whenever the server is idle.        *)
FairSpec == Spec /\ WF_vars(Startup)

-----------------------------------------------------------------------------
(* Every stored key is found, in the slot that holds it: no write, erasure *)
(* or interrupted start leaves a key behind a gap of its probe sequence,   *)
(* or stores a key twice (registry_find_key stops at an empty location).   *)
KeysFound == \A s \in Slot : slots[s].key # NoKey => FoundAt(slots[s].key, s)

(* When a program has initialised its keys they are all there: the ones    *)
(* initialised later have not erased the earlier ones.  The update's keys  *)
(* stay, whatever the user sets (registry_get_value has no default).       *)
KeysInitialized ==
  /\ program = "loader" /\ call.pc = "idle" =>
       \A i \in DOMAIN LoaderKeys : Found(LoaderKeys[i])
  /\ program = "kernel" /\ call.pc = "idle" =>
       \A i \in DOMAIN KernelKeys : Found(KernelKeys[i])
  /\ program \in {"kernel", "run"} => \A k \in UpdateKeys : Found(k)

(* registry_size is never below the number of entries in use, so that      *)
(* registry_create_key, which asks it whether to search, finds a free one. *)
SizeCovers ==
  call.pc \in {"find", "create", "write", "size"} =>
    Cardinality(Occupied) <= size + (IF call.pc = "size" THEN 1 ELSE 0)

(* An entry of the update is changed only by setting that key, or by       *)
(* resetting the table: no write to another key reaches it.                *)
UpdateKeysKept ==
  [][\A s \in Slot :
       slots[s].key \in UpdateKeys /\ slots'[s] # slots[s] =>
         \/ call.pc = "wipe"
         \/ \E v \in Values : UpdateSet(slots[s].key, v)
         \/ BackupWrite /\ pending.key = slots[s].key]_vars

(* Setting a value leaves every other key's entry as it was: "skip the     *)
(* string and read-only field and write the value directly"                *)
(* (registry.c:261).                                                       *)
SetKeepsOtherKeys ==
  [][\A k \in Keys, v \in Values :
       UserSet(k, v) =>
         \A s \in Slot : slots[s].key # k => slots'[s].key = slots[s].key]_vars

(* Every start, also one on the fuller table that earlier starts and their *)
(* interruptions left, ends with all keys initialised or refused and the   *)
(* application running, unless the supply fails again: the searches and    *)
(* the wiping of the table terminate (registry.c:61-137, 155-176).         *)
StartCompletes ==
  <>[][~PowerOff]_vars =>
    [](program # "run" \/ call.pc # "idle" =>
         <>(program = "run" /\ call.pc = "idle"))
=============================================================================
