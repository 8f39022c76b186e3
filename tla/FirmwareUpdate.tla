--------------------------- MODULE FirmwareUpdate ---------------------------
(***************************************************************************)
(* The firmware update of avr32webboot, across its two programs: the       *)
(* kernel (firmware_update.c and the firmware_* handlers of                *)
(* http_post_handlers.c) receives a new image into the data flash, backs   *)
(* up the running one and resets; the boot loader (Bootloader/src/main.c)  *)
(* copies one of the two images into the program flash and starts it.      *)
(*                                                                         *)
(* Addresses are offsets into an area (program flash, "new application"    *)
(* area and "backup" area of the data flash) in units of a byte.  A byte   *)
(* of image x is x itself: every position of an area then tells whose byte *)
(* it holds, which is all the properties look at.  Page stands for the     *)
(* 512 bytes that EEPROM_PAGE_SIZE, the logical sector of the data flash   *)
(* and the page of the program flash have in common.                       *)
(*                                                                         *)
(* The three registry keys of the update live in three different sectors   *)
(* of the registry (slots 21, 513 and 767) with no other key, so that here *)
(* they are a record; module Registry has the table itself.                *)
(***************************************************************************)
EXTENDS Integers

CONSTANTS
  Images,      (* Firmware images that a user may upload.                   *)
  Data,        (* Data[x]: the positions the .srec file of x has bytes for. *)
  Len,         (* Len[x]: the number of positions of x, gaps included.      *)
  AreaSize,    (* Positions of an area.                                     *)
  Page,        (* Positions of a page.                                      *)
  Erased,      (* The byte 0xff.                                            *)
  Zero,        (* The byte 0x00.                                            *)
  Garbled,     (* A byte of a line whose checksum is wrong.                 *)
  None,        (* No upload.                                                *)
  Tasks,       (* Backup tasks the heap has room for.                       *)
  StalePages,  (* TRUE: forms may be submitted from a page rendered before  *)
               (* the status of the update changed, or by another client.   *)
  ButtonStates (* What the registry may say when the button PB0 is held at  *)
               (* startup.  The code resets the registry whatever it says;  *)
               (* {"jump_to_application"} is a user who presses it as       *)
               (* README.md:36 and 43 tell, "to initialize the EEPROM for   *)
               (* the first time", and not between an upload and the end of *)
               (* its trial.                                                *)

Byte == Images \cup {Erased, Zero, Garbled}

ASSUME LayoutAssumption ==
  /\ Page \in Nat \ {0}
  /\ AreaSize \in Nat \ {0}
  /\ StalePages \in BOOLEAN
  /\ ButtonStates \subseteq
       {"jump_to_application", "flash_new_application", "restore_backup"}
  /\ None \notin Images
  /\ {Erased, Zero, Garbled} \cap Images = {}
  /\ Erased # Zero /\ Erased # Garbled /\ Zero # Garbled

(* A file has a byte for the address the boot loader jumps to and one for  *)
(* its last position; gaps in between are filled by the parser.            *)
ASSUME ImageAssumption ==
  /\ Len \in [Images -> 1 .. AreaSize]
  /\ Data \in [Images -> SUBSET (0 .. AreaSize - 1)]
  /\ \A x \in Images :
       /\ 0 \in Data[x]
       /\ Len[x] - 1 \in Data[x]
       /\ \A i \in Data[x] : i < Len[x]

Addr == 0 .. AreaSize - 1
Area == [Addr -> Byte]
Content(x, i) == IF i \in Data[x] THEN x ELSE Erased
Holds(area, x) == \A i \in 0 .. Len[x] - 1 : area[i] = Content(x, i)

VARIABLES
  (* Persistent. *)
  flash,       (* Program flash from FIRMWARE_START_ADDRESS on.            *)
  newApp,      (* Data flash from FIRMWARE_NEW_APPLICATION_EEPROM_START.   *)
  backup,      (* Data flash from FIRMWARE_BACKUP_EEPROM_START.            *)
  registry,    (* "Firmware Update State", "Firmware Length" and           *)
               (* "Firmware Backup Length".                                *)
  (* The processor. *)
  pc,          (* What runs: the boot loader's loops or the application.   *)
  flash_address,
  (* The statics of firmware_update.c. *)
  status, address, buffer, index, srec_ok,
  (* The upload in progress and the position its file has come to. *)
  upload, pos,
  (* The backup tasks. *)
  task

persistent == <<flash, newApp, backup, registry>>
cpu == <<pc, flash_address>>
receiver == <<address, buffer, index, srec_ok, upload, pos>>
vars == <<persistent, cpu, status, receiver, task>>

States == {"jump_to_application", "flash_new_application", "restore_backup"}
Statuses == {"idle", "successful_rebooting", "ask_user_to_keep", "failed"}
NoTask == [pc |-> "none", address |-> 0, last |-> 0]

TypeOK ==
  /\ flash \in Area /\ newApp \in Area /\ backup \in Area
  /\ registry \in [state : States, length : Nat, backup_length : Nat]
  /\ pc \in {"boot", "flash", "restore", "jump", "app", "hang"}
  /\ flash_address \in Nat
  /\ status \in Statuses
  /\ address \in Nat
  /\ buffer \in [0 .. Page - 1 -> Byte]
  /\ index \in 0 .. Page
  /\ srec_ok \in BOOLEAN
  /\ upload \in Images \cup {None}
  /\ pos \in Nat
  /\ task \in [Tasks -> [pc : {"none", "length", "copy", "commit", "reset"},
                         address : Nat, last : Addr]]

-----------------------------------------------------------------------------
(* Writing to the data flash. *)

Min2(a, b) == IF a < b THEN a ELSE b

(* The first sector boundary at or after e. *)
SectorEnd(e) == Page * ((e + Page - 1) \div Page)

(* eeprom_write: n bytes of data from address a on; closing the write      *)
(* fills the rest of the sector with zeros.                                *)
EepromWrite(area, a, data, n) ==
  [i \in Addr |-> IF a <= i /\ i < a + n THEN data[i - a]
                  ELSE IF a + n <= i /\ i < SectorEnd(a + n) THEN Zero
                  ELSE area[i]]

(* The single-byte writes of 0xff with which the parser fills a gap.       *)
EepromFill(area, from, to) ==
  [i \in Addr |-> IF from <= i /\ i < to THEN Erased
                  ELSE IF to <= i /\ i < SectorEnd(to) THEN Zero
                  ELSE area[i]]

Flushed == EepromWrite(newApp, address, buffer, index)

-----------------------------------------------------------------------------
(* The kernel receives a file. *)

Offered(s) == StalePages \/ status \in s

(* firmware_update_application_start, for the post that begins an upload. *)
UploadStart(x) ==
  /\ pc = "app"
  /\ upload = None
  /\ Offered({"idle", "failed"})
  /\ upload' = x /\ pos' = 0
  /\ status' = "idle"
  /\ address' = 0 /\ index' = 0 /\ srec_ok' = FALSE
  /\ UNCHANGED <<persistent, cpu, buffer, task>>

Receiving == pc = "app" /\ upload # None /\ status # "failed"

(* Mutant of Append1: a full buffer is not noticed. *)
Append1_NeverFlushed(area, a, n, b) ==
  /\ buffer' = [buffer EXCEPT ![n] = b]
  /\ newApp' = area /\ address' = a /\ index' = n + 1

(* Appending one byte to EEPROM_buffer, which is flushed when it is full.  *)
Append1(area, a, n, b) ==
  IF n < Page
  THEN /\ buffer' = [buffer EXCEPT ![n] = b]
       /\ newApp' = area /\ address' = a /\ index' = n + 1
  ELSE /\ newApp' = EepromWrite(area, a, buffer, n)
       /\ address' = a + n
       /\ buffer' = [buffer EXCEPT ![0] = b] /\ index' = 1

(* An S3 record for the next position of the file: the gap before it is    *)
(* filled, its byte is buffered, and then its checksum is verified.        *)
RecvData(p, ok) ==
  /\ Receiving
  /\ p \in Data[upload] /\ p >= pos
  /\ \A q \in Data[upload] : q >= pos => p <= q
  /\ LET b == IF ok THEN upload ELSE Garbled IN
     IF p > address + index
     THEN /\ newApp' = EepromFill(Flushed, address + index, p)
          /\ address' = p /\ index' = 1
          /\ buffer' = [buffer EXCEPT ![0] = b]
     ELSE Append1(newApp, address, index, b)
  /\ pos' = p + 1
  /\ status' = IF ok THEN status ELSE "failed"
  /\ UNCHANGED <<flash, backup, registry, cpu, srec_ok, upload, task>>

(* Any record that is refused: a line that is no S-record, a second        *)
(* header, an address that was passed before, a faulty termination.        *)
RecvRefused ==
  /\ Receiving
  /\ status' = "failed"
  /\ UNCHANGED <<persistent, cpu, receiver, task>>

(* The S7 record of a file whose lines were all received. *)
RecvTermination ==
  /\ Receiving
  /\ pos = Len[upload]
  /\ newApp' = Flushed
  /\ address' = address + index /\ index' = 0
  /\ srec_ok' = TRUE
  /\ UNCHANGED <<flash, backup, registry, cpu, status, buffer, upload, pos,
                 task>>

(* firmware_update_application_finish: the post has ended, or its          *)
(* connection was closed.  xTaskCreate's result is ignored.                *)
UploadFinish ==
  /\ pc = "app"
  /\ upload # None
  /\ upload' = None
  /\ IF srec_ok
     THEN /\ status' = "successful_rebooting"
          /\ registry' = [registry EXCEPT !.length = address]
          /\ \/ \E t \in Tasks :
                  /\ task[t].pc = "none"
                  /\ task' = [task EXCEPT ![t] = [NoTask EXCEPT !.pc = "length"]]
             \/ /\ \A t \in Tasks : task[t].pc # "none"
                /\ task' = task
     ELSE /\ status' = "failed"
          /\ UNCHANGED <<registry, task>>
  /\ UNCHANGED <<flash, newApp, backup, cpu, address, buffer, index, srec_ok,
                 pos>>

(* http_err: the connection of the upload is reset or lost.  Its state is  *)
(* freed, and firmware_update.c is not told.                               *)
UploadAborted ==
  /\ pc = "app"
  /\ upload # None
  /\ upload' = None
  /\ UNCHANGED <<persistent, cpu, status, address, buffer, index, srec_ok, pos,
                 task>>

-----------------------------------------------------------------------------
(* firmware_backup_and_reboot_task, at a priority below the server's: the  *)
(* actions above and below may come between any two of its steps.          *)

(* The last position whose byte is not 0xff, or the first position. *)
LastUsed(area, l) ==
  /\ l \in Addr
  /\ area[l] # Erased \/ l = 0
  /\ \A i \in Addr : i > l => area[i] = Erased

(* Mutant of BackupLength: the state is set before the copy is made. *)
BackupLength_StateFirst(t) ==
  /\ pc = "app"
  /\ task[t].pc = "length"
  /\ \E l \in Addr :
       /\ LastUsed(flash, l)
       /\ registry' = [registry EXCEPT !.backup_length = l + 1,
                                      !.state = "flash_new_application"]
       /\ task' = [task EXCEPT ![t] = [pc |-> "copy", address |-> 0, last |-> l]]
  /\ UNCHANGED <<flash, newApp, backup, cpu, status, receiver>>

BackupLength(t) ==
  /\ pc = "app"
  /\ task[t].pc = "length"
  /\ \E l \in Addr :
       /\ LastUsed(flash, l)
       /\ registry' = [registry EXCEPT !.backup_length = l + 1]
       /\ task' = [task EXCEPT ![t] = [pc |-> "copy", address |-> 0, last |-> l]]
  /\ UNCHANGED <<flash, newApp, backup, cpu, status, receiver>>

(* One buffer full, or what remains, is written to the backup area. *)
BackupCopy(t) ==
  LET a == task[t].address
      n == Min2(task[t].last + 1 - a, Page)
  IN /\ pc = "app"
     /\ task[t].pc = "copy"
     /\ backup' = EepromWrite(backup, a, [j \in 0 .. n - 1 |-> flash[a + j]], n)
     /\ task' = [task EXCEPT ![t].address = a + n,
                             ![t].pc = IF a + n = task[t].last + 1
                                       THEN "commit" ELSE "copy"]
     /\ UNCHANGED <<flash, newApp, registry, cpu, status, receiver>>

BackupCommit(t) ==
  /\ pc = "app"
  /\ task[t].pc = "commit"
  /\ registry' = [registry EXCEPT !.state = "flash_new_application"]
  /\ task' = [task EXCEPT ![t].pc = "reset"]
  /\ UNCHANGED <<flash, newApp, backup, cpu, status, receiver>>

(* Interrupts are disabled and the watchdog is left to expire. *)
BackupReset(t) ==
  /\ pc = "app"
  /\ task[t].pc = "reset"
  /\ pc' = "hang"
  /\ UNCHANGED <<persistent, flash_address, status, receiver, task>>

-----------------------------------------------------------------------------
(* The other handlers of the page. *)

(* Mutant of Keep: the registry is changed, the status is not. *)
Keep_StatusKept ==
  /\ pc = "app"
  /\ Offered({"ask_user_to_keep"})
  /\ registry' = [registry EXCEPT !.state = "jump_to_application"]
  /\ UNCHANGED <<flash, newApp, backup, cpu, status, receiver, task>>

(* http_post_handler_keep_new_firmware *)
Keep ==
  /\ pc = "app"
  /\ Offered({"ask_user_to_keep"})
  /\ registry' = [registry EXCEPT !.state = "jump_to_application"]
  /\ status' = "idle"
  /\ UNCHANGED <<flash, newApp, backup, cpu, receiver, task>>

(* http_post_handler_reboot, for "Reject Changes" and for the reboot link. *)
Reboot ==
  /\ pc = "app"
  /\ pc' = "hang"
  /\ UNCHANGED <<persistent, flash_address, status, receiver, task>>

-----------------------------------------------------------------------------
(* Resets. *)

RamLost ==
  /\ status' = "idle" /\ address' = 0 /\ index' = 0 /\ srec_ok' = FALSE
  /\ buffer' = [j \in 0 .. Page - 1 |-> Zero]
  /\ upload' = None /\ pos' = 0
  /\ task' = [t \in Tasks |-> NoTask]
  /\ flash_address' = 0

WatchdogReset ==
  /\ pc = "hang"
  /\ pc' = "boot"
  /\ RamLost
  /\ UNCHANGED persistent

(* A page of the program flash is erased before it is written: a supply    *)
(* that fails in between leaves it erased.                                 *)
PowerLoss ==
  /\ pc' = "boot"
  /\ RamLost
  /\ \/ flash' = flash
     \/ /\ pc \in {"flash", "restore"}
        /\ flash' = [i \in Addr |->
                       IF flash_address <= i /\ i < flash_address + Page
                       THEN Erased ELSE flash[i]]
  /\ UNCHANGED <<newApp, backup, registry>>

-----------------------------------------------------------------------------
(* The boot loader.  Its three lengths and states are read once; nothing   *)
(* else runs that could change them.                                       *)

Boot ==
  /\ pc = "boot"
  /\ pc' = CASE registry.state = "jump_to_application"   -> "jump"
             [] registry.state = "flash_new_application" -> "flash"
             [] registry.state = "restore_backup"        -> "restore"
  /\ flash_address' = 0
  /\ UNCHANGED <<persistent, status, receiver, task>>

(* registry_init(true): the button PB0 is held at startup.  The code does  *)
(* not look at the state; ButtonStates says in which it happens.           *)
BootWithButton ==
  /\ pc = "boot"
  /\ registry.state \in ButtonStates
  /\ registry' = [state |-> "jump_to_application", length |-> 0,
                  backup_length |-> 0]
  /\ pc' = "jump"
  /\ flash_address' = 0
  /\ UNCHANGED <<flash, newApp, backup, status, receiver, task>>

(* Mutant of CopyPage: the address is not advanced. *)
CopyPage_NoAdvance(source, length) ==
  LET n == Min2(length - flash_address + 1, Page) IN
  /\ flash_address < length
  /\ flash' = [i \in Addr |-> IF flash_address <= i /\ i < flash_address + n
                              THEN source[i] ELSE flash[i]]
  /\ UNCHANGED <<newApp, backup, registry, cpu, status, receiver, task>>

(* One turn of a copy loop.  It reads one byte more than remains when that *)
(* byte is still in the page.                                              *)
CopyPage(source, length) ==
  LET n == Min2(length - flash_address + 1, Page) IN
  /\ flash_address < length
  /\ flash' = [i \in Addr |-> IF flash_address <= i /\ i < flash_address + n
                              THEN source[i] ELSE flash[i]]
  /\ flash_address' = flash_address + n
  /\ UNCHANGED <<newApp, backup, registry, pc, status, receiver, task>>

(* Mutant of CopyDone: a last page that is not full is left out. *)
CopyDone_FullPagesOnly(length, next) ==
  /\ flash_address + Page > length
  /\ registry' = [registry EXCEPT !.state = next]
  /\ pc' = "jump"
  /\ UNCHANGED <<flash, newApp, backup, flash_address, status, receiver, task>>

CopyDone(length, next) ==
  /\ flash_address >= length
  /\ registry' = [registry EXCEPT !.state = next]
  /\ pc' = "jump"
  /\ UNCHANGED <<flash, newApp, backup, flash_address, status, receiver, task>>

(* Mutant of FlashDone: the new image is started as a confirmed one. *)
FlashDone_Confirmed ==
  pc = "flash" /\ CopyDone(registry.length, "jump_to_application")

FlashPage == pc = "flash" /\ CopyPage(newApp, registry.length)
FlashDone == pc = "flash" /\ CopyDone(registry.length, "restore_backup")
RestorePage == pc = "restore" /\ CopyPage(backup, registry.backup_length)
RestoreDone ==
  pc = "restore" /\ CopyDone(registry.backup_length, "jump_to_application")

(* application_start, and firmware_update_init in the kernel it starts. *)
ApplicationStart ==
  /\ pc = "jump"
  /\ pc' = "app"
  /\ status' = IF registry.state = "restore_backup"
               THEN "ask_user_to_keep" ELSE "idle"
  /\ UNCHANGED <<persistent, flash_address, receiver, task>>

-----------------------------------------------------------------------------
(* A board flashed with JTAG, whose registry was reset. *)
Init ==
  /\ \E x \in Images :
       flash = [i \in Addr |-> IF i < Len[x] THEN Content(x, i) ELSE Erased]
  /\ newApp = [i \in Addr |-> Erased]
  /\ backup = [i \in Addr |-> Erased]
  /\ registry = [state |-> "jump_to_application", length |-> 0,
                 backup_length |-> 0]
  /\ pc = "boot" /\ flash_address = 0
  /\ status = "idle" /\ address = 0 /\ index = 0 /\ srec_ok = FALSE
  /\ buffer = [j \in 0 .. Page - 1 |-> Zero]
  /\ upload = None /\ pos = 0
  /\ task = [t \in Tasks |-> NoTask]

Server ==
  \/ \E x \in Images : UploadStart(x)
  \/ \E p \in Addr, ok \in BOOLEAN : RecvData(p, ok)
  \/ RecvRefused
  \/ RecvTermination
  \/ UploadFinish
  \/ UploadAborted
  \/ Keep
  \/ Reboot

BackupTask(t) ==
  \/ BackupLength(t)
  \/ BackupCopy(t)
  \/ BackupCommit(t)
  \/ BackupReset(t)

BootLoader ==
  \/ Boot
  \/ BootWithButton
  \/ FlashPage
  \/ FlashDone
  \/ RestorePage
  \/ RestoreDone
  \/ ApplicationStart

Next ==
  \/ Server
  \/ \E t \in Tasks : BackupTask(t)
  \/ WatchdogReset
  \/ PowerLoss
  \/ BootLoader

(* The boot loader runs alone, the watchdog is hardware, and the scheduler *)
(* gives the backup task the processor whenever the server waits for a     *)
(* packet; nobody has to upload, press a button or cut the power.          *)
Fairness ==
  /\ WF_vars(BootLoader)
  /\ WF_vars(WatchdogReset)
  /\ \A t \in Tasks : WF_vars(BackupTask(t))

Spec == Init /\ [][Next]_vars
FairSpec == Spec /\ Fairness

-----------------------------------------------------------------------------
(* Safety. *)

Complete(area) == \E x \in Images : Holds(area, x)

(* The first length positions of an area include a complete image. *)
Covered(area, length) == \E x \in Images : Holds(area, x) /\ length >= Len[x]

(* The boot loader only ever starts a complete image, whatever the moment  *)
(* at which the supply failed or a post was broken off (main.c:50, 71, 92: *)
(* application_start).  It rests on ButtonStates: a button held after the  *)
(* supply failed in mid copy resets the registry (main.c:36), and what was *)
(* copied so far is started.                                               *)
StartsCompleteImage == pc \in {"jump", "app", "hang"} => Complete(flash)

(* At every moment the copy that the next start depends on is complete in  *)
(* the area the boot loader will take it from, and so is the copy it can   *)
(* fall back to; the lengths in the registry cover them.  It rests on      *)
(* ButtonStates = {"jump_to_application"}, as StartsCompleteImage does.    *)
RecoveryPoint ==
  /\ registry.state = "jump_to_application" => Complete(flash)
  /\ registry.state = "flash_new_application" =>
       Covered(newApp, registry.length)
  /\ registry.state # "jump_to_application" =>
       Covered(backup, registry.backup_length)

(* What the page says is what a reset will do: it asks whether to keep the *)
(* image exactly when the image is on trial (firmware_update.c:270-274).   *)
AsksOnlyOnTrial ==
  pc = "app" =>
    (status = "ask_user_to_keep" <=> registry.state = "restore_backup")

(* A restore ends with a complete image in the flash: "the previous        *)
(* firmware image will be automatically restored upon reset"               *)
(* (README.md:55, main.c:74-93).                                           *)
RestoresCompleteImage ==
  [][pc = "restore" /\ pc' = "jump" => Complete(flash')]_vars

-----------------------------------------------------------------------------
(* Refinement: what the device does is what TrialUpdate promises. *)

Corrupt == [corrupt |-> TRUE]
ImageIn(area) ==
  IF Complete(area) THEN CHOOSE x \in Images : Holds(area, x) ELSE Corrupt

(* The image that runs, the one the next start runs, and the one after it. *)
Running == IF pc \in {"jump", "app"} THEN ImageIn(flash) ELSE None
NextStart ==
  IF registry.state = "jump_to_application" THEN ImageIn(flash)
  ELSE IF registry.state = "flash_new_application" THEN ImageIn(newApp)
  ELSE ImageIn(backup)
StartAfter ==
  IF registry.state = "jump_to_application" THEN ImageIn(flash)
  ELSE ImageIn(backup)

Promise == INSTANCE TrialUpdate WITH
  running <- Running, next <- NextStart, after <- StartAfter

(* Every step of the update is a step of the promise: an image runs only   *)
(* if it was confirmed or is on its one trial, and a reset during a trial  *)
(* brings back the image that staged it, bit for bit.  It rests on users   *)
(* who submit what the page offers and press the button only to initialize *)
(* the EEPROM (StalePages, ButtonStates).                                  *)
KeepsPromise == Promise!Spec

-----------------------------------------------------------------------------
(* Liveness. *)

(* A device that was reset or had its supply restored runs an application  *)
(* again, if the supply does not fail for ever.                            *)
BootCompletes ==
  <>[][~PowerLoss]_vars => [](pc # "app" => <>(pc = "app"))
=============================================================================
