----------------------- MODULE FirmwareUpdate_proofs -----------------------
(***************************************************************************)
(* Proofs about FirmwareUpdate, for every number and shape of images, every *)
(* size of an area and of a page, and any number of backup tasks, with the *)
(* supply failing at any step.                                             *)
(***************************************************************************)
EXTENDS FirmwareUpdate, TLAPS

-----------------------------------------------------------------------------
(* The inductive invariant for a user who submits what the page offers and *)
(* presses the button only to initialize the EEPROM.                       *)

(* PB0 is held at a start only when no update is under way: the registry   *)
(* does not say that an image is to be copied or restored.                 *)
ButtonOnlyAtRest == ButtonStates \subseteq {"jump_to_application"}

(* The first n positions of an area are those of x, or of another area.    *)
Received(area, x, n) == \A i \in Addr : i < n => area[i] = Content(x, i)
Buffered(buf, x, a, n) == \A j \in 0 .. n - 1 : buf[j] = Content(x, a + j)
Copied(to, from, n) == \A i \in Addr : i < n => to[i] = from[i]

(* A file that was not refused so far is in the area and in the buffer.    *)
ReceivedSoFar ==
  upload # None /\ status # "failed" =>
    /\ pos = address + index
    /\ pos <= Len[upload]
    /\ Received(newApp, upload, address)
    /\ Buffered(buffer, upload, address, index)

(* A file whose termination was accepted is complete, whatever came after. *)
ReceivedAll ==
  upload # None /\ srec_ok =>
    /\ Holds(newApp, upload)
    /\ address = Len[upload] /\ index = 0 /\ pos = Len[upload]

(* An upload goes on only where the running image is confirmed.            *)
UploadState ==
  upload # None =>
    /\ pc \in {"app", "hang"}
    /\ status \in {"idle", "failed"}
    /\ registry.state = "jump_to_application"
    /\ \A t \in Tasks : task[t].pc = "none"

(* The backup task copies the running image behind a finished upload.      *)
TaskOK(t) ==
  task[t].pc # "none" =>
    /\ pc \in {"app", "hang"}
    /\ status = "successful_rebooting"
    /\ Covered(newApp, registry.length)
    /\ \A u \in Tasks : task[u].pc # "none" => u = t
    /\ registry.state = IF task[t].pc = "reset" THEN "flash_new_application"
                        ELSE "jump_to_application"
    /\ task[t].pc \in {"copy", "commit"} =>
         /\ LastUsed(flash, task[t].last)
         /\ registry.backup_length = task[t].last + 1
         /\ task[t].address <= task[t].last + 1
         /\ Copied(backup, flash, task[t].address)
    /\ task[t].pc = "commit" => task[t].address = task[t].last + 1

TaskState == \A t \in Tasks : TaskOK(t)

(* The copy loops of the boot loader. *)
CopyState ==
  /\ pc = "flash" => /\ registry.state = "flash_new_application"
                     /\ Copied(flash, newApp, flash_address)
  /\ pc = "restore" => /\ registry.state = "restore_backup"
                       /\ Copied(flash, backup, flash_address)

(* What the status says of the registry while the application runs.        *)
StatusState ==
  /\ AsksOnlyOnTrial
  /\ pc = "app" /\ registry.state = "flash_new_application" =>
       status = "successful_rebooting"
  /\ pc = "jump" => registry.state # "flash_new_application"

IInv ==
  /\ TypeOK
  /\ StartsCompleteImage
  /\ RecoveryPoint
  /\ ReceivedSoFar
  /\ ReceivedAll
  /\ UploadState
  /\ TaskState
  /\ CopyState
  /\ StatusState

-----------------------------------------------------------------------------
(* Type correctness.                                                       *)

(* Writing n bytes that are bytes leaves an area an area. *)
LEMMA WriteType ==
  ASSUME NEW area \in Area, NEW a \in Nat, NEW n \in Nat, NEW data,
         \A j \in 0 .. n - 1 : data[j] \in Byte
  PROVE  EepromWrite(area, a, data, n) \in Area
<1>1. ASSUME NEW i \in Addr
      PROVE  EepromWrite(area, a, data, n)[i] \in Byte
  <2>1. CASE a <= i /\ i < a + n
    <3>1. i - a \in 0 .. n - 1
      BY <2>1 DEF Addr
    <3>. QED BY <2>1, <3>1 DEF EepromWrite
  <2>2. CASE ~(a <= i /\ i < a + n)
    BY <2>2 DEF EepromWrite, Area, Byte
  <2>. QED BY <2>1, <2>2
<1>. QED BY <1>1 DEF EepromWrite, Area

LEMMA FillType ==
  ASSUME NEW area \in Area, NEW from \in Nat, NEW to \in Nat
  PROVE  EepromFill(area, from, to) \in Area
BY DEF EepromFill, Area, Byte

LEMMA FlushType == TypeOK => Flushed \in Area
<1>1. ASSUME TypeOK, NEW j \in 0 .. index - 1 PROVE buffer[j] \in Byte
  BY <1>1, LayoutAssumption DEF TypeOK
<1>. QED BY <1>1, WriteType, LayoutAssumption DEF Flushed, TypeOK

(* Every variable keeps its type: no write leaves the buffer, and no       *)
(* address of the backup task the area.                                    *)
LEMMA TypeStep == TypeOK /\ [Next]_vars => TypeOK'
<1> SUFFICES ASSUME TypeOK, [Next]_vars PROVE TypeOK'
  OBVIOUS
<1> USE LayoutAssumption
<1>1. ASSUME NEW x \in Images, UploadStart(x) PROVE TypeOK'
  <2>1. /\ upload' = x /\ pos' = 0 /\ status' = "idle"
        /\ address' = 0 /\ index' = 0 /\ srec_ok' = FALSE
        /\ UNCHANGED <<persistent, cpu, buffer, task>>
    BY <1>1 DEF UploadStart
  <2>2. index' \in 0 .. Page
    BY <2>1
  <2>3. upload' \in Images \cup {None}
    BY <2>1
  <2>4. status' \in Statuses
    BY <2>1 DEF Statuses
  <2>5. srec_ok' \in BOOLEAN /\ address' \in Nat /\ pos' \in Nat
    BY <2>1
  <2>6. /\ UNCHANGED <<buffer, task, flash, newApp, backup, registry>>
        /\ UNCHANGED <<pc, flash_address>>
    BY <2>1 DEF persistent, cpu
  <2>. QED BY <2>2, <2>3, <2>4, <2>5, <2>6 DEF TypeOK
<1>2. ASSUME NEW p \in Addr, NEW ok \in BOOLEAN, RecvData(p, ok) PROVE TypeOK'
  <2> DEFINE b == IF ok THEN upload ELSE Garbled
  <2>1. b \in Byte /\ p \in Nat
    BY <1>2 DEF RecvData, Receiving, TypeOK, Byte, Addr
  <2>2. newApp' \in Area /\ address' \in Nat /\ index' \in 0 .. Page
        /\ buffer' \in [0 .. Page - 1 -> Byte]
    <3>1. CASE p > address + index
      <4>1. newApp' = EepromFill(Flushed, address + index, p)
            /\ address' = p /\ index' = 1 /\ buffer' = [buffer EXCEPT ![0] = b]
        BY <1>2, <3>1 DEF RecvData
      <4>2. newApp' \in Area
        <5>1. Flushed \in Area /\ address + index \in Nat
          BY FlushType DEF TypeOK
        <5>. QED BY <4>1, <5>1, <2>1, FillType
      <4>3. buffer' \in [0 .. Page - 1 -> Byte]
        BY <4>1, <2>1 DEF TypeOK
      <4>. QED BY <4>1, <4>2, <4>3, <2>1
    <3>2. CASE ~(p > address + index)
      <4>1. Append1(newApp, address, index, b)
        BY <1>2, <3>2 DEF RecvData
      <4>2. EepromWrite(newApp, address, buffer, index) \in Area
        BY FlushType DEF Flushed
      <4>. QED BY <4>1, <4>2, <2>1 DEF Append1, TypeOK
    <3>. QED BY <3>1, <3>2
  <2>3. UNCHANGED <<flash, backup, registry, cpu, srec_ok, upload, task>>
        /\ pos' = p + 1 /\ status' \in Statuses
    BY <1>2 DEF RecvData, Statuses, TypeOK
  <2>. QED BY <2>1, <2>2, <2>3 DEF TypeOK, cpu
<1>3. ASSUME RecvRefused PROVE TypeOK'
  BY <1>3 DEF RecvRefused, TypeOK, persistent, cpu, receiver, Statuses
<1>4. ASSUME RecvTermination PROVE TypeOK'
  BY <1>4, FlushType DEF RecvTermination, TypeOK, cpu
<1>5. ASSUME UploadFinish PROVE TypeOK'
  <2>1. status' \in Statuses /\ upload' = None
    BY <1>5 DEF UploadFinish, Statuses
  <2>2. registry' \in [state : States, length : Nat, backup_length : Nat]
    BY <1>5 DEF UploadFinish, TypeOK
  <2>3. task' = task \/ \E t \in Tasks :
          task' = [task EXCEPT ![t] = [NoTask EXCEPT !.pc = "length"]]
    BY <1>5 DEF UploadFinish
  <2>4. task' \in [Tasks -> [pc : {"none", "length", "copy", "commit", "reset"},
                             address : Nat, last : Addr]]
    <3>1. [NoTask EXCEPT !.pc = "length"]
            \in [pc : {"none", "length", "copy", "commit", "reset"},
                address : Nat, last : Addr]
      BY DEF NoTask, Addr
    <3>2. task \in [Tasks -> [pc : {"none", "length", "copy", "commit", "reset"},
                              address : Nat, last : Addr]]
      BY DEF TypeOK
    <3>. QED BY <2>3, <3>1, <3>2
  <2>5. /\ UNCHANGED <<flash, newApp, backup, pc, flash_address, address>>
        /\ UNCHANGED <<buffer, index, srec_ok, pos>>
    BY <1>5 DEF UploadFinish, cpu
  <2>. QED BY <2>1, <2>2, <2>4, <2>5 DEF TypeOK
<1>14. ASSUME UploadAborted PROVE TypeOK'
  BY <1>14 DEF UploadAborted, TypeOK, persistent, cpu
<1>6. ASSUME Keep PROVE TypeOK'
  BY <1>6 DEF Keep, TypeOK, cpu, receiver, Statuses, States
<1>7. ASSUME Reboot PROVE TypeOK'
  BY <1>7 DEF Reboot, TypeOK, persistent, receiver
<1>8. ASSUME NEW t \in Tasks, BackupTask(t) PROVE TypeOK'
  <2>1. CASE BackupLength(t)
    <3>1. PICK l \in Addr :
            /\ registry' = [registry EXCEPT !.backup_length = l + 1]
            /\ task' = [task EXCEPT
                          ![t] = [pc |-> "copy", address |-> 0, last |-> l]]
      BY <2>1 DEF BackupLength
    <3>2. registry' \in [state : States, length : Nat, backup_length : Nat]
      <4>1. registry \in [state : States, length : Nat, backup_length : Nat]
        BY DEF TypeOK
      <4>2. l + 1 \in Nat
        BY DEF Addr
      <4>. QED BY <3>1, <4>1, <4>2
    <3>3. task' \in [Tasks -> [pc : {"none", "length", "copy", "commit", "reset"},
                               address : Nat, last : Addr]]
      BY <3>1 DEF TypeOK
    <3>4. /\ UNCHANGED <<flash, newApp, backup, pc, flash_address, status>>
          /\ UNCHANGED <<address, buffer, index, srec_ok, upload, pos>>
      BY <2>1 DEF BackupLength, cpu, receiver
    <3>. QED BY <3>2, <3>3, <3>4 DEF TypeOK
  <2>2. CASE BackupCopy(t)
    <3> DEFINE a == task[t].address
               n == Min2(task[t].last + 1 - a, Page)
               data == [j \in 0 .. n - 1 |-> flash[a + j]]
    <3>1. n \in Int /\ a \in Nat /\ a + n \in Nat /\ task[t].last \in Addr
          /\ n <= task[t].last + 1 - a
      BY DEF Min2, TypeOK, Addr
    <3>2. backup' \in Area
      <4>1. CASE n \in Nat
        <5>1. ASSUME NEW j \in 0 .. n - 1 PROVE data[j] \in Byte
          <6>1. a + j \in Addr
            BY <3>1, <4>1 DEF Addr
          <6>. QED BY <6>1 DEF TypeOK, Area
        <5>. HIDE DEF data, n, a
        <5>2. EepromWrite(backup, a, data, n) \in Area
          BY <3>1, <4>1, <5>1, WriteType DEF TypeOK
        <5>. QED BY <5>2, <2>2 DEF BackupCopy, data, n, a
      <4>2. CASE n < 0
        <5>1. \A i \in Addr : EepromWrite(backup, a, data, n)[i]
                                 \in {Zero, backup[i]}
          BY <3>1, <4>2 DEF EepromWrite, Addr
        <5>2. EepromWrite(backup, a, data, n) \in Area
          BY <5>1 DEF Area, Byte, TypeOK, EepromWrite
        <5>. QED BY <5>2, <2>2 DEF BackupCopy
      <4>. QED BY <3>1, <4>1, <4>2
    <3>3. task' \in [Tasks -> [pc : {"none", "length", "copy", "commit", "reset"},
                               address : Nat, last : Addr]]
      BY <3>1, <2>2 DEF BackupCopy, TypeOK
    <3>. QED BY <2>2, <3>2, <3>3 DEF BackupCopy, TypeOK, cpu, receiver
  <2>3. CASE BackupCommit(t)
    BY <2>3 DEF BackupCommit, TypeOK, cpu, receiver, States
  <2>4. CASE BackupReset(t)
    BY <2>4 DEF BackupReset, TypeOK, persistent, receiver
  <2>. QED BY <1>8, <2>1, <2>2, <2>3, <2>4 DEF BackupTask
<1>9. ASSUME RamLost, pc' = "boot", flash' \in Area,
             UNCHANGED <<newApp, backup, registry>>
      PROVE  TypeOK'
  <2>1. buffer' \in [0 .. Page - 1 -> Byte]
    BY <1>9 DEF RamLost, Byte
  <2>2. task' \in [Tasks -> [pc : {"none", "length", "copy", "commit", "reset"},
                             address : Nat, last : Addr]]
    BY <1>9 DEF RamLost, NoTask, Addr
  <2>3. /\ status' \in Statuses /\ address' \in Nat /\ index' \in 0 .. Page
        /\ srec_ok' \in BOOLEAN /\ pos' \in Nat /\ flash_address' \in Nat
        /\ upload' \in Images \cup {None}
    <3>1. /\ status' = "idle" /\ address' = 0 /\ index' = 0
          /\ srec_ok' = FALSE /\ pos' = 0 /\ flash_address' = 0
          /\ upload' = None
      BY <1>9 DEF RamLost
    <3>2. index' \in 0 .. Page
      BY <3>1
    <3>3. status' \in Statuses /\ upload' \in Images \cup {None}
      BY <3>1 DEF Statuses
    <3>. QED BY <3>1, <3>2, <3>3
  <2>. QED BY <1>9, <2>1, <2>2, <2>3 DEF TypeOK
<1>10. CASE WatchdogReset
  BY <1>9, <1>10 DEF WatchdogReset, persistent, TypeOK
<1>11. CASE PowerLoss
  <2>1. flash' \in Area
    BY <1>11 DEF PowerLoss, TypeOK, Area, Byte
  <2>. QED BY <2>1, <1>9, <1>11 DEF PowerLoss
<1>12. CASE BootLoader
  <2>1. ASSUME NEW source \in Area, NEW length \in Nat, CopyPage(source, length)
        PROVE TypeOK'
    BY <2>1 DEF CopyPage, TypeOK, receiver, Min2, Area
  <2>2. ASSUME NEW length, NEW next \in States, CopyDone(length, next)
        PROVE TypeOK'
    BY <2>2 DEF CopyDone, TypeOK, receiver
  <2>3. CASE Boot
    BY <2>3 DEF Boot, TypeOK, persistent, receiver, States
  <2>4. CASE BootWithButton
    BY <2>4 DEF BootWithButton, TypeOK, receiver, States
  <2>5. CASE FlashPage \/ RestorePage
    BY <2>5, <2>1 DEF FlashPage, RestorePage, TypeOK
  <2>6. CASE FlashDone \/ RestoreDone
    BY <2>6, <2>2 DEF FlashDone, RestoreDone, States
  <2>7. CASE ApplicationStart
    BY <2>7 DEF ApplicationStart, TypeOK, persistent, receiver, Statuses
  <2>. QED BY <1>12, <2>3, <2>4, <2>5, <2>6, <2>7 DEF BootLoader
<1>13. CASE UNCHANGED vars
  BY <1>13 DEF vars, TypeOK, persistent, cpu, receiver
<1>. QED
  BY <1>1, <1>2, <1>3, <1>4, <1>5, <1>6, <1>7, <1>8, <1>10, <1>11, <1>12, <1>13,
     <1>14
  DEF Next, Server

LEMMA TypeInit == Init => TypeOK
<1> SUFFICES ASSUME Init PROVE TypeOK
  OBVIOUS
<1> USE LayoutAssumption
<1>1. flash \in Area /\ newApp \in Area /\ backup \in Area
  BY DEF Init, Area, Byte, Content
<1>2. registry \in [state : States, length : Nat, backup_length : Nat]
  BY DEF Init, States
<1>3. buffer \in [0 .. Page - 1 -> Byte]
  BY DEF Init, Byte
<1>4. task \in [Tasks -> [pc : {"none", "length", "copy", "commit", "reset"},
                          address : Nat, last : Addr]]
  BY DEF Init, NoTask, Addr
<1>5. /\ pc = "boot" /\ flash_address \in Nat /\ status \in Statuses
      /\ address \in Nat /\ index \in 0 .. Page /\ srec_ok \in BOOLEAN
      /\ upload \in Images \cup {None} /\ pos \in Nat
  <2>1. /\ pc = "boot" /\ flash_address = 0 /\ status = "idle"
        /\ address = 0 /\ index = 0 /\ srec_ok = FALSE
        /\ upload = None /\ pos = 0
    BY DEF Init
  <2>2. index \in 0 .. Page
    BY <2>1
  <2>3. status \in Statuses /\ upload \in Images \cup {None}
    BY <2>1 DEF Statuses
  <2>. QED BY <2>1, <2>2, <2>3
<1>. QED BY <1>1, <1>2, <1>3, <1>4, <1>5 DEF TypeOK

(* Every reachable state is well typed; in particular no line of a file    *)
(* indexes EEPROM_buffer past its EEPROM_PAGE_SIZE bytes                   *)
(* (firmware_update.c:169-182), whatever the user does.                    *)
THEOREM TypeCorrect == Spec => []TypeOK
BY TypeInit, TypeStep, PTL DEF Spec

-----------------------------------------------------------------------------
(* Lemmas about the areas.                                                 *)

(* Flushing the buffer extends what was received by what was buffered.     *)
LEMMA WriteReceived ==
  ASSUME NEW area \in Area, NEW x \in Images, NEW a \in Nat, NEW n \in Nat,
         NEW buf, Received(area, x, a), Buffered(buf, x, a, n)
  PROVE  Received(EepromWrite(area, a, buf, n), x, a + n)
<1> SUFFICES ASSUME NEW i \in Addr, i < a + n
             PROVE  EepromWrite(area, a, buf, n)[i] = Content(x, i)
  BY DEF Received
<1>1. i \in Nat
  BY DEF Addr
<1>2. CASE a <= i
  <2>1. i - a \in 0 .. n - 1 /\ a + (i - a) = i
    BY <1>1, <1>2
  <2>2. buf[i - a] = Content(x, a + (i - a))
    BY <2>1 DEF Buffered
  <2>. QED BY <1>2, <2>1, <2>2 DEF EepromWrite
<1>3. CASE i < a
  BY <1>1, <1>3 DEF EepromWrite, Received
<1>. QED BY <1>1, <1>2, <1>3

(* Filling a gap in which the file has no byte. *)
LEMMA FillReceived ==
  ASSUME NEW area \in Area, NEW x \in Images, NEW a \in Nat, NEW to \in Nat,
         Received(area, x, a),
         \A i \in Addr : a <= i /\ i < to => i \notin Data[x]
  PROVE  Received(EepromFill(area, a, to), x, to)
<1> SUFFICES ASSUME NEW i \in Addr, i < to
             PROVE  EepromFill(area, a, to)[i] = Content(x, i)
  BY DEF Received
<1>1. i \in Nat
  BY DEF Addr
<1>. QED BY <1>1 DEF EepromFill, Received, Content

LEMMA AppendBuffered ==
  ASSUME NEW buf \in [0 .. Page - 1 -> Byte], NEW x \in Images, NEW a \in Nat,
         NEW n \in 0 .. Page - 1, Buffered(buf, x, a, n)
  PROVE  Buffered([buf EXCEPT ![n] = Content(x, a + n)], x, a, n + 1)
BY LayoutAssumption DEF Buffered

LEMMA FirstBuffered ==
  ASSUME NEW buf \in [0 .. Page - 1 -> Byte], NEW x \in Images, NEW a \in Nat
  PROVE  Buffered([buf EXCEPT ![0] = Content(x, a)], x, a, 1)
BY LayoutAssumption DEF Buffered

LEMMA ReceivedHolds ==
  ASSUME NEW area, NEW x \in Images, Received(area, x, Len[x])
  PROVE  Holds(area, x)
BY LayoutAssumption, ImageAssumption DEF Received, Holds, Addr

LEMMA CoveredComplete ==
  ASSUME NEW area, NEW length, Covered(area, length)
  PROVE  Complete(area)
BY DEF Covered, Complete

(* A copy of at least the covered positions is a complete image. *)
LEMMA CopiedComplete ==
  ASSUME NEW to, NEW from, NEW length \in Nat, NEW n \in Nat, n >= length,
         Covered(from, length), Copied(to, from, n)
  PROVE  Complete(to)
<1>1. PICK x \in Images : Holds(from, x) /\ length >= Len[x]
  BY DEF Covered
<1>2. ASSUME NEW i \in 0 .. Len[x] - 1 PROVE to[i] = Content(x, i)
  <2>1. i \in Addr /\ i < n
    BY <1>1, LayoutAssumption, ImageAssumption DEF Addr
  <2>. QED BY <1>1, <2>1 DEF Copied, Holds
<1>. QED BY <1>2 DEF Complete, Holds

(* The backup of a complete image, up to its last used byte, covers it:    *)
(* an image ends in a byte of its own.                                     *)
LEMMA BackupCovered ==
  ASSUME NEW area, NEW copy, NEW l \in Addr, Complete(area),
         LastUsed(area, l), Copied(copy, area, l + 1)
  PROVE  Covered(copy, l + 1)
<1>1. PICK x \in Images : Holds(area, x)
  BY DEF Complete
<1>2. Len[x] \in 1 .. AreaSize /\ Len[x] - 1 \in Addr
  BY LayoutAssumption, ImageAssumption DEF Addr
<1>3. area[Len[x] - 1] = x
  BY <1>1, <1>2, ImageAssumption DEF Holds, Content
<1>4. x # Erased
  BY LayoutAssumption
<1>5. ~(Len[x] - 1 > l)
  BY <1>2, <1>3, <1>4 DEF LastUsed
<1>6. l + 1 >= Len[x]
  BY <1>2, <1>5 DEF Addr
<1>7. Holds(copy, x)
  BY <1>1, <1>2, <1>6, LayoutAssumption DEF Holds, Copied, Addr
<1>. QED BY <1>6, <1>7 DEF Covered

LEMMA WriteCopied ==
  ASSUME NEW to \in Area, NEW from \in Area, NEW a \in Nat, NEW n \in Nat,
         Copied(to, from, a)
  PROVE  Copied(EepromWrite(to, a, [j \in 0 .. n - 1 |-> from[a + j]], n),
                from, a + n)
<1> SUFFICES ASSUME NEW i \in Addr, i < a + n
             PROVE  EepromWrite(to, a, [j \in 0 .. n - 1 |-> from[a + j]], n)[i]
                      = from[i]
  BY DEF Copied
<1>1. i \in Nat
  BY DEF Addr
<1>2. CASE a <= i
  <2>1. i - a \in 0 .. n - 1 /\ a + (i - a) = i
    BY <1>1, <1>2
  <2>. QED BY <1>2, <2>1 DEF EepromWrite
<1>3. CASE i < a
  BY <1>1, <1>3 DEF EepromWrite, Copied
<1>. QED BY <1>1, <1>2, <1>3

-----------------------------------------------------------------------------
(* Safety.                                                                 *)

LEMMA InvInit == Init => IInv
<1> SUFFICES ASSUME Init PROVE IInv
  OBVIOUS
<1>1. Complete(flash)
  <2>1. PICK x \in Images :
          flash = [i \in Addr |-> IF i < Len[x] THEN Content(x, i) ELSE Erased]
    BY DEF Init
  <2>2. Holds(flash, x)
    BY <2>1, LayoutAssumption, ImageAssumption DEF Holds, Addr
  <2>. QED BY <2>2 DEF Complete
<1>2. /\ registry.state = "jump_to_application" /\ pc = "boot"
      /\ upload = None /\ status = "idle"
      /\ \A t \in Tasks : task[t].pc = "none"
  BY DEF Init, NoTask
<1>. QED
  BY <1>1, <1>2, TypeInit
     DEF IInv, StartsCompleteImage, RecoveryPoint, ReceivedSoFar, ReceivedAll,
         UploadState, TaskState, TaskOK, CopyState, StatusState, AsksOnlyOnTrial

(* The steps by which the server receives a file. *)
LEMMA ReceiveStep ==
  ASSUME IInv, TypeOK', StalePages = FALSE,
         \/ \E x \in Images : UploadStart(x)
         \/ \E p \in Addr, ok \in BOOLEAN : RecvData(p, ok)
         \/ RecvRefused
         \/ RecvTermination
         \/ UploadAborted
  PROVE  IInv'
<1> USE DEF IInv
<1>1. pc = "app" /\ UNCHANGED <<flash, backup, registry, pc, flash_address, task>>
  BY DEF UploadStart, RecvData, RecvRefused, RecvTermination, Receiving,
         UploadAborted, persistent, cpu, receiver
<1>2. /\ \A t \in Tasks : task[t].pc = "none"
      /\ registry.state = "jump_to_application"
      /\ status' \in {"idle", "failed"}
  <2>1. CASE upload # None
    <3>1. status \in {"idle", "failed"}
      BY <2>1 DEF UploadState
    <3>. QED
      BY <2>1, <3>1 DEF UploadState, UploadStart, RecvData, RecvRefused,
                        RecvTermination, UploadAborted
  <2>2. CASE upload = None
    <3>1. status \in {"idle", "failed"} /\ status' = "idle"
      BY <2>2 DEF UploadStart, Offered, RecvData, RecvRefused, RecvTermination,
                  UploadAborted, Receiving
    <3>2. registry.state = "jump_to_application"
      <4>1. registry.state \in States
        BY DEF TypeOK
      <4>. QED BY <1>1, <3>1, <4>1 DEF StatusState, AsksOnlyOnTrial, States
    <3>. QED BY <3>1, <3>2 DEF TaskState, TaskOK
  <2>. QED BY <2>1, <2>2
<1>3. StartsCompleteImage' /\ RecoveryPoint' /\ UploadState' /\ TaskState'
      /\ CopyState' /\ StatusState'
  BY <1>1, <1>2 DEF StartsCompleteImage, RecoveryPoint, UploadState, TaskState,
                    TaskOK, CopyState, StatusState, AsksOnlyOnTrial
<1>4. ReceivedSoFar' /\ ReceivedAll'
  <2>1. ASSUME NEW x \in Images, UploadStart(x) PROVE ReceivedSoFar' /\ ReceivedAll'
    <3>1. /\ upload' = x /\ pos' = 0 /\ address' = 0 /\ index' = 0
          /\ srec_ok' = FALSE
      BY <2>1 DEF UploadStart
    <3>2. Received(newApp', x, 0) /\ Buffered(buffer', x, 0, 0) /\ 0 <= Len[x]
      BY ImageAssumption, LayoutAssumption DEF Received, Buffered, Addr
    <3>. QED BY <3>1, <3>2 DEF ReceivedSoFar, ReceivedAll
  <2>2. ASSUME NEW p \in Addr, NEW ok \in BOOLEAN, RecvData(p, ok)
        PROVE  ReceivedSoFar' /\ ReceivedAll'
    <3>1. /\ upload \in Images /\ upload' = upload /\ status # "failed"
          /\ srec_ok' = srec_ok /\ pos' = p + 1
          /\ p \in Data[upload] /\ p >= pos /\ p \in Nat /\ p < Len[upload]
          /\ Len[upload] \in Nat
      BY <2>2, LayoutAssumption, ImageAssumption DEF RecvData, Receiving, TypeOK, Addr
    <3>2. srec_ok = FALSE
      BY <3>1, LayoutAssumption DEF ReceivedAll, TypeOK
    <3>3. ASSUME ok = TRUE
          PROVE  ReceivedSoFar'
      <4>1. /\ address \in Nat /\ index \in 0 .. Page /\ pos = address + index
            /\ newApp \in Area /\ buffer \in [0 .. Page - 1 -> Byte]
            /\ Received(newApp, upload, address)
            /\ Buffered(buffer, upload, address, index)
            /\ index \in Nat /\ Page \in Nat \ {0}
        BY <3>1, LayoutAssumption DEF ReceivedSoFar, TypeOK
      <4>2. Content(upload, p) = upload
        BY <3>1 DEF Content
      <4>3. CASE p > address + index
        <5>1. /\ newApp' = EepromFill(Flushed, address + index, p)
              /\ address' = p /\ index' = 1
              /\ buffer' = [buffer EXCEPT ![0] = upload]
          BY <2>2, <4>3, <3>3 DEF RecvData
        <5>2. Flushed \in Area /\ Received(Flushed, upload, address + index)
          BY <4>1, <3>1, WriteReceived, FlushType DEF Flushed
        <5>3. \A i \in Addr : address + index <= i /\ i < p => i \notin Data[upload]
          BY <2>2, <4>1 DEF RecvData, Addr
        <5>4. Received(newApp', upload, p)
          BY <5>1, <5>2, <5>3, <4>1, <3>1, FillReceived
        <5>5. Buffered(buffer', upload, p, 1)
          BY <5>1, <4>1, <4>2, <3>1, FirstBuffered
        <5>. QED BY <5>1, <5>4, <5>5, <3>1 DEF ReceivedSoFar
      <4>4. CASE ~(p > address + index)
        <5>1. p = address + index /\ Append1(newApp, address, index, upload)
          BY <2>2, <4>1, <4>4, <3>1, <3>3 DEF RecvData
        <5>2. CASE index < Page
          <6>1. /\ buffer' = [buffer EXCEPT ![index] = upload]
                /\ newApp' = newApp /\ address' = address /\ index' = index + 1
            BY <5>1, <5>2 DEF Append1
          <6>2. index \in 0 .. Page - 1
            BY <4>1, <5>2
          <6>3. Buffered(buffer', upload, address, index + 1)
            BY <6>1, <6>2, <4>1, <4>2, <3>1, <5>1, AppendBuffered
          <6>. QED BY <6>1, <6>3, <4>1, <3>1, <5>1 DEF ReceivedSoFar
        <5>3. CASE ~(index < Page)
          <6>1. /\ newApp' = EepromWrite(newApp, address, buffer, index)
                /\ address' = address + index
                /\ buffer' = [buffer EXCEPT ![0] = upload] /\ index' = 1
            BY <5>1, <5>3 DEF Append1
          <6>2. Received(newApp', upload, address + index)
            BY <6>1, <4>1, <3>1, WriteReceived
          <6>3. Buffered(buffer', upload, address + index, 1)
            BY <6>1, <4>1, <4>2, <3>1, <5>1, FirstBuffered
          <6>. QED BY <6>1, <6>2, <6>3, <4>1, <3>1, <5>1 DEF ReceivedSoFar
        <5>. QED BY <5>2, <5>3
      <4>. QED BY <4>3, <4>4, <4>1, <3>1
    <3>4. ok = FALSE => status' = "failed"
      BY <2>2 DEF RecvData
    <3>. QED BY <3>1, <3>2, <3>3, <3>4 DEF ReceivedSoFar, ReceivedAll
  <2>3. CASE RecvRefused
    BY <2>3 DEF RecvRefused, ReceivedSoFar, ReceivedAll, receiver, persistent
  <2>4. CASE RecvTermination
    <3>1. /\ upload \in Images /\ upload' = upload /\ status # "failed"
          /\ pos = Len[upload] /\ pos' = pos /\ newApp' = Flushed
          /\ address' = address + index /\ index' = 0 /\ status' = status
      BY <2>4 DEF RecvTermination, Receiving, TypeOK
    <3>2. /\ address \in Nat /\ index \in Nat /\ pos = address + index
          /\ newApp \in Area /\ Received(newApp, upload, address)
          /\ Buffered(buffer, upload, address, index) /\ pos <= Len[upload]
      BY <3>1, LayoutAssumption DEF ReceivedSoFar, TypeOK
    <3>3. Received(newApp', upload, address + index)
      BY <3>1, <3>2, WriteReceived DEF Flushed
    <3>4. Holds(newApp', upload)
      BY <3>1, <3>2, <3>3, ReceivedHolds
    <3>5. Buffered(buffer', upload, address', 0)
      BY DEF Buffered
    <3>. QED BY <3>1, <3>2, <3>3, <3>4, <3>5 DEF ReceivedSoFar, ReceivedAll
  <2>5. CASE UploadAborted
    BY <2>5 DEF UploadAborted, ReceivedSoFar, ReceivedAll
  <2>. QED BY <2>1, <2>2, <2>3, <2>4, <2>5
<1>. QED BY <1>3, <1>4

(* The end of a post commits the device only to a complete file. *)
LEMMA FinishStep ==
  ASSUME IInv, TypeOK', StalePages = FALSE, UploadFinish
  PROVE  IInv'
<1> USE DEF IInv
<1>1. /\ pc = "app" /\ upload \in Images /\ upload' = None
      /\ UNCHANGED <<flash, newApp, backup, pc, flash_address, address>>
      /\ registry.state = "jump_to_application"
      /\ \A t \in Tasks : task[t].pc = "none"
      /\ Complete(flash)
  BY DEF UploadFinish, UploadState, TypeOK, cpu, StartsCompleteImage
<1>2. CASE ~srec_ok
  <2>1. status' = "failed" /\ registry' = registry /\ task' = task
    BY <1>2 DEF UploadFinish
  <2>. QED
    BY <1>1, <2>1
       DEF StartsCompleteImage, RecoveryPoint, ReceivedSoFar, ReceivedAll,
           UploadState, TaskState, TaskOK, CopyState, StatusState, AsksOnlyOnTrial
<1>3. CASE srec_ok
  <2>1. /\ status' = "successful_rebooting"
        /\ registry' = [registry EXCEPT !.length = address]
        /\ \/ \E t \in Tasks :
                 task' = [task EXCEPT ![t] = [NoTask EXCEPT !.pc = "length"]]
           \/ task' = task
    BY <1>3 DEF UploadFinish
  <2>2. registry \in [state : States, length : Nat, backup_length : Nat]
    BY DEF TypeOK
  <2>3. /\ registry'.state = "jump_to_application"
        /\ registry'.length = address
    BY <1>1, <2>1, <2>2
  <2>4. Covered(newApp', registry'.length)
    <3>1. Holds(newApp, upload) /\ address = Len[upload] /\ Len[upload] \in Nat
      BY <1>1, <1>3, LayoutAssumption, ImageAssumption DEF ReceivedAll, TypeOK
    <3>. QED BY <1>1, <2>3, <3>1 DEF Covered
  <2>5. TaskState'
    <3>1. CASE task' = task
      BY <1>1, <3>1 DEF TaskState, TaskOK
    <3>2. ASSUME NEW t \in Tasks,
                 task' = [task EXCEPT ![t] = [NoTask EXCEPT !.pc = "length"]]
          PROVE  TaskState'
      <4>1. task'[t].pc = "length" /\ \A u \in Tasks : u # t => task'[u].pc = "none"
        BY <1>1, <3>2 DEF NoTask, TypeOK
      <4>. QED BY <1>1, <2>1, <2>3, <2>4, <4>1 DEF TaskState, TaskOK
    <3>. QED BY <2>1, <3>1, <3>2
  <2>. QED
    BY <1>1, <2>1, <2>3, <2>5
       DEF StartsCompleteImage, RecoveryPoint, ReceivedSoFar, ReceivedAll,
           UploadState, CopyState, StatusState, AsksOnlyOnTrial
<1>. QED BY <1>2, <1>3

(* The other forms of the page.  Keep is offered during a trial only. *)
LEMMA FormStep ==
  ASSUME IInv, TypeOK', StalePages = FALSE, Keep \/ Reboot
  PROVE  IInv'
<1> USE DEF IInv
<1>1. CASE Keep
  <2>1. /\ pc = "app" /\ status = "ask_user_to_keep" /\ status' = "idle"
        /\ UNCHANGED <<flash, newApp, backup, pc, flash_address, task>>
        /\ UNCHANGED <<upload, srec_ok, address, index, pos, buffer>>
        /\ registry' = [registry EXCEPT !.state = "jump_to_application"]
    BY <1>1 DEF Keep, Offered, cpu, receiver
  <2>2. registry'.state = "jump_to_application"
    BY <2>1 DEF TypeOK
  <2>3. upload = None /\ \A t \in Tasks : task[t].pc = "none"
    BY <2>1 DEF UploadState, TaskState, TaskOK
  <2>. QED
    BY <2>1, <2>2, <2>3
       DEF StartsCompleteImage, RecoveryPoint, ReceivedSoFar, ReceivedAll,
           UploadState, TaskState, TaskOK, CopyState, StatusState, AsksOnlyOnTrial
<1>2. CASE Reboot
  <2>1. /\ pc = "app" /\ pc' = "hang" /\ UNCHANGED <<status, task>>
        /\ UNCHANGED <<flash, newApp, backup, registry, flash_address>>
        /\ UNCHANGED <<upload, srec_ok, address, index, pos, buffer>>
    BY <1>2 DEF Reboot, persistent, receiver
  <2>. QED
    BY <2>1
       DEF StartsCompleteImage, RecoveryPoint, ReceivedSoFar, ReceivedAll,
           UploadState, TaskState, TaskOK, CopyState, StatusState, AsksOnlyOnTrial
<1>. QED BY <1>1, <1>2

(* The backup is covered before the registry says that there is one. *)
LEMMA BackupStep ==
  ASSUME IInv, TypeOK', StalePages = FALSE, NEW t \in Tasks, BackupTask(t)
  PROVE  IInv'
<1> USE DEF IInv
<1>1. /\ pc = "app" /\ task[t].pc # "none" /\ Complete(flash)
      /\ UNCHANGED <<flash, newApp, flash_address, status>>
      /\ UNCHANGED <<upload, srec_ok, address, index, pos, buffer>>
  BY DEF BackupTask, BackupLength, BackupCopy, BackupCommit, BackupReset,
         StartsCompleteImage, cpu, persistent, receiver
<1>2. /\ TaskOK(t) /\ upload = None /\ status = "successful_rebooting"
      /\ Covered(newApp, registry.length)
      /\ \A u \in Tasks : u # t => task[u].pc = "none"
  BY <1>1 DEF TaskState, TaskOK, UploadState
<1>3. registry \in [state : States, length : Nat, backup_length : Nat]
      /\ task \in [Tasks -> [pc : {"none", "length", "copy", "commit", "reset"},
                             address : Nat, last : Addr]]
  BY DEF TypeOK
<1>4. /\ registry'.length = registry.length
      /\ \A u \in Tasks : u # t => task'[u] = task[u]
  BY <1>3 DEF BackupTask, BackupLength, BackupCopy, BackupCommit, BackupReset,
              persistent
<1>5. ASSUME TaskOK(t)', pc' \in {"app", "hang"},
             registry'.state # "restore_backup",
             registry'.state = "flash_new_application" =>
               Covered(backup', registry'.backup_length)
      PROVE  IInv'
  <2>1. TaskState'
    BY <1>2, <1>4, <1>5 DEF TaskState, TaskOK
  <2>2. RecoveryPoint'
    <3>1. registry'.state \in States
      BY DEF TypeOK
    <3>. QED BY <1>1, <1>2, <1>4, <1>5, <3>1 DEF RecoveryPoint, States
  <2>. QED
    BY <1>1, <1>2, <1>5, <2>1, <2>2
       DEF StartsCompleteImage, ReceivedSoFar, ReceivedAll, UploadState,
           CopyState, StatusState, AsksOnlyOnTrial
<1>6. CASE BackupLength(t)
  <2>1. PICK l \in Addr :
          /\ LastUsed(flash, l)
          /\ registry' = [registry EXCEPT !.backup_length = l + 1]
          /\ task' = [task EXCEPT ![t] = [pc |-> "copy", address |-> 0, last |-> l]]
          /\ pc' = pc /\ task[t].pc = "length"
    BY <1>6 DEF BackupLength, cpu
  <2>2. /\ registry'.backup_length = l + 1
        /\ registry'.state = "jump_to_application"
        /\ task'[t] = [pc |-> "copy", address |-> 0, last |-> l]
    BY <1>1, <1>2, <1>3, <2>1 DEF TaskOK
  <2>3. Copied(backup', flash', 0) /\ 0 <= l + 1
    BY LayoutAssumption DEF Copied, Addr
  <2>4. TaskOK(t)'
    BY <1>1, <1>2, <1>4, <2>1, <2>2, <2>3 DEF TaskOK
  <2>. QED BY <1>1, <1>5, <2>1, <2>2, <2>4
<1>7. CASE BackupCopy(t)
  <2> DEFINE a == task[t].address
             l == task[t].last
             n == Min2(l + 1 - a, Page)
  <2>1. /\ task[t].pc = "copy" /\ registry.state = "jump_to_application"
        /\ LastUsed(flash, l) /\ registry.backup_length = l + 1
        /\ a <= l + 1 /\ Copied(backup, flash, a)
    BY <1>1, <1>2, <1>7 DEF BackupCopy, TaskOK
  <2>2. a \in Nat /\ l \in Nat /\ n \in Nat /\ a + n <= l + 1
    BY <1>3, <2>1, LayoutAssumption DEF Min2, Addr
  <2>3. /\ backup' = EepromWrite(backup, a, [j \in 0 .. n - 1 |-> flash[a + j]], n)
        /\ registry' = registry /\ pc' = pc
        /\ task' = [task EXCEPT ![t].address = a + n,
                                ![t].pc = IF a + n = l + 1 THEN "commit" ELSE "copy"]
    BY <1>7 DEF BackupCopy, cpu
  <2>4. Copied(backup', flash', a + n)
    <3>1. flash \in Area /\ backup \in Area
      BY DEF TypeOK
    <3>2. Copied(EepromWrite(backup, a, [j \in 0 .. n - 1 |-> flash[a + j]], n),
                 flash, a + n)
      BY <2>1, <2>2, <3>1, WriteCopied
    <3>. QED BY <1>1, <2>3, <3>2
  <2> HIDE DEF a, l, n
  <2>5. /\ task'[t].address = a + n /\ task'[t].last = l
        /\ task'[t].pc = IF a + n = l + 1 THEN "commit" ELSE "copy"
    BY <1>3, <2>3 DEF l
  <2>6. TaskOK(t)'
    <3>1. LastUsed(flash', task'[t].last) /\ Copied(backup', flash', task'[t].address)
      BY <1>1, <2>1, <2>4, <2>5 DEF l
    <3>2. /\ registry'.backup_length = task'[t].last + 1
          /\ task'[t].address <= task'[t].last + 1
          /\ task'[t].pc = "commit" => task'[t].address = task'[t].last + 1
          /\ task'[t].pc \in {"copy", "commit"}
      BY <2>1, <2>2, <2>3, <2>5 DEF l
    <3>. QED BY <1>1, <1>2, <1>4, <2>1, <2>3, <3>1, <3>2 DEF TaskOK
  <2>. QED BY <1>1, <1>5, <2>1, <2>3, <2>6
<1>8. CASE BackupCommit(t)
  <2>1. /\ task[t].pc = "commit" /\ backup' = backup /\ pc' = pc
        /\ registry' = [registry EXCEPT !.state = "flash_new_application"]
        /\ task' = [task EXCEPT ![t].pc = "reset"]
    BY <1>8 DEF BackupCommit, cpu
  <2>2. /\ LastUsed(flash, task[t].last)
        /\ registry.backup_length = task[t].last + 1
        /\ Copied(backup, flash, task[t].last + 1)
        /\ task[t].last \in Addr
    BY <1>1, <1>2, <1>3, <2>1 DEF TaskOK
  <2>3. Covered(backup, registry.backup_length)
    BY <1>1, <2>2, BackupCovered
  <2>4. /\ registry'.state = "flash_new_application"
        /\ registry'.backup_length = registry.backup_length
        /\ task'[t].pc = "reset"
    BY <1>3, <2>1
  <2>5. TaskOK(t)'
    BY <1>1, <1>2, <1>4, <2>1, <2>4 DEF TaskOK
  <2>. QED BY <1>1, <1>5, <2>1, <2>3, <2>4, <2>5
<1>9. CASE BackupReset(t)
  <2>1. /\ task[t].pc = "reset" /\ pc' = "hang"
        /\ UNCHANGED <<backup, registry, task>>
    BY <1>9 DEF BackupReset, persistent
  <2>2. registry.state = "flash_new_application"
    BY <1>1, <1>2, <2>1 DEF TaskOK
  <2>3. Covered(backup, registry.backup_length)
    BY <2>2 DEF RecoveryPoint
  <2>4. TaskOK(t)'
    BY <1>1, <1>2, <1>4, <2>1, <2>2 DEF TaskOK
  <2>. QED BY <1>5, <2>1, <2>2, <2>3, <2>4
<1>. QED BY <1>6, <1>7, <1>8, <1>9 DEF BackupTask

(* A reset, at whatever step, loses nothing the boot loader needs. *)
LEMMA ResetStep ==
  ASSUME IInv, TypeOK', WatchdogReset \/ PowerLoss
  PROVE  IInv'
<1> USE DEF IInv
<1>1. /\ pc' = "boot" /\ upload' = None
      /\ UNCHANGED <<newApp, backup, registry>>
      /\ \A t \in Tasks : task'[t].pc = "none"
  BY DEF WatchdogReset, PowerLoss, RamLost, persistent, NoTask
<1>2. registry.state = "jump_to_application" => Complete(flash')
  <2>1. CASE flash' = flash
    BY <2>1 DEF RecoveryPoint
  <2>2. CASE pc \in {"flash", "restore"}
    BY <2>2 DEF CopyState
  <2>. QED BY <2>1, <2>2 DEF WatchdogReset, PowerLoss, persistent
<1>. QED
  BY <1>1, <1>2
     DEF StartsCompleteImage, RecoveryPoint, ReceivedSoFar, ReceivedAll,
         UploadState, TaskState, TaskOK, CopyState, StatusState, AsksOnlyOnTrial

(* A loop of the boot loader ends with a complete copy. *)
LEMMA BootStep ==
  ASSUME IInv, TypeOK', ButtonOnlyAtRest, BootLoader
  PROVE  IInv'
<1> USE DEF IInv
<1>1. /\ UNCHANGED <<newApp, backup, task, upload>> /\ pc \notin {"app", "hang"}
      /\ upload = None /\ \A t \in Tasks : task[t].pc = "none"
  BY DEF BootLoader, Boot, BootWithButton, FlashPage, FlashDone, RestorePage,
         RestoreDone, CopyPage, CopyDone, ApplicationStart, persistent, receiver,
         UploadState, TaskState, TaskOK
<1>2. registry \in [state : States, length : Nat, backup_length : Nat]
      /\ flash_address \in Nat /\ flash \in Area
  BY DEF TypeOK
<1>3. ASSUME StartsCompleteImage', RecoveryPoint', CopyState', StatusState'
      PROVE  IInv'
  BY <1>1, <1>3 DEF ReceivedSoFar, ReceivedAll, UploadState, TaskState, TaskOK
<1>4. CASE Boot
  <2>1. /\ UNCHANGED <<flash, registry, status>> /\ flash_address' = 0
        /\ pc' = CASE registry.state = "jump_to_application"   -> "jump"
                   [] registry.state = "flash_new_application" -> "flash"
                   [] registry.state = "restore_backup"        -> "restore"
    BY <1>4 DEF Boot, persistent
  <2>2. Copied(flash', newApp', 0) /\ Copied(flash', backup', 0)
    BY DEF Copied, Addr
  <2>3. registry.state \in States
    BY <1>2
  <2>4. CASE registry.state = "jump_to_application"
    BY <1>1, <1>3, <2>1, <2>4 DEF StartsCompleteImage, RecoveryPoint, CopyState,
                                  StatusState, AsksOnlyOnTrial
  <2>5. CASE registry.state = "flash_new_application"
    BY <1>1, <1>3, <2>1, <2>2, <2>5
       DEF StartsCompleteImage, RecoveryPoint, CopyState, StatusState, AsksOnlyOnTrial
  <2>6. CASE registry.state = "restore_backup"
    BY <1>1, <1>3, <2>1, <2>2, <2>6
       DEF StartsCompleteImage, RecoveryPoint, CopyState, StatusState, AsksOnlyOnTrial
  <2>. QED BY <2>3, <2>4, <2>5, <2>6 DEF States
<1>5. CASE BootWithButton
  <2>1. /\ flash' = flash /\ pc' = "jump" /\ status' = status
        /\ registry.state = "jump_to_application"
        /\ registry'.state = "jump_to_application"
    BY <1>5 DEF BootWithButton, ButtonOnlyAtRest
  <2>. QED BY <1>1, <1>3, <2>1 DEF StartsCompleteImage, RecoveryPoint, CopyState,
                                  StatusState, AsksOnlyOnTrial
<1>6. ASSUME NEW source \in Area, NEW length \in Nat, CopyPage(source, length),
             Copied(flash, source, flash_address)
      PROVE  Copied(flash', source, flash_address')
  <2> DEFINE n == Min2(length - flash_address + 1, Page)
  <2>1. /\ flash' = [i \in Addr |-> IF flash_address <= i /\ i < flash_address + n
                                    THEN source[i] ELSE flash[i]]
        /\ flash_address' = flash_address + n
    BY <1>6 DEF CopyPage
  <2>2. n \in Int
    BY <1>2, LayoutAssumption DEF Min2
  <2> HIDE DEF n
  <2>. QED BY <1>2, <1>6, <2>1, <2>2 DEF Copied, Addr
<1>7. CASE FlashPage \/ RestorePage
  <2>1. UNCHANGED <<registry, pc, status>> /\ pc \in {"flash", "restore"}
    BY <1>7 DEF FlashPage, RestorePage, CopyPage
  <2>2. CopyState'
    <3>1. newApp \in Area /\ backup \in Area
          /\ registry.length \in Nat /\ registry.backup_length \in Nat
      BY <1>2 DEF TypeOK
    <3>2. CASE FlashPage
      <4>1. pc = "flash" /\ CopyPage(newApp, registry.length)
        BY <3>2 DEF FlashPage
      <4>2. Copied(flash', newApp, flash_address')
        BY <1>6, <3>1, <4>1 DEF CopyState
      <4>. QED BY <1>1, <2>1, <4>1, <4>2 DEF CopyState
    <3>3. CASE RestorePage
      <4>1. pc = "restore" /\ CopyPage(backup, registry.backup_length)
        BY <3>3 DEF RestorePage
      <4>2. Copied(flash', backup, flash_address')
        BY <1>6, <3>1, <4>1 DEF CopyState
      <4>. QED BY <1>1, <2>1, <4>1, <4>2 DEF CopyState
    <3>. QED BY <1>7, <3>2, <3>3
  <2>3. registry.state # "jump_to_application"
    BY <2>1 DEF CopyState
  <2>. QED BY <1>1, <1>3, <2>1, <2>2, <2>3
              DEF StartsCompleteImage, RecoveryPoint, StatusState, AsksOnlyOnTrial
<1>8. CASE FlashDone
  <2>1. /\ pc = "flash" /\ flash_address >= registry.length /\ pc' = "jump"
        /\ flash' = flash /\ status' = status
        /\ registry' = [registry EXCEPT !.state = "restore_backup"]
    BY <1>8 DEF FlashDone, CopyDone
  <2>2. /\ Covered(newApp, registry.length) /\ Copied(flash, newApp, flash_address)
        /\ Covered(backup, registry.backup_length)
    BY <2>1 DEF CopyState, RecoveryPoint
  <2>3. Complete(flash)
    BY <1>2, <2>1, <2>2, CopiedComplete
  <2>4. /\ registry'.state = "restore_backup"
        /\ registry'.backup_length = registry.backup_length
    BY <1>2, <2>1
  <2>. QED BY <1>1, <1>3, <2>1, <2>2, <2>3, <2>4
              DEF StartsCompleteImage, RecoveryPoint, CopyState, StatusState,
                  AsksOnlyOnTrial
<1>9. CASE RestoreDone
  <2>1. /\ pc = "restore" /\ flash_address >= registry.backup_length /\ pc' = "jump"
        /\ flash' = flash /\ status' = status
        /\ registry' = [registry EXCEPT !.state = "jump_to_application"]
    BY <1>9 DEF RestoreDone, CopyDone
  <2>2. /\ Covered(backup, registry.backup_length)
        /\ Copied(flash, backup, flash_address)
    BY <2>1 DEF CopyState, RecoveryPoint
  <2>3. Complete(flash)
    BY <1>2, <2>1, <2>2, CopiedComplete
  <2>4. registry'.state = "jump_to_application"
    BY <1>2, <2>1
  <2>. QED BY <1>1, <1>3, <2>1, <2>3, <2>4
              DEF StartsCompleteImage, RecoveryPoint, CopyState, StatusState,
                  AsksOnlyOnTrial
<1>10. CASE ApplicationStart
  <2>1. /\ pc = "jump" /\ pc' = "app" /\ UNCHANGED <<flash, registry>>
        /\ status' = IF registry.state = "restore_backup"
                     THEN "ask_user_to_keep" ELSE "idle"
    BY <1>10 DEF ApplicationStart, persistent
  <2>. QED BY <1>1, <1>3, <2>1
              DEF StartsCompleteImage, RecoveryPoint, CopyState, StatusState,
                  AsksOnlyOnTrial
<1>. QED BY <1>4, <1>5, <1>7, <1>8, <1>9, <1>10 DEF BootLoader

LEMMA InvStep == StalePages = FALSE /\ ButtonOnlyAtRest /\ IInv /\ [Next]_vars => IInv'
<1> SUFFICES ASSUME StalePages = FALSE, ButtonOnlyAtRest, IInv, [Next]_vars PROVE IInv'
  OBVIOUS
<1>1. TypeOK'
  BY TypeStep DEF IInv
<1>2. CASE Server
  BY <1>1, <1>2, ReceiveStep, FinishStep, FormStep DEF Server
<1>3. CASE \E t \in Tasks : BackupTask(t)
  BY <1>1, <1>3, BackupStep
<1>4. CASE WatchdogReset \/ PowerLoss
  BY <1>1, <1>4, ResetStep
<1>5. CASE BootLoader
  BY <1>1, <1>5, BootStep
<1>6. CASE UNCHANGED vars
  <2>1. /\ UNCHANGED <<flash, newApp, backup, registry, pc, flash_address>>
        /\ UNCHANGED <<status, task, upload, srec_ok, address, index, pos, buffer>>
    BY <1>6 DEF vars, persistent, cpu, receiver
  <2>. QED
    BY <1>1, <2>1
       DEF IInv, StartsCompleteImage, RecoveryPoint, ReceivedSoFar, ReceivedAll,
           UploadState, TaskState, TaskOK, CopyState, StatusState, AsksOnlyOnTrial
<1>. QED BY <1>2, <1>3, <1>4, <1>5, <1>6 DEF Next

(* If users submit only the forms the page offers (StalePages), and hold   *)
(* PB0 at a start only when the registry says jump_to_application, so not  *)
(* between the commit of an upload and the end of its trial or restore     *)
(* (ButtonOnlyAtRest; the code allows it, main.c:36): whatever image is    *)
(* uploaded, wherever a post is broken off and whenever the supply fails,  *)
(* the boot loader starts nothing but a complete image                     *)
(* (Bootloader/src/main.c:50, 71, 92).                                     *)
THEOREM BootSafety ==
  ASSUME StalePages = FALSE, ButtonOnlyAtRest
  PROVE  Spec => []StartsCompleteImage
<1>1. IInv /\ [Next]_vars => IInv'
  BY InvStep
<1>2. IInv => StartsCompleteImage
  BY DEF IInv
<1>. QED BY InvInit, <1>1, <1>2, PTL DEF Spec

(* Under the same two assumptions on forms and button:                     *)
(* at every moment the copy that the next start needs is complete,         *)
(* and so is, from the commit to the end of the trial, the backup.         *)
THEOREM AlwaysRecoverable ==
  ASSUME StalePages = FALSE, ButtonOnlyAtRest
  PROVE  Spec => []RecoveryPoint
<1>1. IInv /\ [Next]_vars => IInv'
  BY InvStep
<1>2. IInv => RecoveryPoint
  BY DEF IInv
<1>. QED BY InvInit, <1>1, <1>2, PTL DEF Spec

(* Under the same two assumptions on forms and button:                     *)
(* the page asks whether to keep an image exactly while a reset            *)
(* would take it away (firmware_update.c:270-274).                         *)
THEOREM AsksTruthfully ==
  ASSUME StalePages = FALSE, ButtonOnlyAtRest
  PROVE  Spec => []AsksOnlyOnTrial
<1>1. IInv /\ [Next]_vars => IInv'
  BY InvStep
<1>2. IInv => AsksOnlyOnTrial
  BY DEF IInv, StatusState
<1>. QED BY InvInit, <1>1, <1>2, PTL DEF Spec

-----------------------------------------------------------------------------
(* FirmwareUpdate implements TrialUpdate.                                  *)
(*                                                                         *)
(* An area that holds an image holds one only, because each has a byte of  *)
(* its own at its start; so a copy that agrees with its source there holds *)
(* the same one.  That the copies are complete is the invariant above.     *)

(* What an area holds is told by its first byte. *)
LEMMA ImageInHolds ==
  ASSUME NEW area, NEW x \in Images, Holds(area, x)
  PROVE  ImageIn(area) = x /\ area[0] = x
<1>1. ASSUME NEW y \in Images, Holds(area, y)
      PROVE  area[0] = y
  <2>1. Len[y] \in 1 .. AreaSize /\ 0 \in Data[y]
    BY <1>1, ImageAssumption
  <2>2. 0 \in 0 .. Len[y] - 1
    BY <2>1, LayoutAssumption
  <2> QED
    BY <1>1, <2>1, <2>2 DEF Holds, Content
<1>2. (CHOOSE y \in Images : Holds(area, y)) = x
  BY <1>1
<1> QED
  BY <1>1, <1>2 DEF ImageIn, Complete

LEMMA ImageInComplete ==
  ASSUME NEW area, Complete(area)
  PROVE  ImageIn(area) \in Images /\ ImageIn(area) = area[0]
BY ImageInHolds DEF Complete

(* A copy of an image is that image. *)
LEMMA SameImage ==
  ASSUME NEW to, NEW from, NEW n \in Nat, n > 0, Copied(to, from, n),
         Complete(to), Complete(from)
  PROVE  ImageIn(to) = ImageIn(from)
<1>1. 0 \in Addr
  BY LayoutAssumption DEF Addr
<1> QED
  BY <1>1, ImageInComplete DEF Copied

LEMMA CoveredLength ==
  ASSUME NEW area, NEW length \in Nat, Covered(area, length)
  PROVE  length > 0
BY LayoutAssumption, ImageAssumption DEF Covered

-----------------------------------------------------------------------------
(* The steps, in terms of the three variables of the promise.              *)

Stutters ==
  Running' = Running /\ NextStart' = NextStart /\ StartAfter' = StartAfter
Stops ==
  Running' = None /\ NextStart' = NextStart /\ StartAfter' = StartAfter
Starts ==
  /\ Running = None /\ Running' = NextStart
  /\ NextStart' = StartAfter /\ StartAfter' = StartAfter
Stages ==
  /\ Running \in Images /\ NextStart = Running /\ StartAfter = Running
  /\ NextStart' \in Images /\ Running' = Running /\ StartAfter' = StartAfter
Keeps ==
  /\ Running \in Images /\ Running' = Running
  /\ NextStart' = Running /\ StartAfter' = Running

Kept == Stutters \/ Stops \/ Starts \/ Stages \/ Keeps

(* A step that leaves what runs and what the registry points at.           *)
LEMMA StutterStep ==
  ASSUME registry'.state = registry.state, pc' = pc, flash' = flash,
         registry.state = "jump_to_application" \/ UNCHANGED <<newApp, backup>>
  PROVE  Stutters
BY DEF Stutters, Running, NextStart, StartAfter, ImageIn, Complete, Holds

(* An upload goes on while the running image is confirmed.                 *)
LEMMA ServerStep ==
  ASSUME IInv, StalePages = FALSE, Server
  PROVE  Kept
<1> USE DEF IInv
<1>1. CASE \/ \E x \in Images : UploadStart(x)
           \/ \E p \in Addr, ok \in BOOLEAN : RecvData(p, ok)
           \/ RecvRefused \/ RecvTermination \/ UploadFinish \/ UploadAborted
  <2>1. /\ pc = "app" /\ pc' = pc /\ flash' = flash
        /\ registry' = registry \/ registry' = [registry EXCEPT !.length = address]
    BY <1>1 DEF UploadStart, RecvData, RecvRefused, RecvTermination, Receiving,
                UploadFinish, UploadAborted, persistent, cpu
  <2>2. registry'.state = registry.state
    BY <2>1 DEF TypeOK
  <2>3. registry.state = "jump_to_application"
    <3>1. CASE upload # None
      BY <3>1 DEF UploadState
    <3>2. CASE upload = None
      <4>1. status \in {"idle", "failed"} /\ registry.state \in States
        BY <1>1, <3>2
           DEF UploadStart, Offered, RecvData, RecvRefused, RecvTermination,
               UploadFinish, UploadAborted, Receiving, TypeOK
      <4> QED
        BY <2>1, <4>1 DEF StatusState, AsksOnlyOnTrial, States
    <3> QED
      BY <3>1, <3>2
  <2> QED
    BY <2>1, <2>2, <2>3, StutterStep DEF Kept
<1>2. CASE Keep
  <2>1. /\ pc = "app" /\ pc' = pc /\ flash' = flash
        /\ registry' = [registry EXCEPT !.state = "jump_to_application"]
    BY <1>2 DEF Keep, cpu
  <2>2. registry'.state = "jump_to_application"
    BY <2>1 DEF TypeOK
  <2>3. ImageIn(flash) \in Images
    BY <2>1, ImageInComplete DEF StartsCompleteImage
  <2>4. ImageIn(flash)' = ImageIn(flash)
    BY <2>1 DEF ImageIn, Complete, Holds
  <2> QED
    BY <2>1, <2>2, <2>3, <2>4 DEF Kept, Keeps, Running, NextStart, StartAfter
<1>3. CASE Reboot
  <2>1. pc' = "hang" /\ UNCHANGED <<flash, newApp, backup, registry>>
    BY <1>3 DEF Reboot, persistent
  <2> QED
    BY <2>1 DEF Kept, Stops, Running, NextStart, StartAfter, ImageIn, Complete,
                Holds
<1> QED
  BY <1>1, <1>2, <1>3 DEF Server

(* The backup is the running image when the registry is told of it.        *)
LEMMA BackupKept ==
  ASSUME IInv, NEW t \in Tasks, BackupTask(t)
  PROVE  Kept
<1> USE DEF IInv
<1>1. /\ pc = "app" /\ flash' = flash /\ newApp' = newApp /\ TaskOK(t)
      /\ task[t].pc # "none" /\ Complete(flash)
      /\ registry \in [state : States, length : Nat, backup_length : Nat]
      /\ task[t].last \in Addr
  BY DEF BackupTask, BackupLength, BackupCopy, BackupCommit, BackupReset,
         persistent, TaskState, StartsCompleteImage, TypeOK
<1>2. CASE BackupLength(t) \/ BackupCopy(t)
  <2>1. registry.state = "jump_to_application" /\ pc' = pc
    BY <1>1, <1>2 DEF TaskOK, BackupLength, BackupCopy, cpu
  <2>2. registry'.state = registry.state
    BY <1>1, <1>2 DEF BackupLength, BackupCopy
  <2> QED
    BY <1>1, <2>1, <2>2, StutterStep DEF Kept
<1>3. CASE BackupCommit(t)
  <2>1. /\ task[t].pc = "commit" /\ backup' = backup /\ pc' = pc
        /\ registry' = [registry EXCEPT !.state = "flash_new_application"]
    BY <1>3 DEF BackupCommit, cpu
  <2>2. /\ registry.state = "jump_to_application"
        /\ registry'.state = "flash_new_application"
        /\ Covered(newApp, registry.length)
        /\ LastUsed(flash, task[t].last)
        /\ Copied(backup, flash, task[t].last + 1)
    BY <1>1, <2>1 DEF TaskOK
  <2>3. Complete(newApp) /\ Complete(backup)
    BY <1>1, <2>2, BackupCovered, CoveredComplete
  <2>4. ImageIn(backup) = ImageIn(flash)
    <3>1. task[t].last + 1 \in Nat /\ task[t].last + 1 > 0
      BY <1>1 DEF Addr
    <3> QED
      BY <1>1, <2>2, <2>3, <3>1, SameImage
  <2>5. ImageIn(flash) \in Images /\ ImageIn(newApp) \in Images
    BY <1>1, <2>3, ImageInComplete
  <2>6. /\ ImageIn(flash)' = ImageIn(flash) /\ ImageIn(newApp)' = ImageIn(newApp)
        /\ ImageIn(backup)' = ImageIn(backup)
    BY <1>1, <2>1 DEF ImageIn, Complete, Holds
  <2> QED
    BY <1>1, <2>1, <2>2, <2>4, <2>5, <2>6
       DEF Kept, Stages, Running, NextStart, StartAfter
<1>4. CASE BackupReset(t)
  <2>1. pc' = "hang" /\ UNCHANGED <<flash, newApp, backup, registry>>
    BY <1>4 DEF BackupReset, persistent
  <2> QED
    BY <2>1 DEF Kept, Stops, Running, NextStart, StartAfter, ImageIn, Complete,
                Holds
<1> QED
  BY <1>2, <1>3, <1>4 DEF BackupTask

(* A supply that fails while the program flash is written takes nothing:   *)
(* the registry points at another copy.                                    *)
LEMMA ResetKept ==
  ASSUME IInv, WatchdogReset \/ PowerLoss
  PROVE  Kept
<1> USE DEF IInv
<1>1. pc' = "boot" /\ UNCHANGED <<newApp, backup, registry>>
  BY DEF WatchdogReset, PowerLoss, persistent
<1>2. registry.state # "jump_to_application" \/ flash' = flash
  BY DEF WatchdogReset, PowerLoss, CopyState, persistent
<1> QED
  BY <1>1, <1>2 DEF Kept, Stops, Running, NextStart, StartAfter, ImageIn,
                    Complete, Holds

(* A start begins where the flash holds what the registry pointed at.      *)
LEMMA BootKept ==
  ASSUME IInv, ButtonOnlyAtRest, BootLoader
  PROVE  Kept
<1> USE DEF IInv
<1>1. /\ UNCHANGED <<newApp, backup>>
      /\ registry \in [state : States, length : Nat, backup_length : Nat]
      /\ flash_address \in Nat
  BY DEF BootLoader, Boot, BootWithButton, FlashPage, FlashDone, RestorePage,
         RestoreDone, CopyPage, CopyDone, ApplicationStart, persistent, TypeOK
<1>2. /\ ImageIn(newApp)' = ImageIn(newApp) /\ ImageIn(backup)' = ImageIn(backup)
      /\ flash' = flash => ImageIn(flash)' = ImageIn(flash)
  BY <1>1 DEF ImageIn, Complete, Holds
<1>3. CASE Boot
  <2>1. /\ pc = "boot" /\ UNCHANGED <<flash, registry>>
        /\ registry.state = "jump_to_application" => pc' = "jump"
        /\ registry.state = "flash_new_application" => pc' = "flash"
        /\ registry.state = "restore_backup" => pc' = "restore"
    BY <1>3 DEF Boot, persistent
  <2>2. CASE registry.state = "jump_to_application"
    BY <1>2, <2>1, <2>2 DEF Kept, Starts, Running, NextStart, StartAfter
  <2>3. CASE registry.state # "jump_to_application"
    <3>1. pc' \in {"flash", "restore"}
      BY <1>1, <2>1, <2>3 DEF States
    <3> QED
      BY <1>2, <2>1, <2>3, <3>1 DEF Kept, Stutters, Running, NextStart, StartAfter
  <2> QED
    BY <2>2, <2>3
<1>4. CASE BootWithButton
  <2>1. /\ pc = "boot" /\ pc' = "jump" /\ flash' = flash
        /\ registry.state = "jump_to_application"
        /\ registry'.state = "jump_to_application"
    BY <1>4 DEF BootWithButton, ButtonOnlyAtRest
  <2> QED
    BY <1>2, <2>1 DEF Kept, Starts, Running, NextStart, StartAfter
<1>5. CASE FlashPage \/ RestorePage
  <2>1. /\ registry' = registry /\ pc' = pc /\ pc \in {"flash", "restore"}
        /\ registry.state # "jump_to_application"
    BY <1>5 DEF FlashPage, RestorePage, CopyPage, CopyState
  <2> QED
    BY <1>2, <2>1 DEF Kept, Stutters, Running, NextStart, StartAfter
<1>6. CASE FlashDone
  <2>1. /\ pc = "flash" /\ flash_address >= registry.length /\ pc' = "jump"
        /\ flash' = flash
        /\ registry' = [registry EXCEPT !.state = "restore_backup"]
    BY <1>6 DEF FlashDone, CopyDone
  <2>2. /\ registry.state = "flash_new_application"
        /\ Covered(newApp, registry.length) /\ Copied(flash, newApp, flash_address)
    BY <2>1 DEF CopyState, RecoveryPoint
  <2>3. registry.length \in Nat /\ registry.length > 0
    BY <1>1, <2>2, CoveredLength
  <2>4. ImageIn(flash) = ImageIn(newApp)
    <3>1. Complete(flash) /\ Complete(newApp)
      BY <1>1, <2>1, <2>2, <2>3, CopiedComplete, CoveredComplete
    <3>2. flash_address > 0
      BY <1>1, <2>1, <2>3
    <3> QED
      BY <1>1, <2>2, <3>1, <3>2, SameImage
  <2>5. registry'.state = "restore_backup"
    BY <1>1, <2>1
  <2> QED
    BY <1>2, <2>1, <2>2, <2>4, <2>5 DEF Kept, Starts, Running, NextStart, StartAfter
<1>7. CASE RestoreDone
  <2>1. /\ pc = "restore" /\ flash_address >= registry.backup_length
        /\ pc' = "jump" /\ flash' = flash
        /\ registry' = [registry EXCEPT !.state = "jump_to_application"]
    BY <1>7 DEF RestoreDone, CopyDone
  <2>2. /\ registry.state = "restore_backup"
        /\ Covered(backup, registry.backup_length)
        /\ Copied(flash, backup, flash_address)
    BY <2>1 DEF CopyState, RecoveryPoint
  <2>3. registry.backup_length \in Nat /\ registry.backup_length > 0
    BY <1>1, <2>2, CoveredLength
  <2>4. ImageIn(flash) = ImageIn(backup)
    <3>1. Complete(flash) /\ Complete(backup)
      BY <1>1, <2>1, <2>2, <2>3, CopiedComplete, CoveredComplete
    <3>2. flash_address > 0
      BY <1>1, <2>1, <2>3
    <3> QED
      BY <1>1, <2>2, <3>1, <3>2, SameImage
  <2>5. registry'.state = "jump_to_application"
    BY <1>1, <2>1
  <2> QED
    BY <1>2, <2>1, <2>2, <2>4, <2>5 DEF Kept, Starts, Running, NextStart, StartAfter
<1>8. CASE ApplicationStart
  <2>1. /\ pc = "jump" /\ pc' = "app" /\ UNCHANGED <<flash, registry>>
    BY <1>8 DEF ApplicationStart, persistent
  <2> QED
    BY <1>2, <2>1 DEF Kept, Stutters, Running, NextStart, StartAfter
<1> QED
  BY <1>3, <1>4, <1>5, <1>6, <1>7, <1>8 DEF BootLoader

-----------------------------------------------------------------------------
LEMMA KeptStep ==
  ASSUME IInv, StalePages = FALSE, ButtonOnlyAtRest, [Next]_vars
  PROVE  Kept
<1>1. CASE UNCHANGED vars
  <2>1. UNCHANGED <<flash, newApp, backup, registry, pc>>
    BY <1>1 DEF vars, persistent, cpu
  <2> QED
    BY <2>1, StutterStep DEF Kept
<1> QED
  BY <1>1, ServerStep, BackupKept, ResetKept, BootKept DEF Next

LEMMA KeptIsPromised == Kept => [Promise!Next]_(Promise!vars)
BY DEF Kept, Stutters, Stops, Starts, Stages, Keeps, Promise!Next,
       Promise!Stage, Promise!Keep, Promise!Stop, Promise!Start, Promise!vars

LEMMA PromiseInit == Init /\ IInv => Promise!Init
<1> SUFFICES ASSUME Init, IInv PROVE Promise!Init
  OBVIOUS
<1>1. /\ pc = "boot" /\ registry.state = "jump_to_application"
      /\ Complete(flash)
  BY DEF Init, IInv, RecoveryPoint
<1>2. Running = None /\ NextStart = ImageIn(flash) /\ StartAfter = ImageIn(flash)
  BY <1>1 DEF Running, NextStart, StartAfter
<1> QED
  BY <1>1, <1>2, ImageInComplete DEF Promise!Init

(* The update does what the repository's README.md promises, under the     *)
(* same two assumptions on forms and button: whatever is                   *)
(* uploaded, wherever a post is broken off and whenever the supply fails,  *)
(* an image runs only if it was confirmed or is on its one trial, and the  *)
(* start after a trial that was not confirmed is back at the image that    *)
(* staged it.                                                              *)
THEOREM ImplementsPromise ==
  ASSUME StalePages = FALSE, ButtonOnlyAtRest
  PROVE  Spec => KeepsPromise
<1>1. Init => IInv /\ Promise!Init
  BY InvInit, PromiseInit
<1>2. IInv /\ [Next]_vars => IInv'
  BY InvStep
<1>3. IInv /\ [Next]_vars => [Promise!Next]_(Promise!vars)
  BY KeptStep, KeptIsPromised
<1> QED
  BY <1>1, <1>2, <1>3, PTL DEF Spec, KeepsPromise, Promise!Spec
=============================================================================
