# Verification of avr32webboot

TLA+ models of avr32webboot (the boot loader and web interface for AVR32 in
this repository), the TLC runs that check them and the TLAPS proofs about them.

    tlc -config FirmwareUpdate.cfg MCFirmwareUpdate     # any run: see "Runs"
    tlapm FirmwareUpdate_proofs.tla                     # any *_proofs module

Paths below are relative to `src/`; `kernel/` stands for `Kernel/src/kernel/`.

## The system

Two programs share a board. The **boot loader** (`Bootloader/src/main.c`) runs
after every reset, alone. It reads three keys of a registry in the external
data flash and starts the application, after copying a new image or the backup
into the program flash if the registry says so. The **kernel**
(`Kernel/src/`) is that application: FreeRTOS, the lwIP stack with a web
server, a page that shows status and registry, an upload of a new image, and a
task that backs up the running image and resets.

| Component | Code | State | Operations | Modelled in |
|---|---|---|---|---|
| Firmware update | `kernel/firmware_update/` | status, upload buffer and addresses, `srec_received_correctly`, the line being read | start, do_work, finish, backup task, init | `FirmwareUpdate`, `TrialUpdate`, `SrecUpload` |
| Boot loader | `Bootloader/src/main.c` | `flash_address`, what it read from the registry | decide, copy, start | `FirmwareUpdate`, `Registry` |
| Registry | `kernel/registry/` | the table in the data flash, `registry_size` in RAM | init/reset, initialize_key, get, set, dump | `Registry` |
| Data flash | `kernel/eeprom/`, at45dbx driver | 8 MB in sectors of 512 bytes | read, write (a write zero-fills the rest of its sector) | operators of `FirmwareUpdate`, `Registry` and `SrecUpload` |
| Program flash | flashc, nvm drivers | pages of 512 bytes | erase and write a page | actions of `FirmwareUpdate` |
| HTTP POST | `kernel/http_post/` | `current_post_type`, registered handlers | begin, receive_data, finished | `HttpPost`, `UploadSession`; stripping of the body's end in `SrecUpload` |
| POST handlers | `kernel/http_post_handlers/` | none | keep, reboot, registry_set | `FirmwareUpdate`, `Registry` |
| Web server | `kernel/webserver/httpd.c` | an `http_state` per connection, queued pbufs | accept, recv, send a page, sent, poll, err, close | `HttpPost`, `Webpage` |
| Dynamic page | `kernel/ssi/`, `kernel/ssi_handlers/` | tags and handlers; static arrays of the rows being written | handle a tag part | `Webpage` |
| Files of the page | `kernel/webserver/fs.c`, `fsdata.c` | none (constant) | open, read | not modelled: lookup in constant data |
| Ethernet start | `kernel/ethernet/` | none after the start | ethernet_task | its end in `Webpage` |
| TCP/IP thread and timers | `LwIP/src/api/tcpip.c`, `LwIP/src/core/timers.c` | the list of timers, `tcpip_tcp_timer_active` | wait for a message, run a timer, set a timer | `TcpipTimers` |
| lwIP port | `LwIP/port/sys_arch.c` | semaphores, mailboxes, threads | wait, signal, post, fetch | timed fetch and post in `TcpipTimers` |
| Network interface | `LwIP/port/netif/`, macb driver | receive and transmit rings | input task, output, interrupt | `MacbReceive`, `MacbTransmit` |
| Application | `application/` | a key of the registry | task 1 | its key in `Registry` |
| Kernel start | `Kernel/src/main.c`, `kernel/kernel.c` | none | the order of the inits | `Registry` |
| Log | `kernel/log/`, `Bootloader/src/kernel/log/` | none | format and print | not modelled: nothing reads it |
| FreeRTOS, other parts of lwIP and ASF | vendored | | | environment of the models |

**How they interact.** A frame goes from the MACB through the receive ring to
the input task, and from there through a mailbox to the TCP/IP thread, which
also fills the transmit ring, runs the timers of the stack, and runs the
callbacks of `httpd.c` one at a time. `httpd.c` hands bodies of POST requests to
`http_post.c`, which calls a registered handler or the three functions of `firmware_update.c`; a
request for the page calls the tag handlers, which read the status of the
update and the registry. The backup task has a lower priority than the TCP/IP
thread and shares the statics of `firmware_update.c`, the registry and both
flashes with it. The application's task shares the registry. The registry's
key "Firmware Update State" is the only message between the two programs, and
it survives a reset; everything in RAM does not.

**What is hard.** A supply that fails between any two writes, where the next
program has to find a complete image; status in RAM against state in the data
flash; a write of four bytes that changes up to 512; the static state that two
connections, or a task and the server, share; a pool of six pbufs and two
connections that must come back; searches and copy loops whose termination
rests on a counter kept elsewhere; lines of a file and tags of a page that may
be cut anywhere, by the segments that come in or a send buffer that is full;
rings of buffers shared by a task, an interrupt and hardware; timers that learn
of time only from waits. `PROJECT.json` lists each at its line.

**What makes each component correct.**

- Firmware update and boot loader: only complete images are started; a new
  image runs once unless it is confirmed, and the image before it comes back
  bit for bit otherwise; every reset ends in a running application.
- Registry: every stored key is found, once; the keys a program initialised
  are there; a set changes one key; the searches end.
- Web server and POST: an upload is handled as one from its first segment to
  its last, and is finished when its connection ends; its buffer is allocated
  exactly while it is used; connections return.
- S-record upload: what is announced is what was sent, wherever it was cut;
  what was sent soundly is announced; every segment is parsed to its end.
- Page: what is written is the page with its inserts in order; every row comes
  from an array that has it; every page ends.
- Network interface: frames go up and packets go out whole and in order;
  software and hardware agree on their places; buffers come back; no wake-up is
  lost.
- Timers: none runs early, or later than the thread was kept from waiting; each
  runs again.

## Modules

### FirmwareUpdate, TrialUpdate

`FirmwareUpdate` models `firmware_update.c`, the `firmware_*` handlers and the
boot loader together, because their correctness is a property of the two
programs. The variables `flash`, `newApp`, `backup`, `registry` survive a
reset; `status`, `address`, `buffer`, `index`, `srec_ok` are the statics
`current_firmware_update_status`, `EEPROM_current_address`, `EEPROM_buffer`,
`EEPROM_buffer_index`, `srec_received_correctly`; `task` holds the backup
tasks; `pc` and `flash_address` tell what the processor runs.

- `UploadStart`, `RecvData`, `RecvRefused`, `RecvTermination`, `UploadFinish`
  are the upload: start, an S3 record with its gap filling, buffering and
  flush and its checksum verified after the byte was buffered, any refused
  record, S7, finish. `UploadAborted` is a connection that is reset
  (`http_err`), of which the update is not told.
- `BackupLength`, `BackupCopy`, `BackupCommit`, `BackupReset` are the backup
  task between its accesses to the flashes.
- `Boot`, `FlashPage`, `FlashDone`, `RestorePage`, `RestoreDone`,
  `BootWithButton`, `ApplicationStart` are the boot loader, with its loops
  that read one byte more than remains. `BootWithButton` happens in the states of
  the registry that `ButtonStates` lists (see "Assumptions").
- `PowerLoss` may come before any step, and may leave the page of the program
  flash that was being written erased.

A byte is named after the image it belongs to, so that a position of an area
tells whose byte it holds; 0xff, 0x00 and a byte of a line with a wrong
checksum are values of their own. A record carries one position.

`TrialUpdate` is what README.md promises, with three variables: the image that
runs, the one the next start runs, and the one after that. `FirmwareUpdate`
implements it under the mapping `Promise` (property `KeepsPromise`): the image
that runs is that in the program flash while the kernel runs (`Running`); what
the next start runs (`NextStart`) and what the one after it runs (`StartAfter`)
follow from the state in the registry and the area it points the boot loader at.

### Registry

`Registry` models `registry.c` over the starts of both programs and while the
kernel runs. `slots` is the table in the data flash, `size` is
`registry_size`, `todo` the keys the running program still initialises,
`call` the call in progress and the slot it has come to; one action is one
access to the data flash, because `eeprom.c` makes each a critical section.
`Written` is `eeprom_write` with the zeros that close the sector. `UserSet`
is the form of the page, `UpdateSet` the boot loader and the server,
`BackupFind`/`BackupWrite` the backup task, which can be preempted between
finding a key and writing its value. `PowerOff` may come anywhere.

### HttpPost

`HttpPost` models the connections of `httpd.c` and the shared state behind
them: `conn` has the fields of `http_state` that control depends on
(`post_content_len_left`, what is left to send, `retries`, the length of the
queue `req`), `current_post_type` is the static of `http_post.c`, `buffer`
the state of `EEPROM_buffer`, `pool` the number of free pbufs. One action is
one callback, as the TCP/IP thread runs it: `Accept`, `Recv*` (`http_recv`
with what the segment turned out to be; `RecvPartial` is a request that is not complete,
`RecvUnsized` a post with a complete header and no length, for which the code
does not come to the check of the queue's length), `Sent`, `Poll`, `PollClosing`, `Fin`,
`Err`. What `tcp_write` takes and whether `tcp_close` succeeds is left open.

`UploadSession` is what of this `firmware_update.c` sees: start, do_work with less and
less of the body to come, one finish or, after a reset, none. `FirmwareUpdate` and
`SrecUpload` take this order for granted. `HttpPost` implements it (property
`KeepsSession`): a session is open while a body is coming in whose segments are handled as
a firmware file; a buffer that is misused, or missing then, maps to a state that
`UploadSession` does not have. That the buffer is never misused (`BufferSafe`) is
an invariant of its own.

One connection posts (`Forms`) in the run and in all theorems but `TypeCorrect`. The
case of two, in which the type and the buffer are shared, is excluded, and not shown
to be right: with `Kind` for both connections TLC finds `BufferSafe`,
`UploadFinished` and `KeepsSession` violated. `UploadFinished` also leaves out the end
of a connection by a reset, which `http_err` does not tell `http_post.c`.

### SrecUpload

`SrecUpload` is the inside of `RecvData` of `FirmwareUpdate`: a segment of the
body becomes lines, a line a record, and a record bytes of the data flash.
`Segment` is `http_post_receive_data` with the end of the body stripped;
`StoreToken`, `EndLine` and `Overflow` are the turns of the loop of
`firmware_update_application_do_work`, with its statics `current_line` and
`current_line_index`; `Header`, `DataBegin`, `ScanByte`, `DataEnd`,
`TerminationBegin`, `TerminationEnd` and `NoRecord` are
`firmware_parse_srec_line`, with the counter of eight bits and the checksum
that is looked at after the bytes were buffered. Two characters are one token.
`Faults` says what may happen between client and server: another upload after a
sound one, a connection closed or reset early, a damaged pair of characters, be it
a length, an address, data or an end of line. `regular` is history: the upload at
hand began with an empty `current_line`, and no token of it that is a length or an
address was changed. `AnnouncedIsWhole` and `SoundUploadAccepted` are about
such uploads, because for the others the code does not do what they say ("Findings",
below 4); the others are in the run all the same, and `TypeOK` and
`DoWorkReturns` hold of them. `Endless` is the loop over a record of length 255
(`uint8_t i`), the one input from which do_work does not return.

What a file is, is defined apart from the parser: `WellFormed` is the form that
avr32-objcopy gives it (records that follow each other, from low to high
addresses, each with its checksum, one of termination at the end, then a
boundary) and says that `Bytes[f]` is the image that its records describe.
`MCSrecUpload` assumes it of its file (`FileIsWhole`), so that TLC evaluates it.

### Webpage

`Webpage` models `http_send` and `http_send_data_ssi` of `httpd.c` with the
handlers of `ssi_handlers.c` behind them. One action is one turn of the loop of
the tag parser (`SendParsed`, `TagNone`, `TagLeadin`, `TagFound`, `TagLeadout`,
`TagComplete`) or one of the places that write (`SendBefore`, `SendInsert`,
`NextInsert`, `TagSent`, `SendRest`); `SendDone` is the end of the call. `run` is
the call in progress, `conn` the `http_state` and `http_ssi_state` of each
connection, `array` and `number` the statics of the handlers, `owner` whose
page a block of the heap was allocated for. `Sent`, `Poll`, `GiveUp`, `Cut` are
the callbacks that begin or end calls. `Start` is the end of `ethernet_task`:
the server accepts requests before the handler of the tags is set. Where the tags
of the page are is defined apart from the parser, by the form of a tag: `TagEnds`
are the places at which a lead-in, white space, a name, white space and a
lead-out end (`Begun`, which also covers the beginnings of one), and
`PageInOrder` is about these.

### MacbReceive

`MacbReceive` is the receive ring. `desc` holds the descriptors and what is in
their buffers, `mac` and `bna` the MACB, `irq` and `sem` its interrupt and the
semaphore, `next` is `ulNextRxBuffer`, `task` the input task with its local
variables. The MACB (`FrameStarts`, `FrameGoesOn`, `NoBuffer`, `BreaksOff`) acts
between any two accesses of the task to a descriptor; the task's steps are those
of `ulMACBInputLength`, `vMACBRead` and `low_level_input`, with the reset of the
ring when a buffer was not available. `Woken` and `TimedOut` end
`vMACBWaitForInput`.

### MacbTransmit

`MacbTransmit` is the transmit ring: `MacbSend` fills one buffer, which the code
does in a critical section; `Wait` is the delay when the buffer is not free;
`Transmit`, `Exhaust` and `Halt` are the MACB; `Interrupt` is `vClearMACBTxBuffer`.
The driver gives the MACB the first buffer of a packet before it has filled the
others, and a MACB that is still on from the packet before may take it up and come to
a marked buffer in mid frame: `Exhaust` (the bit AVR32_BUF_EX of macb.h:315). It
then stops, and begins the frame again from its first buffer when the driver, which has
filled the last one, starts it. With `Faults = {"late"}` interrupts may be off so long
that two frames are sent before one is served; then buffers that were not yet sent
are freed as well, and TLC also finds `SentWhole` violated. `BuffersReturn` looks at
every state of the ring: no buffer whose part was not sent is free, and every
other one is free as soon as no interrupt is pending.

### TcpipTimers

`TcpipTimers` is the TCP/IP thread as far as time is concerned. `SysTimeoutsInit`
is `sys_timeouts_init`, one timer a step, before the thread is made; `FetchExpired`
and `FetchWait` begin `sys_timeouts_mbox_fetch`, `TimedOut` and `Received` end
the wait of `sys_arch_mbox_fetch`; `PeriodicTimer`, `TcpTimer` and `Message` are
what the thread then runs, as far as it sets timers; `Post` is `tcpip_input`.
`list` is the list at `next_timeout`, each entry with the time after the one
before it. A tick may come at any moment (`TickWaiting`, `TickBusy`). `age` and
`late` are history: ticks since a timer was set, and those of them that the
thread did not wait through. The list is never empty when the thread fetches,
because the timers of ARP and of reassembly always set themselves again.

## Runs

| Run | Module, cfg | Expected | What it shows |
|---|---|---|---|
| FirmwareUpdate | MCFirmwareUpdate, FirmwareUpdate.cfg | pass | images started are complete, the recovery copies are complete at every step, the page tells the truth, `TrialUpdate` is implemented, every reset ends in an application |
| FirmwareUpdate_stale | MCFirmwareUpdate, FirmwareUpdate_stale.cfg | violation | finding 1 |
| Registry | MCRegistry, Registry.cfg | pass | keys are found once, initialised keys are there, the update's keys are not disturbed, the size covers the table, a start ends |
| Registry_set | MCRegistry, Registry_set.cfg | violation | finding 2 |
| HttpPost | MCHttpPost, HttpPost.cfg | pass | while one client posts: an upload is finished unless its connection is reset, `UploadSession` is implemented, its buffer is not misused; connections are released |
| Webpage | MCWebpage, Webpage.cfg | pass | pages are written in order with their inserts, rows come from arrays that have them, no call stalls, every page ends |
| Webpage_two | MCWebpage, Webpage_two.cfg | violation | finding 3 |
| SrecUpload | MCSrecUpload, SrecUpload.cfg | pass | of regular uploads, only one that is wholly in the data flash is announced and a sound one is; nothing is written outside line and page buffer; every segment is parsed to its end, but for a length of 255 |
| MacbReceive | MCMacbReceive, MacbReceive.cfg | pass | frames reach the stack whole and in order, software and MACB agree, no wake-up is lost, a frame leaves unless the stack keeps the pbufs it needs |
| MacbTransmit | MCMacbTransmit, MacbTransmit.cfg | pass | packets are sent whole and in order, buffers return, no packet waits for ever |
| MacbTransmit_late | MCMacbTransmit, MacbTransmit_late.cfg | violation | finding 4 |
| TcpipTimers | MCTcpipTimers, TcpipTimers.cfg | pass | timers run on time, the right ones are listed, each runs again and again if the network is quiet enough |

SrecUpload is checked without deadlock: a client stops when it has sent what it
had.

**Bounds, and why they are enough.**

- FirmwareUpdate: two images, pages of two bytes, an area of three pages. One
  image ends inside a page with another page after it, the other has a gap and
  fills the area but for one byte: a page is crossed, a gap is filled within
  and across pages, and the loops end both with and without the additional
  byte. Uploads, trials, resets and failures of the supply are not bounded:
  the state space is finite. One backup task: under the forms the page offers
  there is never a second one (part of the proved invariant). The button: `ButtonStates`
  is `{"jump_to_application"}`. With the other two states in it TLC finds
  `StartsCompleteImage` violated: the button held after the supply failed in a copy.
- Registry: 16 slots in sectors of four and five keys in the kernel's layout:
  nothing in the first sector, the update's key alone in its sector, the four
  address keys in one, the application's key behind them. Two of them have
  the same home, so that there is a collision. Values: two.
- HttpPost: two connections (MEMP_NUM_TCP_PCB), bodies of at most three
  segments, a page of two pieces, a queue of one pbuf and a pool of three:
  enough for a body to come with its request, partly with it, or after it; for
  a reply to be sent in parts; and for the pool to run out. The pool is the only
  bound of the queue of a post without a length, in the model as in the code.
- SrecUpload: bytes of eight values, addresses of two bytes, lines of at most
  11 tokens, a page of two bytes and an area of six; segments of 5 and 9 tokens
  end at every place of the boundary and of the termination record but one (sums of
  the two from 32 on are all numbers), and at about half of the places of the records before. The file has a header, a
  line of the trampoline, a line as long as `current_line`, a gap, and fills a
  page partly. Damage is to any one token of an upload that began with an empty line,
  the lengths and addresses included, and makes it 0xff, an end of line or something that
  is no number. Of a loop over a record of length 0xff the first lap is modelled, and then
  the thread stays in it (`ScanByte`).
- Webpage: one page at a time, of 28 tokens: a comment that is no tag but ends
  like one, a tag that does not end, two tables, a text with white space, and
  text after the last tag; tables of one or two rows, inserts of two units, a send buffer of three,
  so that each insert is cut in two at some point; two retries; three blocks of
  heap, one for each static pointer and one that a cut page left: the heap is taken
  to be large enough. Webpage_two has two pages at a time.
- MacbReceive: five buffers (24 in the code) of two units, pbufs of three (128
  and 500 bytes), a pool of three, frames of one unit and of four: one or two
  buffers and pbufs, ends that coincide and ends that do not, two frames of the
  longer kind and one of the shorter in the ring, and none fitting.
- MacbTransmit: four buffers (10), packets of one to three buffers from one or two
  pbufs: the ring holds one to four packets, and a packet may have to wait for
  one before it, for part of it, or for none.
- TcpipTimers: three timers (five) with intervals of 2, 3 and 4 ticks, a counter
  that wraps after 6 (2^32 - 1), a mailbox of two (six), two ticks during which
  the thread does not wait while a timer is in the list: timers that expire
  together, before and after each other, waits that end before and after a
  message, and across the wrap.

**Fairness.** FirmwareUpdate: `WF(BootLoader)`, which runs alone with
interrupts off; `WF(WatchdogReset)`, which is hardware; `WF(BackupTask)`: the
scheduler gives it the processor whenever the server waits for a packet.
Uploads, forms, the button and the supply have none. `BootCompletes` assumes
that the supply does not fail for ever. Registry: `WF(Startup)`, for the main
programs that run alone and for the application's task. HttpPost: `WF(Poll)`
and `WF(PollClosing)`, which the timer of lwIP calls for every connection;
clients have none. `PollClosing` closes the connection: `tcp_close` fails
only for want of memory, which the model lets happen on the first attempt.
Webpage: the same for `Poll` and `GiveUp`, and `WF(HttpSend)`, a loop that runs
on. SrecUpload: `WF(DoWork \/ Parse)`, the same. MacbReceive:
`WF(Interrupt)`, `WF(InputTask)`, `WF(Woken \/ TimedOut)`, because the task
has the highest priority, which it shares with the TCP/IP thread only, and its
wait has a time-out; line and stack promise nothing, because the code keeps pbufs
(`http_post.c:147`, `httpd.c:2353`): `FramesLeave` says that a frame that found no
pbuf leaves or is again looked at with too few of them (`Starved`). MacbTransmit: `WF(MacbSend)`, the
thread that tries again after each delay, `WF(Transmit)`, `WF(Interrupt)`,
hardware; packets need not come. TcpipTimers: `WF(Thread)` and
`WF(TickWaiting)`, time that passes while the thread waits. Nothing is assumed of the
messages; `TimersRun` has a condition instead (`QuietEnough`): they end, or the
thread waits again and again through a tick at which the counter does not wrap. Without
it TLC finds timers that starve ("Findings", below 4). `StartCompletes` of Registry is about
each start by itself: once the supply holds, every start ends.

## Proofs

Each holds for every value of the constants that the named assumptions allow.

| Module | Theorem | Establishes | Beyond the constants' assumptions |
|---|---|---|---|
| FirmwareUpdate_proofs | TypeCorrect | `[]TypeOK` | - |
| | BootSafety | `[]StartsCompleteImage` | StalePages = FALSE, `ButtonOnlyAtRest` |
| | AlwaysRecoverable | `[]RecoveryPoint` | StalePages = FALSE, `ButtonOnlyAtRest` |
| | AsksTruthfully | `[]AsksOnlyOnTrial` | StalePages = FALSE, `ButtonOnlyAtRest` |
| | ImplementsPromise | `KeepsPromise` | StalePages = FALSE, `ButtonOnlyAtRest` |
| Registry_proofs | TypeCorrect | `[]TypeOK` | - |
| | SizeAlwaysCovers | `[]SizeCovers` | - |
| | KeysStayFound | `[]KeysFound` | homes are distinct (`Injective`) |
| | UpdateKeysUndisturbed | `UpdateKeysKept` | `Injective`; the update's keys alone in their sectors (`Isolated`) |
| | KeysAreThere | `[]KeysInitialized` | `Injective`, `Isolated`; the order of each script (`Scripted`) |
| HttpPost_proofs | TypeCorrect | `[]TypeOK` | - |
| | BufferNeverMisused | `[]BufferSafe` | one connection posts (`OnlyPosts`) |
| | UploadsEndFinished | `UploadFinished` | one connection posts |
| | ImplementsSession | `KeepsSession` | one connection posts |
| SrecUpload_proofs | TypeCorrect | `[]TypeOK` | - |
| | AnnouncedWhole | `[]AnnouncedIsWhole` | files as avr32-objcopy writes them, and if tokens are damaged, no data record fits into `current_line` behind another line (`FilesAssumption`) |
| | SoundAccepted | `SoundUploadAccepted` | `FilesAssumption` |
| MacbReceive_proofs | ReceiveTyped | `[]TypeOK` | - |
| | DeliversOldestWhole | `[]FrameWhole` | - |
| | RingStaysInStep | `[]RingAgrees` | - |
| | WakeUpNotLost | `[]NoSleepOnFrame` | - |
| MacbTransmit_proofs | TransmitTyped | `[]TypeOK` | `"late" \notin Faults` (`Prompt`) |
| | OldestIsWhole | `[]SentWhole` | `Prompt` |
| | BuffersAreBack | `[]BuffersReturn` | `Prompt` |
| TcpipTimers_proofs | TimersTyped | `[]TypeOK` | - |
| | EachTimerOnce | `[]TimersListed` | - |
| | HandlersOnTime | `[]OnTime` | no interval is within `MaxBusy` of a lap of the counter (`Short`) |
| Webpage_proofs | WebpageTyped | `[]TypeOK` | - |
| | CallsGoOn | `[]NeverStalls` | - |
| | HeldArray | `[]ArrayHeld` | one page at a time (`"overlap" \notin Faults`) |
| | InOrder | `[]PageInOrder` | one page at a time |
| | CompleteWhenClosed | `ClosedWhenComplete` | one page at a time |

**FirmwareUpdate.** None of the three safety properties is inductive: they
speak of a copy that is complete, and the copies are made in many steps.
`IInv` adds what the loops have done so far. `ReceivedSoFar`: a file of which
no line was refused is in `newApp` up to `address` and in `buffer` after it.
`ReceivedAll`: after the termination record the whole file is there, whatever
is refused later. `TaskOK`: the backup area agrees with the program flash up
to the task's address, and the length in the registry is that of the last byte
that is not 0xff; it also says that there is at most one task and that it only
exists between the announcement and the reset. `CopyState`: the program flash
agrees with the source up to `flash_address`. `UploadState` and `StatusState`
tie the status in RAM to the state in the registry. Lemmas say what a write,
with its zeros, leaves of a copied prefix (`WriteReceived`, `FillReceived`,
`WriteCopied`) and why a prefix up to the stored length is a complete image
(`CopiedComplete`, `BackupCovered`); then there is one lemma per group of
actions and `InvStep` joins them.

**TrialUpdate.** The simulation is by the same invariant: `KeptStep` shows that
every step stutters, stops, starts, stages or keeps in terms of `Running`,
`NextStart` and `StartAfter`, and `KeptIsPromised` that each of these is a step of
`TrialUpdate`. The mapping chooses the image that an area holds, and the choice
must not change under a step that only rewrites the rest of the area. It does
not, because a byte names its image: an area that holds an image holds one only, the
one named at its start (`ImageInHolds`), and a copy that agrees there
holds the same (`SameImage`).

**Registry.** `SizeCovers` needs that the slots still to be counted or wiped
are the only ones the size does not account for, and that a write occupies at
most one more slot (a cardinality argument over `Written`). `KeysFound` is
inductive once homes are distinct: every key then sits in its home slot, and
the zeros that a write leaves cannot open a gap before it. `UpdateKeysKept`
follows because each write falls into the sector of a key that is not an
update key. It is what `FirmwareUpdate` relies on when it keeps the three
keys in a record: the kernel's keys have the distinct slots 21, 513 and 767 for
the update and 80 to 83 for the addresses, and the first sector, into which
the size is written, holds none of them.

`KeysInitialized` needs more of the layout, since every write erases the rest of
its sector. `Scripted` says what the order of the calls must be for the keys to
survive: no key in the first sector, those that share one initialised in the
order of their slots, as "IP Address 1" to "4" in 80 to 83 are, and room for the keys
to be counted twice. Then `Progress` is inductive: the keys done so far are at
home, the rest of the script is still to do, and none is refused, because
`registry_size` is at most the number of homes and of keys done. `UpdateStored`
carries the update's keys on while the kernel runs, by `UpdateKeysStep`. The run
`Registry` checks the same of a table with a collision, which the theorem leaves out.

**HttpPost.** `PostInv(p)`: every body that is coming in is p's, the type of the
post is the type of that body once its first segment came, and an upload that
goes on has its buffer. It is what keeps a late segment, or the finish that a
close makes, from reaching a buffer that was freed. The callbacks of all
connections share two lemmas: `QuietStep` for those that leave post and type
alone, `RxPbufStep` for a segment of a body. `UploadFinished` needs `BodyOpen` as
well: a body is only ever coming in on a connection that is open, so the step
that ends it is a close, an error or the last segment. `ImplementsSession` is by the same
invariant: `SessionIs` says what the mapping is with one poster, `SessionStep` which step
of `UploadSession` each kind of callback is, and `DataShrinks` that a segment leaves less
to come.

**SrecUpload.** That `TypeOK` holds is not by the form of the model: it says that no
index leaves `current_line` or the page buffer, for every file, size and kind of
damage. It does not say that the writes stay in the area of the data flash:
`EepromWrite` leaves out what is outside `Addr`, and nothing in the code compares an
address with the end of the area. `GapStep`, `BufferStep` and `EndStep` follow the index
through the gap filling and the flushes; `ContentTokens` follows what the
stripping of a segment leaves.

`UInv` is what is behind the other two theorems. It ties the parser to the file by the
tokens that `do_work` was given so far, `R`: the first `m` of them are the file's, but for
the one at `d` if one was damaged (`Received`), and what follows the records is free of
record types, because a segment may or may not have been stripped there. `InLine` says where in `R`
the line begins that `current_line` holds. `R`, `d`, `m` and that place are not part of the
state, so the invariant asserts that there are some. `AtLine` is what the line can be: a
record, with the image up to it stored (`AtRecord`); the end of a line whose last token
became an end itself (`AtEnd`); the rest of a line that was cut in two, which is no record
(`AtRest`); or what follows the last record, where nothing changes any more (`AtTail`). `InData` is
the loop over a data record's bytes: they are the file's and so is their sum (`Exact`),
or one is not and the sum differs from the file's from there on (`Astray`), or the line
was cut in the middle and the scans read on behind its end (`Short`), in which case
the rest of the line follows as a line of its own and is refused.

The argument is that each damage is noticed by the time it can matter: `FirstEnd` and
`NextLine` say where a line ends and what the next one is then; `ScanDataGoes` and
`DataEndGoes` that a checksum over one changed byte cannot be right; `HeaderGoes`,
`DataRefusedGoes` and `TerminationEndGoes` are the records that
are judged by their fields. That only one token is damaged is needed: two changes can
cancel out in a sum. `SumsStep` follows the sums of a line, `NextAt` joins the lines, `ContentIs` and
`SegmentGoes` are the stripping. TLC checked `UInv` on the instance of `SrecUpload.cfg`, with `R` as
a history variable, before it was proved.

**Webpage.** `ArrayHeld` is not inductive, because between the handler's call and the
next one the part is kept in the connection and the array in the handler.
`HInv` adds that a connection that is not in a table holds no block, that at most
one page is open (which is what the assumption gives), and that a call in
progress belongs to it. `InsertStep` is the argument proper: the handler
allocates with the first part, and frees with the part that it marks as the last
one; `CloseStep` is the end of a page.

`TInv` needs no assumption. `Sound` is what holds of a connection between calls and
in them: no name, index or end of a tag leaves its bounds, a name is as long as
its index says, and a tag that is being sent was parsed to its end. `Moves` says, for each
place of a call in progress, what is unacknowledged already, or that the call
still has something to write.

`OInv` is the order, for every page whose tags are apart (`TagsApart`). `Where` ties the last
unit written to the state of the connection: a place of the page (`OnPage`), the
end of a last row (`AfterInsert`), the middle of an insert (`InInsert`) or the end of
a row that another follows (`BetweenRows`). `Pending` says that no tag ends
in what is parsed and not yet sent, except the one that was found. That the
parser finds every tag and nothing else has two directions: `ReadsAt`, what the
parser's state and index say of the tokens behind it, and `TracksAt`, what a tag
that is begun there demands of the state; `ReadsOn` and `TracksOn` carry them over
a token. The steps that write share `WritePage` and `WriteRow`, which extend what was written
by `Extend`; `CompletePage`, `RenewPage` and `LeavePage` are the ends of a tag, a row and an
insert. `RowOf` says that the rows of a tag all come from one block, which
needs `HInv`. TLC checked `OInv` on the instance of `Webpage.cfg` before it was proved.

**MacbReceive.** The ring is described from the task's place backwards: `Behind` is
the slot behind which the task has freed everything, `R(k)` how far a slot is in front
of it. `Ring(F, c)` says that the first `c` slots are the software's and the rest the
MACB's (`Owned`); that slots between which no frame begins are of one frame, in order,
and only the last has its length (`Parts`, `Joined`); that a frame that is coming in
ends at the newest of them (`ComesIn`); and that those with a length are the frames
of `line`, in order, where `F` gives each its place (`Lines`). `Place(c)` says where the
task is, in each state of its walk: at the start of a frame (`Starts`), looking for the
end of one (`Walking`), before buffers that it drops (`Dropping`), or in a frame whose
end is there (`Reading`). `F` and `c` are not part of the state, so the invariant asserts
that there are some, and each lemma names those after the step. `Copying` follows what was read so far. A frame
that breaks off leaves buffers without an end, and the argument is that the task drops
exactly those; a reset empties the ring and moves the MACB's place to the task's.

**MacbTransmit.** `Layout(F, m)`: the `m` slots from the MACB's place on hold the
packets of `line` and behind them what was filled of the newest; `F` gives each slot
its packet's place in `line`. Slots that follow each other are of one packet, with
parts that join, or of two, of which the earlier has its last part there (`Joined`);
`Begun` and `Newest` tie the first and the last slot to `line` and to the packet at
hand. The other slots are free, or the interrupt will free them next (`Others`, `Sent`): with `Prompt` that is one
packet, from `clear` to the slot before the MACB's place. `Names` adds, for
`BuffersReturn`, that no two packets in the ring have one identifier and that no free
buffer holds an unsent part. Run `MacbTransmit_late`
shows that `Prompt` is needed. The search for the last slot of a packet is a
least element of a set, as in the code's loop.

**TcpipTimers.** `LInv` is about which timers are listed: each once, and those that
should run less the one whose handler runs. So there is always an entry in the pool for
a timer that is set, because the timers outnumber the list. It also bounds each
time in the list by its timer's interval, which is why a wait fits into the counter.
`TInv` adds the times. `AddsUp`: for every entry, the sum of the times up to it,
less what the thread has waited for already, and the age of its timer make its
interval, or exceed it by at most what it is late. `Clock`: in a wait, the counter
is at its start plus what was waited for plus the ticks since the time was over.
The operators are handled by their effect on the sums: `InsertedIs` (a timer that is set
leaves every other one's sum alone), `ShorterIs`, `TailIs`. `ReceivedTime` is
the argument about the wrap: the elapsed time is then one tick short, so that
`late` has to allow for one, except when the wait was over anyway. `Short` says
that the thread is never kept for so long that the counter comes round; TLC
finds `AddsUp` violated without it.

**Induction.** The sums of `TcpipTimers` and the searches of the rings need induction
over numbers. The library's induction theorems take an operator and cannot
be instantiated here; `Least` and `Induct` are derived from `WFMin`, for sets of
numbers, and the statements are put as membership in such a set.

**Only model-checked.** Liveness (`BootCompletes`, `StartCompletes`,
`ConnectionsReleased`, `PagesEnd`, `DoWorkReturns`, `FramesLeave`, `PacketsGoOut`,
`TimersRun`), which is out of the prover's reach. Every invariant and action property
of a passing run is proved.

## Findings

Each is shown by a run.

1. An upload that is accepted during a trial overwrites the backup in place; if
   the supply fails meanwhile, the boot loader restores a mixture
   (`firmware_update.c:302`). It takes a page rendered before the trial, or a
   second client: the page itself does not offer the form then, and with only
   the forms it offers the properties are proved (`StalePages = FALSE`).
2. A set erases the keys behind it in its sector: "IP Address 1" takes 2 to 4
   with it, and they come back with their defaults at the next start
   (`registry.c:262`).
3. Two pages sent at a time share the arrays of the tables: the second replaces
   the one the first is half through, and frees it (`ssi_handlers.c:197`).
4. Two frames that are sent before the interrupt of the first is served ask for
   it once, and then only the first one's buffers are given back
   (`macb.c:578`).

What else was seen while modelling, and what the models do with it:

- `firmware_update_application_finish` looks at `srec_received_correctly` and not
  at the status: a line that is refused after the S7 record makes the page say
  "failed", and the image is started all the same (`firmware_update.c:374`).
  `FirmwareUpdate` has it.
- What an upload that did not end leaves in `current_line` becomes the beginning
  of the next one's first line (`firmware_update.c:344`). `SrecUpload` has it; its
  properties are about uploads that began with an empty line (`regular`): TLC finds a sound
  upload behind an aborted one that is refused.
- A record of length 255 makes the loop over its bytes, which counts in eight
  bits, go on for ever (`firmware_update.c:162`), a damaged address makes a gap
  that is filled up to it (`firmware_update.c:145`), and lines of the trampoline are
  dropped by their address before their checksum is looked at
  (`firmware_update.c:132`). `SrecUpload` has them, and its run meets them: without `regular`
  TLC finds an image announced that lacks a record whose address was damaged, and
  `Endless` is the exception of `DoWorkReturns`.
- A damaged end of a line joins it with the next one. The fields at the beginning
  are read, so that the second record is passed over, and nothing misses it: if it is a data record, its
  bytes are missing in the image, which is announced all the same. It takes two
  lines that fit into `current_line` together (`firmware_update.c:324`): two S3
  records with at most nine bytes of data between them, which avr32-objcopy writes
  only at the ends of small sections. The proof needs that there are none
  (`TooLongTogether`), and the file of the run has none.
- `registry_get_size` counts keys that were erased (`registry.c:275`).
- A connection that is reset during an upload leaves it unfinished, and its
  buffer allocated (`httpd.c:2206`); one that is reset or closed in the middle of a
  table leaves the array allocated (`ssi_handlers.c:205`). `HttpPost` and `Webpage`
  have both, and their properties say what holds nevertheless.
- A post whose header is complete and has no Content-Length waits for more, and its queue
  is not compared with `LWIP_HTTPD_REQ_QUEUELEN` (`httpd.c:1985`, `1783`): it grows until the
  pool is empty or the polls close the connection. `HttpPost` has it (`RecvUnsized`).
- A keep between the change of the state by the backup task and its reset would drop the
  update (`firmware_update.c:247`); no page offers the form then (`Offered`).
- The button of the boot loader resets the registry also in the middle of an update
  (`Bootloader/src/main.c:36`).
- A refused post keeps its pbuf (`http_post.c:147`); six of them and the device
  receives nothing any more. Data that comes while the reply is sent is not freed
  either (`httpd.c:2353`).
- A form posted on the second connection turns the next segment of a running
  upload into the start of a body (`http_post.c:53`); `HttpPost.cfg` has one
  connection that posts.
- A wait across the wrap of the tick counter is one tick short of what passed
  (`sys_arch.c:200`, `361`): every 49 days a timer may run a tick late. `OnTime`
  allows for it.
- Under messages that never let the thread wait through a tick no time passes for
  the timers (`timers.c:435`).
- `sys_mbox_new` returns `ERR_OK` also when no queue could be created
  (`sys_arch.c:249`).
- A packet of more pbufs than there are transmit buffers waits for ever in the
  driver (`macb.c:232`): each pbuf takes a buffer, and the MACB is started with the
  last one. `Chains` are assumed to fit.
- `httpd_init` is called by `ethernet_task`, outside the TCP/IP thread
  (`ethernet.c`).
- Without a property, because it is a matter of one line: a frequency of zero
  (`application.c:43`), a `malloc` or `xTaskCreate` whose result is not looked at
  (`ssi_handlers.c:207`, `firmware_update.c:381`), and the read-only flag that the
  page respects and the handler does not (`http_post_handlers.c:98`).

## Assumptions

- A program or data flash page is written completely or, for the program
  flash, left erased; a page of the data flash is written by one command of
  the chip from its buffer.
- An image has a byte at its start address and ends with a byte other than
  0xff (the backup's length is found from it); it fits into its area. The code
  checks neither.
- One upload at a time in `FirmwareUpdate`; what two connections do to each
  other is in `HttpPost`.
- `StalePages = FALSE`: forms are submitted from a page that shows the current
  status.
- `ButtonStates = {"jump_to_application"}` (`ButtonOnlyAtRest` of the proofs): the button
  is held at a reset only while the registry says that the application is to be started, and
  so neither between an upload and the end of its trial nor in a copy. The code does not look at
  the state; README.md:36 and 43 ask for the button at the first start only.
- The page's table disables read-only keys; `UserSet` does not set them.
- HttpPost: a callback delivers one pbuf. A post whose first pbuf does not hold
  the complete part header is of the kind "other", where the search runs over
  the end of the pbuf and its outcome is open.
- Registry: keys that collide have their home in the same sector, before its
  end. The kernel's keys do not collide at all; an application's keys whose
  probe sequence runs over the end of a sector could be hidden by finding 2.
- The table of the registry was reset once, with the button, before it is used.
- SrecUpload: a file has the form that avr32-objcopy gives it (`WellFormed`), and if the
  network changes anything, it is one token, and no data record fits into `current_line`
  behind another line. The code
  checks none of this; what it does otherwise is under "Findings", below 4.
- Webpage: the lead-in of a tag stands neither in a tag that is not complete nor
  behind the first characters of another lead-in, and the page does not end with
  a tag (`TagsApart`). The parser does not go back, and would miss such a tag. The tags
  of `index.shtml` are complete, white space or a `>` stands before each, and it ends with
  `</html>`.
- Webpage.cfg: one page is sent at a time. What `tcp_write` accepts is between
  nothing and what fits the send buffer.
- MACB, from how the driver uses it: it uses the buffers in order, marks the first
  one of a frame and writes the length into the last; a frame that breaks off
  leaves the buffers it had filled, and the buffer at hand is used again; disabling
  reception ends a frame at once. It sends a frame whose
  buffers were all given to it and marks the first one when it is sent; where it comes to a marked buffer in
  mid frame it stops, with its place at the first buffer of that frame.
- MacbTransmit.cfg (`Prompt`): the interrupt of a frame that was sent is served before the
  thread fills another buffer and before the MACB has sent the next frame. `low_level_output` is called by one thread, so that its
  semaphore is never waited for. `ETH_PAD_SIZE` is 0.
- A tick is a millisecond (`configTICK_RATE_HZ`), and a wait with a time-out ends
  after its ticks. A wait is shorter than one lap of the tick counter.

## Plan

Done: `FirmwareUpdate` with `TrialUpdate`, `Registry`, `HttpPost`, in the order
of what a failure costs; then `SrecUpload`, `Webpage` and the start of the tags,
`MacbReceive`, `MacbTransmit`, `TcpipTimers`; then `UploadSession`. Next, in this order:

1. `UploadSession` as the environment of `FirmwareUpdate` and `SrecUpload`, in place of
   their own client actions, which composes the three.
2. FreeRTOS's queue behind the mailboxes and semaphores of `sys_arch.c`: a wait
   that is posted to while it times out.
3. The at45dbx driver below `eeprom.c`: a sector opened for writing, its buffer,
   and the zeros that close it.
