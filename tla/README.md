# AspeQt, verified in TLA+

AspeQt emulates Atari 8-bit peripherals over the SIO serial bus: disk drives, a
printer, a PCLINK file server, a cassette player and an R: (850) modem. The C++
code (`src/src/*.cpp`) has three kinds of threads: the GUI thread, where `Engine`
and the modem's sockets live, the SIO thread (`SioWorker::run`), which serves the
Atari one command frame at a time, and the cassette player's thread. They share
the device table, the serial port objects and the modem's buffers, and talk back
with queued Qt signals. Most of what is hard to test in AspeQt is in that
triangle, and in two more threads that only the GUI talks to: the SSH client's and
the network browser's. This project models them, checks them with TLC on small
instances and proves their safety properties with TLAPS.

## Inventory

| Component | State it keeps | Operations | Hard because | Correct when |
|---|---|---|---|---|
| Device table: `SioWorker`, `SioDevice` | `devices[256]`, each device's `m_deviceNo`, who is allocated | install (deletes what it finds), uninstall, swap, destructor (uninstalls its own number) | raw owning pointers, called from two threads under a recursive mutex | no pointer to a deleted device; a device is in one place and knows it |
| Drive rack: `Engine` | slots present, session record, the loaders in front of D1: | mount, eject, create, swap, add/remove slot, arm/disarm, load executable, loader done | each is several sections of the mutex; the Atari exchanges drives in between; signals arrive later | no disk lost or shared, no dangling pointer, the session tells what is in the rack |
| Remote control, boot shim: `remotecontrol.cpp` | `m_shim`, the disk parked behind it | "xc d1 d2", forwarding, boot detection | changes the table on the SIO thread | with the loader armed nothing moves |
| Executable loader: `autoboot.cpp` | the device it replaced, segments read | boot, segment reads, `$FD` done | ends by a signal that may be stale | D1: goes back to what was there |
| Run control: `Engine`, `SioWorker`, `CassetteWorker` | threads, ports, `m_emulationRunning`, `m_casWasRunning`, `m_restartSioAfterStop` | connect, play, stop, settings, session, USB cable | start/stop are asynchronous, waits block the GUI, one pumps the event queue | one owner of the line, the UI shows the truth, nothing hangs, the tape's end resumes |
| Modem data path: `rdevice.cpp`, stream mode of `sioworker.cpp` | two buffers, mode on both sides, hold timer | socket data, result codes, READ, stream in and out, hang-up, options | two threads; the mode changes outside the mutex | a call is a pipe; the Atari that asserts COMMAND is heard |
| Modem calls: `rdevice.cpp` | sockets, ring phase, AT buffer, escape | dial, answer, ATO/ATH/ATZ, `+++` | late signals of replaced sockets, flags read twice | one call at a time, bytes go where the Atari thinks |
| SSH: `sshclient.cpp` | back-end thread, prompts | connect, prompt, write, disconnect | its own thread and timers | no ghost connection |
| Serial ports: `serialport-*.cpp` | handle, cancel flag, speed | open, close, cancel, frames | a refused speed, timeouts | closed when nobody uses it |
| Disk images: `diskimage.cpp` | geometry, temporary file and its position, modified flag, type | read, write, format, save, save as, auto-commit | a save races the Atari's commands; failures half-way; two threads, one position | a sector read is the sector written; an unmodified image is in its file |
| Other images: `diskimagepro.cpp`, `folderimage.cpp` | phantom sectors; a directory made from a host folder | read | timing; names | as the disk they stand for |
| File systems: `atarifilesystem.cpp` | directory, free map | insert, extract, delete | allocation | chains disjoint from the free map |
| PCLINK: `pclink.cpp` | 16 handles, parameter blocks | open, read, write, seek, directory | status is read in a second command | a handle is one file |
| Network: `networkbrowser.cpp`, `tnfsclient.cpp`, `ftpclient.cpp`, `sftpclient.cpp` | what is shown; the worker's client, session, sequence number | open, list, download, close, reconnect | requests and results cross; answers are lost and sessions expire | the view is the server's; the file is the one clicked, and all of it |
| Others | | printer, phone book, settings, QML, translations, Android back-ends, vendored USB drivers, 6502 code | | not planned: data, rendering and I/O |

How they interact: the QML side calls `Engine` slots; `Engine` calls
`SioWorker::installDevice`, `uninstallDevice`, `swapDevices`; the SIO thread calls
`handleCommand` of the device it finds, holding `deviceMutex` for the command;
`RemoteControl` calls back into `swapDevices` from there; `SioWorker`,
`CassetteWorker`, `AutoBoot` and `RemoteControl` emit signals that `Engine` gets
later; `RDevice` lives in the GUI thread and is called from both. It asks `SshClient`,
whose `SshBackend` runs in a thread of its own, by queued signals both ways, as
`NetworkBrowser` asks its `NetworkWorker`. A `SimpleDiskImage` is used by the SIO thread
under its own lock and by `Engine`'s save, auto-commit and explorer.

`PROJECT.json` lists every component with its state of modelling and every hazard
at its line, with the properties that cover it or why none does yet.

## Modules

* **`SioTable`**: the device table. The operators `Install`, `Uninstall`, `Swap`,
  `Destroy` are the member functions, on a record of the table, the numbers and
  the allocated objects; the state machine `Spec` is the *contract* under which
  callers may use them (install only what is allocated and nowhere installed,
  never exchange a drive with itself, ...).
* **`SioTable_proofs`**: its theorems.
* **`DriveRack`**: the engine's slots and the SIO thread on that table
  (`T == INSTANCE SioTable`). A slot of the engine is a sequence `todo` of calls,
  one per section of `deviceMutex`, because the SIO thread may serve a command
  between any two; `TableCall` is a call to `SioWorker`, `Disarm`, `Arm`, `Eject`,
  `HandBack`, ... are the engine's own functions in the order they call each other.
  `events` is the queue of signals for the GUI thread, `doomed` what
  `deleteLater()` still has to delete, `behind` the pointers `BootShimImage::m_real`
  and `AutoBoot::oldDevice`. Its property `TableContract` is `T!Spec`: the rack
  *implements* the table's contract.
* **`DriveRack_proofs`**: its theorems, that refinement among them. It uses
  `SioTable_proofs`' lemmas of the table's operators.
* **`RunControl`**: who has the serial line open. Port objects are numbered; `sio`
  and `tape` are the two threads with the pointers they hold; `todo` is again the
  rest of the current engine slot, so that `wait()` blocks and
  `processEvents()` delivers queued signals half-way, as in `loaderPlayCas`.
* **`RunControl_proofs`**: its theorems.
* **`ModemLine`**: the R: device's two buffers between the network and the Atari,
  the mode in `RDevice::state` and in `SioWorker::m_isStreaming`. Every section
  under `m_bufferMutex` and every assignment to the two mode flags, which no
  mutex protects, is a step. `handleStream` is the steps `ServeStream`, `Merge`,
  `Flip`, `Speed`; a pass of `runStreamMode` is `Dequeue`, `Raw`, `Guard` and,
  when it leaves, `Keep`, `Back` (`forceCommandMode`).
* **`ModemPipe`**: what a telnet call promises, an ordered queue that loses only its
  end and only on purpose. `ModemLine` refines it: `queue <- ` the telnet pieces of
  `net \o tx`.
* **`ModemLine_proofs`**: the theorems of both.
* **`ModemCall`**: the same device's *calls*. `modem` is what the GUI thread keeps:
  the telnet socket's state, `m_isNetworkConnected` (`online`), `m_isSshMode`, the login's
  question (`m_sshAsk`), the caller who is ringing. `posts` is what the SIO thread
  posted (`dispatchToNetwork`, `executeAtCommand`, `hangup`, the escape timer's start and
  stop); a handler of the GUI thread is one step: `AtCommand`, `Dispatch`,
  `NewConnection`, `SocketConnected`, `SshSignal`, ... `back` is `SshBackend` with the
  requests not yet taken (`modem.requests`) and the signals not yet heard (`events`); a
  request's slot is one step, since only its signals are seen outside. Two ghosts:
  `told` is what the Atari was told last, `wanted` whose call was asked for.
* **`ModemCall_proofs`**: its theorems.
* **`DiskGeometry`**: sizes and offsets, as pure operators on a geometry: `TotalSize`,
  `SectorPos`, and the number of sectors that `openAtr` and `openXfd` guess. No state.
* **`DiskGeometry_proofs`**: their theorems.
* **`DiskImage`**: one `SimpleDiskImage` on these operators, with its temporary file and
  the *one position* both threads read and write at. The SIO thread's command is two or
  three steps under the image's lock (`WriteStart`, `WriteMark`, `WriteData`), a save
  is `SaveOpens`, then `SaveReads` and `SaveCopies` for each round of the copying loop,
  then `SaveDone`: the granularity at which an unlocked auto-commit can see a command.
  `host` is the image's file, `output` the one a save is writing: the same, or for a "save
  as" another, which becomes `host` in `SaveDone` only, as `m_originalFileName` is set
  after the copy, while the type is set before (`SaveAs`). What a save that fails leaves of
  the file is any beginning of it (`Truncated`). `Killed` is a death of the program and the
  next start.
  `put` and `kept` are ghosts: what each sector should hold, now and in the last save.
* **`DiskImage_proofs`**: its theorems, on `DiskGeometry_proofs`' lemmas.
* **`NetBrowser`**: `NetworkBrowser` (`shown`), the queues in both directions, and
  `NetworkWorker` with its `TnfsClient`, one step per command of the protocol. A command is
  answered, or given up after four tries; a session may be lost at any time. `worker.size`
  counts the bytes read (`off`), `worker.saved` those that got into the local file: a
  failed write, or the last one in `close()`, keeps only a `Part`.
* **`NetBrowser_proofs`**: its theorems.
* **`MC*`** with the `.cfg` files: the instances TLC checks.

`PROJECT.json` maps every definition to the lines it stands for.

## Runs

| Run | Shows | Bounds |
|---|---|---|
| `table` | the contract keeps the table sound, a swap trades two slots and deletes nothing | 4 devices, 3 slots: one device more than fits, one slot besides the two an operation touches |
| `rack` | types, no dangling pointer, no disk lost or shared, session and rack agree, the shim leaves with emulation, an armed shim stands at D1:, and the contract is kept | 2 drives and 3 disks, so that the rack can be full while a third image is mounted; 2 shims, 1 executable, 1 queued signal before the worker is held back (a stop adds another) |
| `run_control` | the UI's truth, one port open, none left open, tapes are not cut short, "stay disconnected", no endless wait, resume after a tape | 4 ports (each thread's, one replaced, one spare), 2 queued signals before the user is held back |
| `modem_data` | text is conserved, in order (also as a refinement of `ModemPipe`), carried over between modes; both sides agree on the mode; closing bytes are kept; COMMAND is heard, what waits is sent | 2 pieces of text, 1 byte: one piece waits in each buffer while the mode changes under it |
| `modem_call` | the Atari is told the truth about where its bytes go; one call at a time; a caller does not ring for ever; a call that is over leaves the modem free | 2 things the Atari types, 1 act of the user, 2 callers: a call and what ends it, against a second caller and the signals of the call before |
| `disk` | an image not modified is in its file, also after saves that failed; a sector reads back what was written; a change reaches the file by itself | sectors 3 and 4, the last short and the first long one of a double-density disk; 3 commands, 2 failures or deaths: a save that fails, the next one, and a death or a failure in it |
| `browser` | the view settles on the server it is connected to; the file handed over is the one clicked, with all the bytes that were read unless a write failed; the browser does not stay busy | 2 servers, 4 requests of the user, 2 failures: a listing's, and that of the reconnect that follows |
| `rack_loading`, `run_both`, `modem_off`, `modem_deaf`, `disk_autocommit` | one violated claim each, below | the smallest instance that shows it, or that of the module's passing run |

The safety properties of `modem_call` and `disk` were also checked once with a larger
bound (three things typed; four commands on the disk, with one failure): nothing new
appears.

**What disturbs a property is named, not hidden.** Some properties hold only when
certain races do not happen. In `DriveRack` these are the members of the constant
`May` (`midslot`, `interfere`, `hidden`), empty in `rack`; elsewhere a ghost variable
`upset` records them when they happen and the property that needs their absence says
which. Each is a weakness of the code, reachable in the model, and TLC shows the
violation when its name is struck from the property:

| Module | Name | What happens |
|---|---|---|
| `ModemCall` | `dialing` | a hang-up while a call is being set up gives neither an SSH login nor a TCP connection up, and leaves the login's question open |
| | `hasty` | a call is dialled or answered before the SSH call before it is known to have ended: its end takes the new call off line |
| | `ringing` | a call is dialled while a caller rings, or a caller let in during an SSH login or while an SSH call is left with `+++`, which ATO cannot return to |
| | `deaf` | a caller is answered with `m_isSshMode` left over: finding 4 |
| `DiskImage` | `overlap` | the Atari uses the disk while a change is auto-committed without the lock: finding 5 |
| | `failed` | a save failed: an auto-commit is not tried again. `Committed` and `ReadsBack` hold all the same |
| | `torn` | the save that failed had begun to write the image's own file, whose old contents are gone; the image stays modified and in use, and those two hold |
| | `emptied` | as before, of an image without changes: it still says it has none |
| | `unflushed` | the last bytes of a save are lost when the file is closed, after success was reported |
| | `short` | a format whose resize failed reports success |
| | `retyped` | after a failed "save as" the next save writes the new type into the old file, see below |
| | `xfd` | an XFD file's size alone tells its geometry, sometimes another one |
| | `explored` | auto-commit toggled while the explorer holds the lock: the GUI thread waits for itself |
| | `killed` | the program dies while the image's own file is being written, or is torn |
| `NetBrowser` | `late` | the user asks for something while an answer is under way: after Home a late answer connects the view to nobody, a name clicked in one server's list may be fetched from another |
| | `cut` | a READ or READDIR that timed out is taken for the end |
| | `refused` | a server that does not answer costs the one that was connected, and the view does not show it |
| | `full` | a write to the local file failed, and nobody looked, see below |

`midslot` deserves a word: with it, *none* of the rack's table properties
holds, because the engine's slots are several sections and the Atari can exchange two
drives between any two of them. With `May = {"midslot"}` in `RackLoading.cfg`, TLC
shows an exchange between the sections of `armHighSpeedAtrBoot` (engine.cpp:824) that
leaves a disk parked behind the loader and in D2: as well; ejecting D2: leaves the
loader a dangling pointer, the case the comment at engine.cpp:989-991 guards against for
D1: only. The window is short: the Atari sends one "xc" per boot. The user acting before
the engine has *heard* of an exchange is another matter, lasts longer, and is part of
`rack` (`raced`); only the session suffers. `rack` also takes the request
to be the one the boot loader sends, "xc 1 2". With `Requests <- BackwardsXc` and
`NoDiskLost`, TLC shows that "xc 2 1" is not recognised as the loader's
(remotecontrol.cpp:105 looks at the first drive), moves the loader to D2: and leaves a
disk that believes to be D1:, whose eject empties D1:.

### Findings

1. `rack_loading`: an executable loaded over an armed shim remembers the shim as what
   D1: held; when emulation then stops, the shim is deleted, and D1: is later handed
   back to it (engine.cpp:738 "hand D1 back to whatever was there").
2. `run_both`: settings changed, then Play before the SIO thread has left: the pending
   restart is delivered by `loaderPlayCas`'s own `processEvents()`, and tape and
   disk drive the line together (engine.cpp:682-683 says never).
3. `modem_off`: switching the R: device off in stream mode changes the modem's mode
   only; the SIO thread stays in stream mode and hears no COMMAND until emulation is
   restarted (engine.cpp:2107-2108: "does not need a restart").
4. `modem_deaf`: an SSH call ends, a caller rings and is answered; `m_isSshMode` is still
   set, and what the Atari types goes to an SSH client without a session, not to the
   caller (rdevice.h:125: "True while the current call is SSH rather than telnet").
5. `disk_autocommit`: auto-commit saves without the image's lock (engine.cpp:945). The
   copying loop and the Atari's command share the temporary file's position: after a mere
   *read* at the wrong moment the loop finds nothing left to copy, the file is
   left empty, and the image is marked as saved (engine.cpp:941: "write the image
   out as soon as it is modified").

Two more of the code's own defects are among the names above, with no run to themselves:

* `retyped`: "save as" sets the image's type before it saves (diskimage.cpp:725), its
  file name only when the copy has succeeded (603, 665). After one to an `.xfd` name that
  failed, the next save writes headerless data into the old `.atr` file and clears
  `m_isModified`; nothing can open the file, and the disk is ejected without a question
  (history.txt:150: "Unmount will not unmount disks that have changes until the changes
  are commited"). With `"retyped"` added to `Intact`, TLC shows it in `disk` for
  `Committed`.
* `full`: `doDownload` looks neither at `out.write` (networkbrowser.cpp:178) nor at
  `out.close` (183): with a full disk a short or empty file is announced and mounted
  (networkbrowser.h:47: "download, then emit saved()", shown as "Saved to"). With
  `"full"` struck from `GetsWhatWasClicked`, TLC shows it in `browser`.

## Fairness

* `RunControl`: weak fairness of the event loop, of the running engine slot, and of
  each step of the threads that is bound to happen (a started thread begins, an
  open returns, a canceled read gives up, a tape's last byte is sent and its port
  closed): the OS schedules threads, Qt delivers posted events, and the loops poll
  `mustTerminate`, `mCanceled` or the mutex with a timeout. Nothing is assumed of the
  user, of the Atari or of a port's failing.
* `ModemLine`: weak fairness of the SIO thread's next step (it is a loop that
  does not block in stream mode, and in command mode polls the line) and of
  the hold timer running out. Nothing is assumed of the network. `command` means the
  Atari wants to talk SIO and retries until it is served, as SIO drivers do; a
  single COMMAND pulse may fall between two looks of the 20 ms guard.
* `ModemCall`: weak fairness of the GUI thread's events (`Deliver`, `SshSignal`), of
  the back-end taking a request (its slots block for a time-out at most), of the two
  timers, and of a socket told to close. Nothing is assumed of the Atari, the user,
  callers, servers or a connection attempt.
* `DiskImage`: weak fairness of the SIO command that has begun (it ends within a frame's
  time), of the queued `statusChanged` and of a save's next step. `StatusChanged` waits for the
  command as `getDevice` does, and once events are queued nothing else can stand in
  its way but a GUI thread that waits for itself (`explored`).
* `NetBrowser`: weak fairness of the worker, each of whose commands ends after 1.2 s
  at the latest, and of the GUI thread hearing a result. Nothing is assumed of servers.
* `DriveRack` and `SioTable` have safety properties only.

## Proofs

Every safety property that a passing run checks is also a theorem, for every value of
the constants. The bounds are constants too (`MaxPorts`,
`MaxEvents`, `MaxTyped`, `MaxCommands`, ...): the theorems hold whatever they are, so
none of these properties owes its truth to a bound. What is assumed is what each module
says of its constants in its named `ASSUME`, which TLC evaluates in the runs, and the
two hypotheses named below (`Undisturbed`, and a format's number of sectors).

Most of these properties are far from inductive. Each section says what the invariant
adds. Every inductive invariant was first checked by TLC on the instance of the
module's run, some of them on a larger one.

### The device table: `SioTable_proofs`

Assumption: the null pointer is no device and -1 no slot. `TableInvariant` is
`Spec => []Inv`, with `Inv == TypeOK /\ TableSound`; the rest follows from it
(`TypeCorrect`, `TableIsSound`, and the action property `SwapOnlyTrades`).

The invariant joins two facts because neither is inductive alone: the destructor
takes a device off the table *through the number it carries*, so a live table needs
every installed device to carry its slot's number, and that in turn makes the table
injective (`SoundIsInjective`), so that uninstalling or deleting a device in one slot
cannot touch another. Each operator has a lemma for its fields (`UninstallFields`,
`DestroyFields`, `InstallFields`, `SwapFields`), one for its soundness, and
`NextInv` has one step per action.

### The rack: `DriveRack_proofs`

For any number of drives, images and loaders: `TypeCorrect`, `NoDanglingPointers`,
`DisksKept`, `ShimLeaves`, `ShimAtD1`, `SessionTrue`, and `RefinesTable`, that every
section of the engine and of the remote control is one the table's contract allows. The
theorems of `SioTable` therefore hold of the rack (`RackTableSound` says it of
`TableSound`).

They assume `Undisturbed`, which is the exposure `rack` has, and no more than it needs:
`May \subseteq {"hidden"}`, since each of the other two disturbances breaks these very
properties (see above), and of the boot loader's request that it names two drives and
D1: first, or not at all: `"xc 2 1"` breaks them as well, and the loader sends `"xc 1 d"`.
`SessionTrue` assumes besides that no drive whose slot was removed is exchanged
(`"hidden" \notin May`): the engine ignores such an exchange, and its session with it.

Between two slots of the engine the rack is easy to describe (`Rest`): the table is
sound, every disk is in a drive or behind the loader in D1:, the engine's
pointers are to objects that stay, and what waits for `deleteLater()` has no drive.
Within a slot none of that need hold, and a slot is up to a dozen sections long. So the
invariant `RackInv == Slot /\ Kinds /\ Queue` says for each *phase* of a slot
(`ArmSlot`, `DisarmSlot`, `EjectSlot`, `SwapSlot`, `BackSlot`, `LoadSlot`) what has been
done so far and what is left in `todo`: which disk was taken off the table and is held
by whom, whether the loader is already forgotten, that a hand-back is still to come.
`Queue` says what the signals not yet delivered can still do. `RackStep` has one step
for each call a slot is made of.

What the session has on record (`SessionTells`) need not be what is in the drives while
the engine has still to hear of an exchange, nor within a slot, so `SessionInv` is about
the session *to come*. `Told` says that there is a sequence of sessions, one for each
signal still queued, that begins with the one on record and takes each exchange as
`onDrivesExchanged` will, and that the last of them fits the rack (`Fits`): for each drive
it names the disk that is there, or nothing, or a call in `todo` is about to record that
drive. D1:'s disk may be behind any loader, or on its way back; it is enough that it is
allocated, in no other drive and bound for none (`Elsewhere`). `Clear` keeps the two
kinds of writers apart: a slot that writes the session runs with no exchange to hear of,
or the user has acted too early and `raced` says so. Each call that writes the session has
a lemma (`MountFits`, `DeleteFits`, `SwapFits`), those that do not have one together
(`StillFits`), and an exchange by the Atari extends the sequence (`ToldOfOneMore`).

### Run control: `RunControl_proofs`

For any number of port objects and queued signals: `TypeCorrect`, `UiIsTrue`,
`TapeStopsWhenAsked`, `OffStaysOff`, `OneOwner`, `LineIsClosed`.

`Inv` is the types and `Places /\ Heard /\ Told /\ Situation /\ Off /\ Held`. The UI's
flag is true only when nothing is pending; in between, a stop may be under way, a start's
signal not yet heard, and a tape waiting for the line. `Situation` names the cases
(`Down`, `Coming`, `Started`, `Failed`, `Serving`, `Hearing`) and says for each which
signals are queued, how far the slot is and what the flag is; every action takes one
situation to another. It holds while nobody has acted before the engine heard that a
thread started or ended, or while emulation was on its way down (`Quiet`): the runs show
what happens otherwise. `Places` says where in a slot a stop and the tape's start may
stand, `Heard` what the last signal still queued says of the thread, `Told` that the
cassette player finds itself stopped only when it was asked to, `Off` that no restart and
no resume is left when everything was switched off, and `Held` that each open port is held
by one of the threads' pointers, so that `wait()`, which deletes it, leaves none.

### The modem's data: `ModemLine_proofs`

For any number of pieces of text and of bytes: `TypeCorrect`, `SidesAlwaysAgree`,
`NothingLeftBehind`, `NothingLost`, `SshStaysInOrder`, the action property
`BytesAreKept`, and the refinement `PipeImplemented` (initial states to
initial states, each step a step of `ModemPipe` or a stutter).

`Inv == Control /\ Buffered /\ Plain /\ Whole /\ Ordered`. `Control` ties the SIO
thread's place to the two flags: whoever looks at one of them in between sees a
disagreement, which must be over by the next pass, and what is in `m_txBuffer` during the
window between the two. The data parts rest on one lemma: whatever step is taken, it
treats the text in one of eight ways (`EveryMove`: a piece arrives, one is delivered,
the buffers are joined, emptied, ...), and each way preserves wholeness (`WholeMoves`)
and order (`OrderedMoves`), by lemmas about concatenated sequences without repetition.

### The modem's calls: `ModemCall_proofs`

For any number of calls, callers and logins: `TypeCorrect` (with it, that a caller who
rings has a timer that ends it), `OneCall`, `ToldIsTrue`.

`OneLine` needs `Exclusive`, which adds that a telnet call or a caller who rings excludes
an SSH login among the requests not yet served as well as an SSH call. `ToldTruth` needs
to know what may be *in the two queues* between the GUI thread and the SSH client's at
each stage of a login, because every signal of a call that was replaced can still arrive
and is told from the new call's by nothing but its place:
`Ssh == Numbered /\ OneKey /\ Knew /\ LoggingIn /\ LoginAsked /\ Reported`. It holds while
no race that `ToldTruth` names has happened (`Consistent == Clean => Calls`); the types
are proved without that condition.

### The disk image: `DiskImage_proofs` and `DiskGeometry_proofs`

`DiskGeometry_proofs` proves, for every number of sectors and each of the four sector
sizes, that sectors follow each other without a gap (`SectorsTile`), share no byte
(`SectorsApart`) and fill exactly the size `initialize` computes (`SectorsFit`), the three short boot
sectors of double density included; and that a saved ATR file is accepted and opens
with the number of sectors it had (`AtrReopens`), if that is below 65536. It rests on
`Sizes`, which writes the size out by cases, and on arithmetic.

`DiskImage_proofs` proves for any formats, sectors, commands and faults: `TypeCorrect`
(with who holds the lock at each place of the two threads), and `UnmodifiedIsSaved`
and `SectorsReadBack`, these two for formats of fewer than 65536 sectors: the count is
a `quint16`, and an ATR file of 65536 sectors opens again with none.

The invariant is `Flat /\ Kept`, with
`Kept == Alone /\ Sectored /\ Copied /\ Filed /\ Restored`. `Flat` is typing, the lock, and
what a save has in hand; it holds in every state. `Kept` holds while nothing worse has
happened than failed saves (`Intact`): a command or a save that is half-way has moved the *shared* position itself (`Alone`), so
what it reads or writes next is where it believes; each sector of the temporary file is
what was last put there (`Sectored`); what a copying loop has written is a beginning
of it, and the rest is still ahead of the position (`Copied`); an image without changes is
in its own file, while a "save as" writes another too, and one whose file is torn
has changes (`Filed`); and a file that is not torn holds what the last save kept
(`Restored`). That is where `AtrReopens` and the sizes of an XFD file come in. That two sectors share no byte
(`SectorsApart`) is what lets a write leave the others alone.

### The network browser: `NetBrowser_proofs`

For any number of servers, requests and faults: `TypeCorrect`, `BrowserSettles`,
`RightFile`. `BrowserInv == Types /\ Served /\ Sized /\ ReadSoFar /\ OneAtATime`: while
nobody asks for something too early there is *one* request, and `OneAtATime` follows it
from the browser's queue through the worker's commands back to the result (`Quiet`,
`Waiting`, `Working`, `Replied`), with what the view will be if it succeeds and what
a failure goes back to. `Sized` and `ReadSoFar` say that what the worker has read of a file
or a directory is a beginning of it, which a loss of the session must not change, and
`Sized` that the local file has all of it unless a write failed. That a file is whole is
therefore proved only of downloads without a command given up and without a failed
write (`cut`, `full`); the code takes both for success.

### What stays with TLC

* Liveness under fairness, and what depends on ENABLED, which TLAPS does not prove here:
  `NotFrozen`, `ResumeAfterTape`, `AtariHeard`, `Drained`, `RingEnds`, `LineFreed`,
  `AutoCommits`, `BusyEnds`.

## What is not modelled, and why

* In `DriveRack`: PCLINK links that follow a swap, saving and auto-commit, the
  explorer's lock, the shim's decision when to serve and when to forward (its *place*
  is modelled, what it answers is not), file names.
* In `RunControl`: the duplicate `connect()` of each Play (the slot then runs twice,
  the second time finding nothing to do), the user re-entering the engine during
  `processEvents()`, the timer that moves the progress bar.
* In `ModemLine`: telnet negotiation, connections and logins (they are `ModemCall`'s),
  pacing; a call is of one kind per behaviour.
* In `ModemCall`: the AT buffer byte by byte (a line arrives whole, so that the unlocked
  `m_atCmdBuffer` is not modelled), echo, macros, the Enter sent 700 ms after an
  SSH connection, `m_stage` beyond host key and question, SFTP requests; `dial()`
  has no caller. An answered caller's socket keeps a connection to
  `onPendingSocketDisconnected`, which then finds no caller.
* In `DiskImage`: one disk in one place (the rack is `DriveRack`'s); PERCOM blocks, write
  protection, compressed and DCM/SCP/DI images (a DCM file stands for all that cannot
  be saved), what the explorer writes, the repair dialogue. A save's own
  `statusChanged` and the engine's direct call to `deviceStatusChanged` are one event.
* In `NetBrowser`: FTP and SFTP (they answer the same interface), favourites and
  history, sorting, the confirmation before a download (it is part of the click),
  `refresh()` and `reopenLast()`, which nothing in the interface calls. The server is taken
  to answer a repeated sequence number with the same answer. `readFile`'s windowed path
  is never taken: the browser asks for 512 bytes, what one datagram holds.
* `src/src/i18n/*.ts` are Qt Linguist translation catalogues, XML lists of messages, not
  TypeScript: there is no behaviour in them to model. The
  implementation is the C++ in `src/src/*.cpp`.
* Everything else in the inventory without a module.

## Plan

Done: the device table, the rack, run control, the modem's data and calls, the disk
image, the network browser; and the proofs of their safety properties. Next, in this order:

1. **`PcLink`**: handles and the two-command protocol; the boot shim's own protocol.
2. **`AtariFs`**: sector chains against the free map, on `DiskImage`'s sector writes.
3. The explorer's disk going away, and PCLINK links, in `DriveRack`.
