----------------------------- MODULE DriveRack ------------------------------
(***************************************************************************)
(* Who owns the disks of the drive rack. The engine (engine.cpp, the GUI   *)
(* thread) mounts, ejects and swaps the disks, puts a boot loader in front *)
(* of D1: (BootShimImage, for high speed, and AutoBoot, for an executable) *)
(* and takes it out again; the SIO thread serves the Atari from the same   *)
(* table and, when the Atari asks the remote control ($61) to exchange two *)
(* drives, changes it too (remotecontrol.cpp).                             *)
(*                                                                         *)
(* Every section of SioWorker::deviceMutex is a step of its own. A slot of *)
(* the engine is a sequence of such sections: "todo" holds the calls it    *)
(* still has to make, and the SIO thread may serve a command between any   *)
(* two of them. Nothing else of the GUI thread runs before todo is empty.  *)
(***************************************************************************)
EXTENDS Integers, Sequences, FiniteSets, FiniteSetsExt, SequencesExt

CONSTANTS Files, Untitled,  \* images mounted from a file, images made by createDisk
          Shims, Boots,     \* the loaders: BootShimImage, AutoBoot
          NumSlots,         \* the hardware slots (MAX_DISKS)
          Requests,         \* the "xc d1 d2" the Atari may send
          HighSpeed,        \* the "high-speed ATR loader" option
          May,              \* the disturbances this system is exposed to, see below
          MaxEvents,        \* bound: queued events before the worker is held back
          NoDev, NoSlot

Disks   == Files \cup Untitled
Slots   == 0 .. NumSlots - 1
Devices == Disks \cup Shims \cup Boots

ASSUME RackAssumption ==
    /\ NumSlots \in Nat \ {0}
    /\ NoDev \notin Devices /\ NoSlot \notin Slots
    /\ Files \cap Untitled = {} /\ Disks \cap Shims = {} /\ Disks \cap Boots = {} /\ Shims \cap Boots = {}
    /\ Requests \subseteq (1 .. NumSlots) \X (1 .. NumSlots)
    /\ HighSpeed \in BOOLEAN
    /\ May \subseteq {"midslot", "interfere", "hidden"}
    /\ MaxEvents \in Nat

(* What may happen besides the ordinary life of the rack:                  *)
(*   "midslot"    the Atari exchanges two drives between two sections of a *)
(*                slot of the engine                                       *)
(*   "interfere"  D1: changes, or emulation starts or stops, while an      *)
(*                executable is loading                                    *)
(*   "hidden"     the Atari exchanges a drive whose slot was removed       *)

VARIABLES
    rack,         \* the device table, see SioTable
    behind,       \* the device a loader stands in front of: BootShimImage::m_real, AutoBoot::oldDevice
    hisio,        \* Engine::m_hisioLoader
    remoteShim,   \* RemoteControl::m_shim, read by the SIO thread
    autoBoot,     \* Engine::m_autoBoot
    autoBootOld,  \* Engine::m_autoBootOld
    doomed,       \* objects whose deleteLater() the event loop has not served yet
    present,      \* m_slotPresent
    session,      \* the image AspeqtSettings has on record for each slot
    emulating,    \* m_emulationRunning
    thread,       \* is the SIO thread running
    events,       \* signals queued for the GUI thread
    todo,         \* the calls the current slot of the GUI thread has still to make
    raced         \* has the user acted before the engine had heard of an exchange?

pointers == <<hisio, remoteShim, autoBoot, autoBootOld>>
user     == <<present, session>>
run      == <<emulating, thread>>
vars     == <<rack, behind, pointers, doomed, user, run, events, todo, raced>>

T == INSTANCE SioTable

Loaders   == Shims \cup Boots
OrNone(S) == S \cup {NoDev}

(* A call an engine slot makes: on a drive, with a device or another drive. *)
Call(f, n, with) == [fn |-> f, slot |-> n, with |-> with]
Event(e, a, b)   == [ev |-> e, d1 |-> a, d2 |-> b]

TypeOK ==
    /\ T!TypeOK
    /\ behind \in [Loaders -> OrNone(Devices)]
    /\ hisio \in OrNone(Shims) /\ remoteShim \in OrNone(Shims)
    /\ autoBoot \in OrNone(Boots) /\ autoBootOld \in OrNone(Devices)
    /\ doomed \subseteq Loaders
    /\ present \subseteq Slots /\ present # {}
    /\ session \in [Slots -> OrNone(Disks)]
    /\ {emulating, thread, raced} \subseteq BOOLEAN
    /\ \A i \in DOMAIN events : events[i].ev \in {"started", "finished", "loaderDone", "exchanged"}
    /\ \A i \in DOMAIN todo : /\ todo[i].slot \in Slots \cup {NoSlot}
                              /\ todo[i].with \in OrNone(Devices) \cup Slots

-----------------------------------------------------------------------------
(* Engine::diskAt: the disk in a slot, seen past the high-speed loader.    *)
DiskAt(n) ==
    LET d == IF hisio # NoDev /\ rack.dev[n] = hisio THEN behind[hisio] ELSE rack.dev[n]
    IN  IF d \in Disks \cup Shims THEN d ELSE NoDev

Behind(o) == IF o \in Loaders THEN behind[o] ELSE NoDev

(* The objects a command frame for drive n can be passed on to. *)
Chain(n) == LET a == rack.dev[n]
                b == Behind(a)
                c == Behind(b)
            IN  {a, b, c, Behind(c)} \ {NoDev}

(* An object not in use: new returns memory nobody points to any more. *)
Pointed == T!Installed(rack) \cup {Behind(o) : o \in rack.live}
           \cup {hisio, remoteShim, autoBoot, autoBootOld}
           \cup {session[n] : n \in Slots} \cup {todo[i].with : i \in DOMAIN todo}
Fresh(S) == S \ (rack.live \cup Pointed)

Exchanging == \E i \in DOMAIN events : events[i].ev = "exchanged"
Switching  == \E i \in DOMAIN events : events[i].ev \in {"started", "finished"}
AtRest     == todo = <<>> /\ events = <<>>
Loading    == autoBoot # NoDev \/ \E i \in DOMAIN todo : todo[i].fn = "loadXex"
D1Free     == "interfere" \in May \/ ~Loading

NumDisks == 1 + Max(present)   \* m_numDisks: up to the highest slot still present

-----------------------------------------------------------------------------
(* The calls an engine slot is made of. Each takes itself off todo, and a  *)
(* function that calls others puts those in its place.                     *)
Running(f)    == todo # <<>> /\ Head(todo).fn = f
This          == Head(todo)
Return(calls) == todo' = calls \o Tail(todo) /\ UNCHANGED raced
If(c, calls)  == IF c THEN calls ELSE <<>>

(* SioWorker's functions, and what the engine records next to them: only   *)
(* the GUI thread looks at the session, so it joins the table's section.   *)
TableCall ==
    /\ \/ /\ Running("uninstall")
          /\ rack' = T!Uninstall(rack, This.slot)
          /\ UNCHANGED session
       \/ /\ Running("install")
          /\ rack' = T!Install(rack, This.slot, This.with)
          /\ UNCHANGED session
       \/ /\ Running("mount")
          /\ rack' = T!Install(rack, This.slot, This.with)
          /\ session' = [session EXCEPT ![This.slot] = This.with]
       \/ /\ Running("setDeviceNo")
          /\ rack' = T!SetDeviceNo(rack, This.with, This.slot)
          /\ UNCHANGED session
       \/ /\ Running("swap")
          /\ rack' = T!Swap(rack, This.slot, This.with)
          /\ session' = [session EXCEPT ![This.slot] = session[This.with],
                                        ![This.with] = session[This.slot]]
       \/ /\ Running("delete")   \* the end of ejectImage: delete img, unmountImage
          /\ rack' = T!Destroy(rack, This.with)
          /\ session' = [session EXCEPT ![This.slot] = NoDev]
    /\ Return(<<>>)
    /\ UNCHANGED <<behind, pointers, doomed, present, run, events>>

(* Mutant: a disarm that forgets RemoteControl::forgetBootShim. *)
DisarmRemembered ==
    /\ Running("disarm")
    /\ Return(If(hisio # NoDev,
                 <<Call("findLoader", NoSlot, behind[hisio]), Call("dropLoader", NoSlot, NoDev)>>))
    /\ UNCHANGED <<rack, behind, pointers, doomed, user, run, events>>

(* Engine::disarmHighSpeedAtrBoot: the remote control forgets the loader,  *)
(* the table is searched for it, the disk it hid takes its slot.           *)
Disarm ==
    /\ Running("disarm")
    /\ IF hisio = NoDev
       THEN Return(<<>>) /\ UNCHANGED remoteShim
       ELSE /\ remoteShim' = NoDev
            /\ Return(<<Call("findLoader", NoSlot, behind[hisio]), Call("dropLoader", NoSlot, NoDev)>>)
    /\ UNCHANGED <<rack, behind, hisio, autoBoot, autoBootOld, doomed, user, run, events>>

FindLoader ==
    /\ Running("findLoader")
    /\ LET real == This.with
       IN  \/ \E n \in Slots :
                /\ rack.dev[n] = hisio
                /\ Return(<<Call("uninstall", n, NoDev)>>
                          \o If(real # NoDev, <<Call("install", n, real)>>))
           \/ hisio \notin T!Installed(rack) /\ Return(<<>>)
    /\ UNCHANGED <<rack, behind, pointers, doomed, user, run, events>>

DropLoader ==
    /\ Running("dropLoader")
    /\ doomed' = doomed \cup {hisio}
    /\ hisio' = NoDev
    /\ Return(<<>>)
    /\ UNCHANGED <<rack, behind, remoteShim, autoBoot, autoBootOld, user, run, events>>

(* Engine::armHighSpeedAtrBoot. Whether the disk is a folder that boots    *)
(* high-speed by itself, or the loader cannot be unpacked, is a choice.    *)
Arm ==
    /\ Running("arm")
    /\ \/ Return(<<>>) /\ UNCHANGED <<rack, behind>>
       \/ /\ HighSpeed /\ emulating /\ remoteShim = NoDev /\ rack.dev[0] # NoDev
          /\ \E s \in Fresh(Shims) :
               /\ rack' = T!Allocate(rack, s)
               /\ behind' = [behind EXCEPT ![s] = rack.dev[0]]
               /\ Return(<<Call("uninstall", 0, NoDev), Call("setDeviceNo", 0, rack.dev[0]),
                           Call("install", 0, s), Call("armed", 0, s)>>)
    /\ UNCHANGED <<pointers, doomed, user, run, events>>

Armed ==
    /\ Running("armed")
    /\ hisio' = This.with /\ remoteShim' = This.with
    /\ Return(<<>>)
    /\ UNCHANGED <<rack, behind, autoBoot, autoBootOld, doomed, user, run, events>>

(* Mutant: an eject that does not look for the loader in front of D1:. *)
EjectAsSeen(n) == <<Call("eject", n, NoDev)>>

(* Engine::ejectImage. *)
Eject(n) == If(n = 0, <<Call("disarm", NoSlot, NoDev)>>) \o <<Call("eject", n, NoDev)>>

EjectImage ==
    /\ Running("eject")
    /\ LET n == This.slot
           img == DiskAt(n)
       IN  Return(<<Call("uninstall", n, NoDev)>> \o If(img # NoDev, <<Call("delete", n, img)>>))
    /\ UNCHANGED <<rack, behind, pointers, doomed, user, run, events>>

(* The end of Engine::loaderEject and of loaderBooterDone: D1: goes back   *)
(* to the device that was there when the executable was loaded.            *)
HandBack ==
    /\ Running("handBack")
    /\ Return(If(autoBoot # NoDev,
                 <<Call("uninstall", 0, NoDev)>>
                 \o If(autoBootOld # NoDev, <<Call("install", 0, autoBootOld)>>)
                 \o <<Call("dropBoot", NoSlot, NoDev)>>))
    /\ UNCHANGED <<rack, behind, pointers, doomed, user, run, events>>

DropBoot ==
    /\ Running("dropBoot")
    /\ doomed' = doomed \cup {autoBoot}
    /\ autoBoot' = NoDev /\ autoBootOld' = NoDev
    /\ Return(<<>>)
    /\ UNCHANGED <<rack, behind, hisio, remoteShim, user, run, events>>

(* Engine::loaderLoadXex, past the loaderEject it begins with. A file that *)
(* does not open, or a cassette (loaderLoadCas), leaves the rack alone.    *)
LoadXex ==
    /\ Running("loadXex")
    /\ \/ Return(<<>>) /\ UNCHANGED <<rack, behind, autoBoot, autoBootOld>>
       \/ \E b \in Fresh(Boots) :
            /\ rack' = T!Allocate(rack, b)
            /\ behind' = [behind EXCEPT ![b] = rack.dev[0]]
            /\ autoBoot' = b /\ autoBootOld' = rack.dev[0]
            /\ Return(<<Call("uninstall", 0, NoDev), Call("install", 0, b)>>)
    /\ UNCHANGED <<hisio, remoteShim, doomed, user, run, events>>

EngineCall == \/ TableCall
              \/ Disarm \/ FindLoader \/ DropLoader \/ Arm \/ Armed
              \/ EjectImage
              \/ HandBack \/ DropBoot \/ LoadXex

-----------------------------------------------------------------------------
(* What starts a slot of the engine: an event delivered, or the user, who   *)
(* acts on what the engine has heard.                                      *)
Start(calls) == todo = <<>> /\ todo' = calls /\ UNCHANGED raced
Acts(calls)  == todo = <<>> /\ todo' = calls /\ raced' = (raced \/ Exchanging)

MayChange(n) == n \in present /\ (n = 0 => D1Free)

(* mountFile: a file that does not open is taken off the session before    *)
(* anything else happens; one that does evicts the image in the slot.      *)
MountFile(n) ==
    /\ MayChange(n)
    /\ \E d \in Fresh(Files) :
         /\ rack' = T!Allocate(rack, d)
         /\ Acts(Eject(n) \o <<Call("mount", n, d)>>
                  \o If(n = 0, <<Call("arm", NoSlot, NoDev)>>))
    /\ UNCHANGED <<behind, pointers, doomed, user, run, events>>

MountBadFile(n) ==
    /\ MayChange(n)
    /\ session' = [session EXCEPT ![n] = NoDev]
    /\ Acts(<<>>)
    /\ UNCHANGED <<rack, behind, pointers, doomed, present, run, events>>

(* createDisk: into the first empty slot, or over the last one; the new    *)
(* image has no file yet and the session does not record it.               *)
CreateDisk ==
    LET empty == {n \in present : rack.dev[n] = NoDev}
        no    == IF empty # {} THEN Min(empty) ELSE Max(present)
    IN  /\ MayChange(no)
        /\ \E d \in Fresh(Untitled) :
             /\ rack' = T!Allocate(rack, d)
             /\ Acts(Eject(no) \o <<Call("install", no, d)>>)
        /\ UNCHANGED <<behind, pointers, doomed, user, run, events>>

(* Mutant: a removeSlot that lets the last slot go. *)
EjectPressedAnySlot(n) ==
    /\ MayChange(n)
    /\ IF rack.dev[n] # NoDev
       THEN Acts(Eject(n)) /\ UNCHANGED present
       ELSE Acts(<<>>) /\ present' = present \ {n}
    /\ UNCHANGED <<rack, behind, pointers, doomed, session, run, events>>

(* ejectPressedAt: the image goes first, then the empty slot itself. *)
EjectPressed(n) ==
    /\ MayChange(n)
    /\ IF rack.dev[n] # NoDev
       THEN Acts(Eject(n)) /\ UNCHANGED present
       ELSE /\ present # {n}
            /\ present' = present \ {n}
            /\ Acts(<<>>)
    /\ UNCHANGED <<rack, behind, pointers, doomed, session, run, events>>

AddSlot ==
    /\ present # Slots
    /\ present' = present \cup {Min(Slots \ present)}
    /\ Acts(<<>>)
    /\ UNCHANGED <<rack, behind, pointers, doomed, session, run, events>>

(* Mutants: a swapSlots that takes a slot dropped on itself for a swap,    *)
(* and one that swaps what is in the table, the loader included.           *)
SwapSlotsSame(a, b) ==
    /\ {a, b} \subseteq present /\ D1Free
    /\ Acts(<<Call("disarm", NoSlot, NoDev), Call("swap", b, a), Call("arm", NoSlot, NoDev)>>)
    /\ UNCHANGED <<rack, behind, pointers, doomed, user, run, events>>

SwapSlotsArmed(a, b) ==
    /\ a # b /\ {a, b} \subseteq present /\ D1Free
    /\ Acts(<<Call("swap", b, a), Call("arm", NoSlot, NoDev)>>)
    /\ UNCHANGED <<rack, behind, pointers, doomed, user, run, events>>

SwapSlots(a, b) ==
    /\ a # b /\ {a, b} \subseteq present /\ D1Free   \* even D2: and D3: re-arm D1:
    /\ Acts(<<Call("disarm", NoSlot, NoDev), Call("swap", b, a), Call("arm", NoSlot, NoDev)>>)
    /\ UNCHANGED <<rack, behind, pointers, doomed, user, run, events>>

(* loaderLoadXex (also through loaderRetry), and the loader's eject key. *)
LoadExecutable ==
    /\ Acts(<<Call("handBack", NoSlot, NoDev), Call("loadXex", NoSlot, NoDev)>>)
    /\ "interfere" \in May \/ ~Switching
    /\ UNCHANGED <<rack, behind, pointers, doomed, user, run, events>>

LoaderEject ==
    /\ Acts(<<Call("handBack", NoSlot, NoDev)>>)
    /\ UNCHANGED <<rack, behind, pointers, doomed, user, run, events>>

(* toggleSio; the overlapping starts and stops are in module RunControl. *)
StartEmulation ==
    /\ ~emulating /\ ~thread /\ ~Switching /\ D1Free
    /\ thread' = TRUE
    /\ events' = Append(events, Event("started", 0, 0))
    /\ Acts(<<>>)
    /\ UNCHANGED <<rack, behind, pointers, doomed, user, emulating>>

User == \/ \E n \in Slots : MountFile(n) \/ MountBadFile(n) \/ EjectPressed(n)
        \/ CreateDisk \/ AddSlot \/ \E a, b \in Slots : SwapSlots(a, b)
        \/ LoadExecutable \/ LoaderEject \/ StartEmulation

(* The slots connected to the worker's signals, delivered in order. *)
Deliver(e) == events # <<>> /\ Head(events).ev = e /\ events' = Tail(events)

SioStarted ==
    /\ Deliver("started")
    /\ emulating' = TRUE
    /\ Start(<<Call("arm", NoSlot, NoDev)>>)
    /\ UNCHANGED <<rack, behind, pointers, doomed, user, thread>>

(* Mutant: a sioFinished that leaves the loader where it is. *)
SioFinishedArmed ==
    /\ Deliver("finished")
    /\ emulating' = FALSE
    /\ Start(<<>>)
    /\ UNCHANGED <<rack, behind, pointers, doomed, user, thread>>

SioFinished ==
    /\ Deliver("finished")
    /\ emulating' = FALSE
    /\ Start(<<Call("disarm", NoSlot, NoDev)>>)
    /\ UNCHANGED <<rack, behind, pointers, doomed, user, thread>>

LoaderBooterDone ==
    /\ Deliver("loaderDone")
    /\ Start(<<Call("handBack", NoSlot, NoDev)>>)
    /\ UNCHANGED <<rack, behind, pointers, doomed, user, run>>

(* Mutant: the engine does not hear of the exchange. *)
OnDrivesExchangedUnheard ==
    /\ Deliver("exchanged")
    /\ Start(<<>>)
    /\ UNCHANGED <<rack, behind, pointers, doomed, user, run>>

(* onDrivesExchanged: the session follows what the SIO thread did, for the *)
(* slots the user can see.                                                 *)
OnDrivesExchanged ==
    /\ Deliver("exchanged")
    /\ LET a == Head(events).d1 - 1
           b == Head(events).d2 - 1
       IN  session' = IF a < NumDisks /\ b < NumDisks
                      THEN [session EXCEPT ![a] = session[b], ![b] = session[a]]
                      ELSE session
    /\ Start(<<>>)
    /\ UNCHANGED <<rack, behind, pointers, doomed, present, run>>

(* deleteLater, once control is back in the event loop. *)
DeferredDelete ==
    /\ todo = <<>>
    /\ \E o \in doomed : /\ rack' = T!Destroy(rack, o)
                         /\ behind' = [behind EXCEPT ![o] = NoDev]
                         /\ doomed' = doomed \ {o}
    /\ UNCHANGED <<pointers, user, run, events, todo, raced>>

EventLoop == SioStarted \/ SioFinished \/ LoaderBooterDone \/ OnDrivesExchanged \/ DeferredDelete

-----------------------------------------------------------------------------
(* The SIO thread, inside deviceMutex for the length of a command.         *)

(* RemoteControl::runCommand, "xc d1 d2": with a loader armed, D1: is      *)
(* handed over and nothing moves; otherwise the drives are exchanged.      *)
Exchange(d1, d2) ==
    /\ thread /\ <<d1, d2>> \in Requests
    /\ "midslot" \in May \/ todo = <<>>
    /\ "hidden" \in May \/ {d1 - 1, d2 - 1} \subseteq present
    /\ D1Free
    /\ Len(events) < MaxEvents
    /\ ~(remoteShim # NoDev /\ d1 = 1)
    /\ rack' = T!Swap(rack, d1 - 1, d2 - 1)
    /\ events' = Append(events, Event("exchanged", d1, d2))
    /\ UNCHANGED <<behind, pointers, doomed, user, run, todo, raced>>

(* AutoBoot::handleCommand, $FD: the executable has been read. *)
BootDone ==
    /\ thread /\ Len(events) < MaxEvents
    /\ \E n \in Slots : Chain(n) \cap Boots # {}
    /\ events' = Append(events, Event("loaderDone", 0, 0))
    /\ UNCHANGED <<rack, behind, pointers, doomed, user, run, todo, raced>>

(* The thread leaves its loop: a stop was asked for, or the port failed. *)
ThreadExit ==
    /\ thread /\ D1Free
    /\ thread' = FALSE
    /\ events' = Append(events, Event("finished", 0, 0))
    /\ UNCHANGED <<rack, behind, pointers, doomed, user, emulating, todo, raced>>

Worker == (\E r \in Requests : Exchange(r[1], r[2])) \/ BootDone \/ ThreadExit

-----------------------------------------------------------------------------
Init == /\ T!Init
        /\ behind = [o \in Loaders |-> NoDev]
        /\ hisio = NoDev /\ remoteShim = NoDev
        /\ autoBoot = NoDev /\ autoBootOld = NoDev /\ doomed = {}
        /\ present = Slots
        /\ session = [n \in Slots |-> NoDev]
        /\ emulating = FALSE /\ thread = FALSE
        /\ events = <<>> /\ todo = <<>> /\ raced = FALSE

Next == User \/ EventLoop \/ EngineCall \/ Worker

Spec == Init /\ [][Next]_vars
-----------------------------------------------------------------------------
(* Every section the engine and the remote control run on the table is one *)
(* the table's contract allows: nothing is installed twice, exchanged with *)
(* itself or deleted after it was deleted (the callers of SioWorker's      *)
(* installDevice, uninstallDevice, swapDevices, and of delete).            *)
TableContract == T!Spec

(* What the contract buys: a drive in the table is a live object that      *)
(* knows its own number, also between two sections of a slot, when the SIO *)
(* thread serves the Atari from the table.                                 *)
TableSound == T!TableSound

(* No pointer outlives its object: not in the table, not in a loader that  *)
(* forwards to the disk behind it, not in the remote control (which calls  *)
(* handOver() through it on the SIO thread), not in the engine. The parked *)
(* pointer ejectImage worries about (engine.cpp:989-991) is behind[shim].  *)
NoDangling ==
    /\ \A n \in Slots : Chain(n) \subseteq rack.live
    /\ {hisio, remoteShim, autoBootOld} \subseteq rack.live \cup {NoDev}

(* No disk drops out of the rack: when the engine is between two slots,    *)
(* every image that is allocated can be reached from exactly one drive, be *)
(* it through the loaders in front of it ("dropped from the device table   *)
(* entirely", engine.cpp:1767-1769, is what must not happen).              *)
NoDiskLost == todo = <<>> =>
    \A d \in rack.live \cap Disks : Cardinality({n \in Slots : d \in Chain(n)}) = 1

(* The saved session never tells another story than the rack: at rest, the *)
(* file it names for a drive is the disk in that drive, whoever exchanged  *)
(* the drives (onDrivesExchanged), as long as the user leaves the engine   *)
(* the time to hear of it. It may name nothing: createDisk does not record *)
(* its image, and a mount that failed erases the record of the image that  *)
(* stays in the slot.                                                      *)
SessionTells == AtRest /\ ~raced =>
    \A n \in Slots : session[n] # NoDev => session[n] \in Chain(n)

(* The high-speed loader leaves with the emulation: once the thread has    *)
(* ended and the engine has heard of it, no drive answers as the loader.   *)
ShimGone == AtRest /\ ~emulating /\ ~thread => T!Installed(rack) \cap Shims = {}

(* The remote control swallows "xc 1 ..." only for a loader that really    *)
(* stands in front of D1:, alone or under an executable being loaded.      *)
ArmedAtD1 == todo = <<>> /\ remoteShim # NoDev => remoteShim \in Chain(0)
=============================================================================
