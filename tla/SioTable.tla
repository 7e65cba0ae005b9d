------------------------------ MODULE SioTable ------------------------------
(***************************************************************************)
(* The SIO worker's device table (sioworker.cpp): which device object      *)
(* answers for which drive, the number every object believes it has, and   *)
(* which objects are still allocated.                                      *)
(*                                                                         *)
(* The operators are the member functions of SioWorker and the destructor  *)
(* of SioDevice, each of them one section of the recursive deviceMutex.    *)
(* The state machine is the table's contract with its callers: what they   *)
(* may ask of it so that it never holds a pointer to a deleted device.     *)
(* Engine and RemoteControl, the callers, are in module DriveRack.         *)
(***************************************************************************)
EXTENDS Naturals

CONSTANTS Devices,  \* the device objects a session can allocate
          Slots,    \* the drive numbers: devices[0x31 + slot]
          NoDev,    \* the null pointer
          NoSlot    \* m_deviceNo = -1

ASSUME TableAssumption == NoDev \notin Devices /\ NoSlot \notin Slots

VARIABLE rack
(* rack.dev   devices[], from a slot to the object installed there         *)
(* rack.no    m_deviceNo of every object                                   *)
(* rack.live  the objects that are allocated                               *)

Racks  == [dev  : [Slots -> Devices \cup {NoDev}],
           no   : [Devices -> Slots \cup {NoSlot}],
           live : SUBSET Devices]
TypeOK == rack \in Racks

Installed(r) == {r.dev[n] : n \in Slots} \ {NoDev}

-----------------------------------------------------------------------------
(* SioWorker::uninstallDevice. *)
Uninstall(r, n) ==
    [r EXCEPT !.dev[n] = NoDev,
              !.no = [o \in Devices |-> IF o = r.dev[n] THEN NoSlot ELSE r.no[o]]]

(* Mutant: a destructor that leaves the table alone. *)
DestroyLeft(r, o) == [r EXCEPT !.live = r.live \ {o}]

(* delete o: ~SioDevice takes the number the object carries off the table. *)
Destroy(r, o) ==
    [(IF r.no[o] = NoSlot THEN r ELSE Uninstall(r, r.no[o]))
        EXCEPT !.live = r.live \ {o}]

(* SioWorker::installDevice deletes whatever it finds in the slot. *)
Enter(r, n, o)   == [r EXCEPT !.dev[n] = o, !.no[o] = n]
Install(r, n, o) == Enter(IF r.dev[n] = NoDev THEN r ELSE Destroy(r, r.dev[n]), n, o)

(* Mutant: a swap that installs without having uninstalled. *)
SwapInPlace(r, a, b) ==
    LET first == IF r.dev[b] = NoDev THEN r ELSE Install(r, a, r.dev[b])
    IN  IF r.dev[a] = NoDev THEN first ELSE Install(first, b, r.dev[a])

(* SioWorker::swapDevices. *)
Swap(r, a, b) ==
    LET cleared == Uninstall(Uninstall(r, a), b)
        first   == IF r.dev[b] = NoDev THEN cleared ELSE Install(cleared, a, r.dev[b])
    IN  IF r.dev[a] = NoDev THEN first ELSE Install(first, b, r.dev[a])

(* new SioDevice, and setDeviceNo called on an object from outside. *)
Allocate(r, o)       == [r EXCEPT !.live = r.live \cup {o}, !.no[o] = NoSlot]
SetDeviceNo(r, o, n) == [r EXCEPT !.no[o] = n]

-----------------------------------------------------------------------------
(* What the table expects of its callers: an object is installed while it  *)
(* is allocated and not installed yet, a drive is exchanged with another   *)
(* one, and an installed object keeps the number of its slot.              *)
Init == rack = [dev  |-> [n \in Slots |-> NoDev],
                no   |-> [o \in Devices |-> NoSlot],
                live |-> {}]

AllocateDevice(o) == /\ o \notin rack.live \cup Installed(rack)
                     /\ rack' = Allocate(rack, o)

InstallDevice(n, o) == /\ o \in rack.live \ Installed(rack)
                       /\ rack' = Install(rack, n, o)

UninstallDevice(n) == rack' = Uninstall(rack, n)

SwapDevices(a, b) == a # b /\ rack' = Swap(rack, a, b)

DeleteDevice(o) == o \in rack.live /\ rack' = Destroy(rack, o)

Renumber(o, n) == /\ o \in rack.live \ Installed(rack)
                  /\ rack' = SetDeviceNo(rack, o, n)

Next == \/ \E o \in Devices : AllocateDevice(o) \/ DeleteDevice(o)
        \/ \E n \in Slots : UninstallDevice(n)
        \/ \E n \in Slots, o \in Devices : InstallDevice(n, o) \/ Renumber(o, n)
        \/ \E a, b \in Slots : SwapDevices(a, b)

Spec == Init /\ [][Next]_rack

-----------------------------------------------------------------------------
(* The table never points at a deleted object, and an installed object     *)
(* carries the number of the slot it is in. The destructor's way out of    *)
(* the table is that number: an object deleted while it carries another    *)
(* one would leave its pointer behind (~SioDevice, installDevice).         *)
Sound(r)   == \A n \in Slots : r.dev[n] # NoDev =>
                 r.dev[n] \in r.live /\ r.no[r.dev[n]] = n
TableSound == Sound(rack)

(* What swapDevices, which is written with two uninstalls and two          *)
(* installs that may delete, comes down to: the two drives trade places,   *)
(* the others keep theirs, and nothing is deleted.                         *)
SwapTrades ==
    [][\A a, b \in Slots : SwapDevices(a, b) =>
          /\ rack'.dev[a] = rack.dev[b]
          /\ rack'.dev[b] = rack.dev[a]
          /\ \A n \in Slots \ {a, b} : rack'.dev[n] = rack.dev[n]
          /\ rack'.live = rack.live]_rack
=============================================================================
