-------------------------- MODULE DriveRack_proofs --------------------------
(***************************************************************************)
(* Proofs about the drive rack: what a slot of the engine has done so far, *)
(* from one section of deviceMutex to the next, and that it never leaves a *)
(* pointer to a deleted device, a disk in no drive or the boot loader in a *)
(* drive it has no business in. The device table's own lemmas are those of *)
(* SioTable_proofs.                                                        *)
(***************************************************************************)
EXTENDS DriveRack, FiniteSetTheorems, SequenceTheorems, WellFoundedInduction, TLAPS

TP == INSTANCE SioTable_proofs

(* What the theorems assume of the rack's surroundings. The Atari does not *)
(* exchange drives between two sections of a slot, and neither the user    *)
(* nor the Atari disturbs a load; the boot loader's "xc" names D1: first,  *)
(* or not at all (a request for a drive whose slot is gone may still come).*)
Undisturbed ==
    /\ May \subseteq {"hidden"}
    /\ \A r \in Requests : r[1] # r[2] /\ r[2] # 1

-----------------------------------------------------------------------------
(* The invariant: the rack.                                                *)

(* A table whose drives but D1: hold disks or nothing; of the disks that   *)
(* are allocated, those in hid are in no drive, the others in one.         *)
Own(r, hid) ==
    /\ r \in T!Racks /\ T!Sound(r)
    /\ \A n \in Slots \ {0} : r.dev[n] \in OrNone(Disks)
    /\ hid \subseteq Disks
    /\ r.live \cap Disks = hid \cup (T!Installed(r) \cap Disks)
    /\ hid \cap T!Installed(r) = {}

(* The engine's pointers: to objects that are allocated and will stay. An  *)
(* object that waits for deleteLater has no drive, so that its destructor  *)
(* takes nothing off the table.                                            *)
Pointers ==
    /\ behind \in [Loaders -> OrNone(Devices)]
    /\ hisio \in OrNone(Shims) /\ autoBoot \in OrNone(Boots)
    /\ doomed \subseteq Loaders
    /\ \A o \in doomed : o \in rack.live /\ rack.no[o] = NoSlot
    /\ hisio # NoDev => hisio \in rack.live \ doomed /\ behind[hisio] \in Disks \cap rack.live
    /\ autoBoot # NoDev => autoBoot \in rack.live \ doomed /\ behind[autoBoot] = autoBootOld
    /\ autoBoot = NoDev => autoBootOld = NoDev
    /\ autoBootOld \in OrNone(rack.live \cap Disks) \cup {hisio}
    /\ autoBoot # NoDev /\ hisio # NoDev => autoBootOld = hisio

(* Who answers for D1: between two slots: the executable being loaded, or  *)
(* the high-speed loader, or the disk.                                     *)
AtFront == IF autoBoot # NoDev THEN {autoBoot} ELSE IF hisio # NoDev THEN {hisio} ELSE OrNone(Disks)

(* The disks behind those.                                                 *)
BehindShim == IF hisio = NoDev THEN {} ELSE {behind[hisio]}
Hidden     == BehindShim \cup ({autoBootOld} \cap Disks)

(* The disk a slot has made and not installed yet, if any.                 *)
New(p) == {p} \ {NoDev}

(* The rack as a slot finds it, but for the new disk.                      *)
Rest(p) == /\ Own(rack, Hidden \cup New(p)) /\ New(p) \cap Hidden = {}
           /\ Pointers /\ rack.dev[0] \in AtFront /\ remoteShim = hisio
Bare    == hisio = NoDev /\ autoBoot = NoDev
Served  == hisio # NoDev => emulating

-----------------------------------------------------------------------------
(* The invariant: where a slot stands, what it has done and what is left.  *)
Go(f)    == Call(f, NoSlot, NoDev)
Do(c, k) == <<c>> \o k

(* What follows an eject, a disarm, a hand-back.                           *)
Puts(n, p) == IF p = NoDev THEN {<<>>}
              ELSE {<<Call("install", n, p)>>}
                   \cup {Do(Call("mount", n, p), IF n = 0 THEN <<Go("arm")>> ELSE <<>>)}
AfterDisarm(p) ==
    {Do(Call("eject", 0, NoDev), j) : j \in Puts(0, p)}
    \cup (IF p # NoDev THEN {}
          ELSE {<<>>} \cup {Do(Call("swap", x[2], x[1]), <<Go("arm")>>) : x \in {y \in Slots \X Slots : y[1] # y[2]}})
AfterBack == {<<>>, <<Go("loadXex")>>}

(* Between two slots.                                                      *)
Idle == todo = <<>> /\ Rest(NoDev) /\ Served

(* Engine::armHighSpeedAtrBoot.                                            *)
ToArm == todo = <<Go("arm")>> /\ Rest(NoDev) /\ Bare

Arming(s, d) == /\ Pointers /\ Bare /\ remoteShim = NoDev /\ emulating
                /\ s \in rack.live \ doomed /\ behind[s] = d
InPlace(s, d)  == /\ todo = Do(Call("uninstall", 0, NoDev), Do(Call("setDeviceNo", 0, d),
                               Do(Call("install", 0, s), <<Call("armed", 0, s)>>)))
                  /\ Arming(s, d) /\ Own(rack, {}) /\ rack.dev[0] = d
Lifted(s, d)   == /\ todo = Do(Call("setDeviceNo", 0, d), Do(Call("install", 0, s), <<Call("armed", 0, s)>>))
                  /\ Arming(s, d) /\ Own(rack, {d}) /\ rack.dev[0] = NoDev
Numbered(s, d) == /\ todo = Do(Call("install", 0, s), <<Call("armed", 0, s)>>)
                  /\ Arming(s, d) /\ Own(rack, {d}) /\ rack.dev[0] = NoDev
Covered(s, d)  == /\ todo = <<Call("armed", 0, s)>>
                  /\ Arming(s, d) /\ Own(rack, {d}) /\ rack.dev[0] = s

(* Engine::disarmHighSpeedAtrBoot; k is what the slot does next.           *)
ToDisarm(p, k) == todo = Do(Go("disarm"), k) /\ Rest(p) /\ autoBoot = NoDev

Disarming(p) == hisio # NoDev /\ Pointers /\ autoBoot = NoDev /\ remoteShim = NoDev /\ behind[hisio] # p
Finding(p, k)  == /\ Disarming(p) /\ Own(rack, {behind[hisio]} \cup New(p)) /\ rack.dev[0] = hisio
                  /\ todo = Do(Call("findLoader", NoSlot, behind[hisio]), Do(Go("dropLoader"), k))
Found(p, k)    == /\ Disarming(p) /\ Own(rack, {behind[hisio]} \cup New(p)) /\ rack.dev[0] = hisio
                  /\ todo = Do(Call("uninstall", 0, NoDev), Do(Call("install", 0, behind[hisio]), Do(Go("dropLoader"), k)))
Taken(p, k)    == /\ Disarming(p) /\ Own(rack, {behind[hisio]} \cup New(p))
                  /\ rack.dev[0] = NoDev /\ rack.no[hisio] = NoSlot
                  /\ todo = Do(Call("install", 0, behind[hisio]), Do(Go("dropLoader"), k))
Restored(p, k) == /\ Disarming(p) /\ Own(rack, New(p))
                  /\ rack.dev[0] = behind[hisio] /\ rack.no[hisio] = NoSlot
                  /\ todo = Do(Go("dropLoader"), k)

(* Engine::ejectImage, and the mount or the installation that follows.     *)
Ejectable(n, p) == Rest(p) /\ (n = 0 => Bare) /\ Served
ToEject(n, p, k) == todo = Do(Call("eject", n, NoDev), k) /\ Ejectable(n, p)
Full(n, p, k)    == /\ todo = Do(Call("uninstall", n, NoDev), Do(Call("delete", n, rack.dev[n]), k))
                    /\ Ejectable(n, p) /\ rack.dev[n] # NoDev
Empty(n, p, k)   == todo = Do(Call("uninstall", n, NoDev), k) /\ Ejectable(n, p) /\ rack.dev[n] = NoDev
Out(n, p, i, k)  == /\ todo = Do(Call("delete", n, i), k)
                    /\ rack.dev[n] = NoDev /\ rack.no[i] = NoSlot /\ i \notin Hidden \cup New(p)
                    /\ Own(rack, Hidden \cup New(p) \cup {i}) /\ New(p) \cap Hidden = {}
                    /\ Pointers /\ rack.dev[0] \in AtFront /\ remoteShim = hisio
                    /\ (n = 0 => Bare) /\ Served
ToPut(n, p, k)   == todo = k /\ p # NoDev /\ Ejectable(n, p) /\ rack.dev[n] = NoDev

(* Engine::swapSlots.                                                      *)
ToSwap(a, b) == todo = Do(Call("swap", b, a), <<Go("arm")>>) /\ Rest(NoDev) /\ Bare

(* The end of loaderEject and of loaderBooterDone; loaderLoadXex.          *)
ToHandBack(k) == todo = Do(Go("handBack"), k) /\ Rest(NoDev) /\ Served
Loaded        == Pointers /\ autoBoot # NoDev /\ remoteShim = hisio /\ Served
Booting(k)  == /\ todo = Do(Call("uninstall", 0, NoDev),
                            IF autoBootOld = NoDev THEN Do(Go("dropBoot"), k)
                            ELSE Do(Call("install", 0, autoBootOld), Do(Go("dropBoot"), k)))
               /\ Loaded /\ Own(rack, Hidden) /\ rack.dev[0] = autoBoot
Between(k)  == /\ todo = Do(Call("install", 0, autoBootOld), Do(Go("dropBoot"), k)) /\ autoBootOld # NoDev
               /\ Loaded /\ Own(rack, Hidden) /\ rack.dev[0] = NoDev /\ rack.no[autoBoot] = NoSlot
Returned(k) == /\ todo = Do(Go("dropBoot"), k)
               /\ Loaded /\ Own(rack, BehindShim) /\ rack.dev[0] = autoBootOld /\ rack.no[autoBoot] = NoSlot

ToLoad == todo = <<Go("loadXex")>> /\ Rest(NoDev) /\ autoBoot = NoDev /\ Served
Aside  == /\ todo = Do(Call("uninstall", 0, NoDev), <<Call("install", 0, autoBoot)>>)
          /\ Loaded /\ Own(rack, BehindShim) /\ rack.dev[0] = autoBootOld
Alone  == /\ todo = <<Call("install", 0, autoBoot)>>
          /\ Loaded /\ Own(rack, Hidden) /\ rack.dev[0] = NoDev

(* The phases, function by function.                                       *)
ArmSlot    == ToArm \/ \E s \in Shims, d \in Disks : InPlace(s, d) \/ Lifted(s, d) \/ Numbered(s, d) \/ Covered(s, d)
DisarmSlot == \E p \in OrNone(Disks) : \E k \in AfterDisarm(p) :
                 ToDisarm(p, k) \/ Finding(p, k) \/ Found(p, k) \/ Taken(p, k) \/ Restored(p, k)
EjectSlot  == \E n \in Slots, p \in OrNone(Disks) : \E k \in Puts(n, p) :
                 \/ ToEject(n, p, k) \/ Full(n, p, k) \/ Empty(n, p, k) \/ ToPut(n, p, k)
                 \/ \E i \in Disks : Out(n, p, i, k)
SwapSlot   == \E a, b \in Slots : a # b /\ ToSwap(a, b)
BackSlot   == \E k \in AfterBack : ToHandBack(k) \/ Booting(k) \/ Between(k) \/ Returned(k)
LoadSlot   == ToLoad \/ Aside \/ Alone
Slot       == Idle \/ ArmSlot \/ DisarmSlot \/ EjectSlot \/ SwapSlot \/ BackSlot \/ LoadSlot

-----------------------------------------------------------------------------
(* The invariant: the calls and the signals.                               *)
Functions == {"uninstall", "install", "mount", "setDeviceNo", "swap", "delete", "disarm", "findLoader",
              "dropLoader", "arm", "armed", "eject", "handBack", "dropBoot", "loadXex"}
Calls  == {c \in [fn : Functions, slot : Slots \cup {NoSlot}, with : OrNone(Devices) \cup Slots] :
              /\ c.fn \in {"mount", "swap", "delete", "eject"} => c.slot \in Slots
              /\ c.fn = "mount" => c.with \in Disks
              /\ c.fn = "swap" => c.with \in Slots}
Events == {e \in [ev : {"started", "finished", "loaderDone", "exchanged"}, d1 : 0 .. NumSlots, d2 : 0 .. NumSlots] :
              e.ev = "exchanged" => e.d1 # 0 /\ e.d2 # 0}

Kinds == /\ todo \in Seq(Calls) /\ events \in Seq(Events)
         /\ present \subseteq Slots /\ present # {}
         /\ session \in [Slots -> OrNone(Disks)]
         /\ emulating \in BOOLEAN /\ thread \in BOOLEAN /\ raced \in BOOLEAN

(* Emulation starts once, and not before the end of the last one has been  *)
(* heard of; nothing is loaded while it starts or stops.                   *)
Queue == /\ \A i, j \in DOMAIN events : events[i].ev = "started" /\ events[j].ev = "started" => i = j
         /\ \A i \in DOMAIN events : events[i].ev = "started" => ~emulating /\ hisio = NoDev
         /\ Switching => ~Loading

RackInv == Slot /\ Kinds /\ Queue

-----------------------------------------------------------------------------
(* The table's lemmas hold of this table.                                  *)

(* Null is no device, -1 no slot.                                          *)
LEMMA Nulls == /\ NoDev \notin Devices /\ NoDev \notin Disks /\ NoDev \notin Loaders /\ NoDev \notin Shims
               /\ NoDev \notin Boots /\ NoSlot \notin Slots
               /\ Disks \cap Loaders = {} /\ Shims \cap Boots = {}
               /\ Devices = Disks \cup Loaders /\ Loaders = Shims \cup Boots
BY RackAssumption DEF RackAssumption, Devices, Disks, Loaders

(* D1: is a slot.                                                          *)
LEMMA D1 == 0 \in Slots
BY RackAssumption DEF RackAssumption, Slots

LEMMA TableNulls == TP!TableAssumption
BY RackAssumption DEF RackAssumption, TP!TableAssumption

(* The operators are the same.                                             *)
LEMMA SameTable ==
    /\ T!Racks = TP!Racks
    /\ \A r : T!Installed(r) = TP!Installed(r) /\ T!Sound(r) = TP!Sound(r)
    /\ \A r, n : T!Uninstall(r, n) = TP!Uninstall(r, n)
    /\ \A r, o : T!Destroy(r, o) = TP!Destroy(r, o)
    /\ \A r, n, o : T!Install(r, n, o) = TP!Install(r, n, o)
    /\ \A r, a, b : T!Swap(r, a, b) = TP!Swap(r, a, b)
<1>1. T!Racks = TP!Racks BY DEF T!Racks, TP!Racks
<1>2. \A r : T!Installed(r) = TP!Installed(r) /\ T!Sound(r) = TP!Sound(r)
  BY DEF T!Installed, TP!Installed, T!Sound, TP!Sound
<1>3. \A r, n : T!Uninstall(r, n) = TP!Uninstall(r, n) BY DEF T!Uninstall, TP!Uninstall
<1>4. \A r, o : T!Destroy(r, o) = TP!Destroy(r, o) BY <1>3 DEF T!Destroy, TP!Destroy
<1>5. ASSUME NEW r, NEW n, NEW o PROVE T!Install(r, n, o) = TP!Install(r, n, o)
  <2> DEFINE x == IF r.dev[n] = NoDev THEN r ELSE T!Destroy(r, r.dev[n])
             y == IF r.dev[n] = NoDev THEN r ELSE TP!Destroy(r, r.dev[n])
  <2>1. x = y BY <1>4
  <2>2. T!Install(r, n, o) = T!Enter(x, n, o) BY DEF T!Install
  <2>3. TP!Install(r, n, o) = TP!Enter(y, n, o) BY DEF TP!Install
  <2> HIDE DEF x, y
  <2>4. T!Enter(x, n, o) = TP!Enter(x, n, o) BY DEF T!Enter, TP!Enter
  <2> QED BY <2>1, <2>2, <2>3, <2>4
<1>6. ASSUME NEW r, NEW a, NEW b PROVE T!Swap(r, a, b) = TP!Swap(r, a, b)
  <2> DEFINE first(c) == IF r.dev[b] = NoDev THEN c ELSE T!Install(c, a, r.dev[b])
             also(c)  == IF r.dev[b] = NoDev THEN c ELSE TP!Install(c, a, r.dev[b])
             clear    == T!Uninstall(T!Uninstall(r, a), b)
  <2>1. clear = TP!Uninstall(TP!Uninstall(r, a), b) BY <1>3
  <2>2. first(clear) = also(clear) BY <1>5
  <2>3. T!Swap(r, a, b) = IF r.dev[a] = NoDev THEN first(clear) ELSE T!Install(first(clear), b, r.dev[a])
    BY DEF T!Swap
  <2>4. TP!Swap(r, a, b) = IF r.dev[a] = NoDev THEN also(clear) ELSE TP!Install(also(clear), b, r.dev[a])
    BY <2>1 DEF TP!Swap
  <2> HIDE DEF first, also, clear
  <2> QED BY <1>5, <2>2, <2>3, <2>4
<1> QED BY <1>1, <1>2, <1>3, <1>4, <1>5, <1>6

(* What Own says, drive by drive.                                          *)
LEMMA OwnFacts ==
    ASSUME NEW r, NEW hid, Own(r, hid)
    PROVE  /\ r.dev \in [Slots -> OrNone(Devices)] /\ r.no \in [Devices -> Slots \cup {NoSlot}]
           /\ r.live \subseteq Devices /\ hid \subseteq r.live /\ hid \subseteq Disks
           /\ \A n \in Slots : r.dev[n] # NoDev => r.dev[n] \in r.live /\ r.no[r.dev[n]] = n
           /\ \A n \in Slots : r.dev[n] \notin hid
           /\ \A n \in Slots \ {0} : r.dev[n] \in OrNone(Disks)
           /\ \A d \in r.live \cap Disks : d \in hid \/ \E n \in Slots : r.dev[n] = d
<1>1. r \in T!Racks BY DEF Own
<1>2. r.dev \in [Slots -> OrNone(Devices)] /\ r.no \in [Devices -> Slots \cup {NoSlot}] /\ r.live \subseteq Devices
  BY <1>1 DEF T!Racks, OrNone
<1>3. \A n \in Slots : r.dev[n] # NoDev => r.dev[n] \in r.live /\ r.no[r.dev[n]] = n
  BY DEF Own, T!Sound
<1>4. \A n \in Slots : r.dev[n] \notin hid
  BY Nulls DEF Own, T!Installed
<1>5. \A d \in r.live \cap Disks : d \in hid \/ \E n \in Slots : r.dev[n] = d
  BY DEF Own, T!Installed
<1>6. hid \subseteq r.live /\ hid \subseteq Disks BY DEF Own
<1>7. \A n \in Slots \ {0} : r.dev[n] \in OrNone(Disks) BY DEF Own
<1> QED BY <1>2, <1>3, <1>4, <1>5, <1>6, <1>7

(* And conversely, for what a section leaves behind.                       *)
LEMMA OwnIs ==
    ASSUME NEW r \in T!Racks, T!Sound(r), NEW hid, hid \subseteq Disks, hid \subseteq r.live,
           \A n \in Slots \ {0} : r.dev[n] \in OrNone(Disks),
           \A n \in Slots : r.dev[n] \notin hid,
           \A d \in r.live \cap Disks : d \in hid \/ \E n \in Slots : r.dev[n] = d
    PROVE  Own(r, hid)
<1>1. \A n \in Slots : r.dev[n] # NoDev => r.dev[n] \in r.live BY DEF T!Sound
<1>2. hid \cap T!Installed(r) = {} BY DEF T!Installed
<1>3. ASSUME NEW d \in r.live \cap Disks PROVE d \in hid \cup (T!Installed(r) \cap Disks)
  BY <1>3, Nulls DEF T!Installed
<1>4. ASSUME NEW d \in hid \cup (T!Installed(r) \cap Disks) PROVE d \in r.live \cap Disks
  <2>1. CASE d \in hid BY <2>1
  <2>2. CASE d \in T!Installed(r) \cap Disks BY <1>1, <2>2 DEF T!Installed
  <2> QED BY <1>4, <2>1, <2>2
<1>5. r.live \cap Disks = hid \cup (T!Installed(r) \cap Disks) BY <1>3, <1>4
<1> QED BY <1>2, <1>5 DEF Own

(* A device in the table is in one slot only.                              *)
LEMMA InOneSlot ==
    ASSUME NEW r, NEW hid, Own(r, hid), NEW a \in Slots, NEW b \in Slots, r.dev[a] # NoDev, r.dev[a] = r.dev[b]
    PROVE  a = b
BY OwnFacts

-----------------------------------------------------------------------------
(* The sections: what each leaves of the rack; and the contract allows it. *)

(* A device taken off a slot: its disk is in no drive then.                *)
LEMMA Uninstalls ==
    ASSUME NEW hid, Own(rack, hid), NEW n \in Slots, rack' = T!Uninstall(rack, n)
    PROVE  /\ Own(rack', hid \cup ({rack.dev[n]} \cap Disks))
           /\ rack'.dev = [rack.dev EXCEPT ![n] = NoDev] /\ rack'.live = rack.live
           /\ rack'.no = [o \in Devices |-> IF o = rack.dev[n] THEN NoSlot ELSE rack.no[o]]
           /\ T!Next
<1> DEFINE h == hid \cup ({rack.dev[n]} \cap Disks)
<1>1. T!Next BY DEF T!Next, T!UninstallDevice
<1>2. rack \in TP!Racks /\ TP!Sound(rack) /\ rack' = TP!Uninstall(rack, n) BY SameTable DEF Own
<1>3. /\ rack' \in T!Racks /\ T!Sound(rack') /\ rack'.live = rack.live
      /\ rack'.dev = [rack.dev EXCEPT ![n] = NoDev]
      /\ rack'.no = [o \in Devices |-> IF o = rack.dev[n] THEN NoSlot ELSE rack.no[o]]
  BY <1>2, TableNulls, SameTable, TP!UninstallFields, TP!UninstallSound
<1>4. /\ rack.dev \in [Slots -> OrNone(Devices)]
      /\ \A m \in Slots \ {n} : rack'.dev[m] = rack.dev[m]
      /\ rack'.dev[n] = NoDev
  BY <1>3, OwnFacts
<1>5. h \subseteq Disks /\ h \subseteq rack'.live
  BY <1>3, OwnFacts, Nulls
<1>6. \A m \in Slots \ {0} : rack'.dev[m] \in OrNone(Disks)
  BY <1>4, OwnFacts DEF OrNone
<1>7. ASSUME NEW m \in Slots PROVE rack'.dev[m] \notin h
  <2>1. CASE m = n BY <1>4, <1>5, <2>1, Nulls
  <2>2. CASE m # n
    <3>1. rack'.dev[m] = rack.dev[m] /\ rack.dev[m] \notin hid BY <1>4, <2>2, OwnFacts
    <3>2. rack.dev[m] = rack.dev[n] => rack.dev[m] = NoDev BY <2>2, InOneSlot
    <3> QED BY <3>1, <3>2, Nulls
  <2> QED BY <2>1, <2>2
<1>8. ASSUME NEW d \in rack'.live \cap Disks PROVE d \in h \/ \E m \in Slots : rack'.dev[m] = d
  <2>1. d \in hid \/ \E m \in Slots : rack.dev[m] = d BY <1>3, <1>8, OwnFacts
  <2> QED BY <1>4, <2>1
<1> HIDE DEF h
<1>9. Own(rack', h) BY <1>3, <1>5, <1>6, <1>7, <1>8, OwnIs
<1> QED BY <1>1, <1>3, <1>9 DEF h

(* A device put into an empty slot: its disk is in a drive again.          *)
LEMMA Installs ==
    ASSUME NEW hid, Own(rack, hid), NEW n \in Slots, NEW o \in rack.live, rack.dev[n] = NoDev,
           o \in hid \/ (n = 0 /\ o \in Loaders /\ \A m \in Slots : rack.dev[m] # o),
           rack' = T!Install(rack, n, o)
    PROVE  /\ Own(rack', hid \ {o})
           /\ rack'.dev = [rack.dev EXCEPT ![n] = o] /\ rack'.live = rack.live
           /\ rack'.no = [rack.no EXCEPT ![o] = n]
           /\ T!Next
<1> DEFINE h == hid \ {o}
<1>1. o \in Devices /\ o # NoDev /\ \A m \in Slots : rack.dev[m] # o BY OwnFacts, Nulls
<1>2. o \notin T!Installed(rack) BY <1>1 DEF T!Installed
<1>3. T!Next BY <1>1, <1>2 DEF T!Next, T!InstallDevice
<1>4. rack \in TP!Racks /\ TP!Sound(rack) /\ rack' = TP!Install(rack, n, o) /\ o \notin TP!Installed(rack)
  BY <1>2, SameTable DEF Own
<1>5. /\ rack' \in T!Racks /\ T!Sound(rack') /\ rack'.live = rack.live
      /\ rack'.dev = [rack.dev EXCEPT ![n] = o]
      /\ rack'.no = [rack.no EXCEPT ![o] = n]
  <2>1. /\ rack' \in TP!Racks /\ rack'.live = rack.live
        /\ rack'.dev = [rack.dev EXCEPT ![n] = o] /\ rack'.no = [rack.no EXCEPT ![o] = n]
    BY <1>1, <1>4, TableNulls, TP!InstallEmpty
  <2>2. TP!Sound(rack') BY <1>1, <1>4, TableNulls, TP!InstallSound
  <2> QED BY <2>1, <2>2, SameTable
<1>6. rack'.live = rack.live BY <1>5
<1>7. /\ rack.dev \in [Slots -> OrNone(Devices)]
      /\ \A m \in Slots \ {n} : rack'.dev[m] = rack.dev[m]
      /\ rack'.dev[n] = o
  BY <1>5, OwnFacts
<1>8. h \subseteq Disks /\ h \subseteq rack'.live BY <1>6, OwnFacts
<1>9. n # 0 => o \in Disks BY OwnFacts
<1>10. \A m \in Slots \ {0} : rack'.dev[m] \in OrNone(Disks) BY <1>7, <1>9, OwnFacts DEF OrNone
<1>11. \A m \in Slots : rack'.dev[m] \notin h BY <1>7, OwnFacts
<1>12. ASSUME NEW d \in rack'.live \cap Disks PROVE d \in h \/ \E m \in Slots : rack'.dev[m] = d
  <2>1. d \in hid \/ \E m \in Slots : rack.dev[m] = d BY <1>6, <1>12, OwnFacts
  <2>2. ASSUME NEW m \in Slots, rack.dev[m] = d PROVE m # n BY <1>12, <2>2, Nulls
  <2> QED BY <1>7, <2>1, <2>2
<1> HIDE DEF h
<1>13. Own(rack', h) BY <1>5, <1>8, <1>10, <1>11, <1>12, OwnIs
<1> QED BY <1>3, <1>5, <1>6, <1>13 DEF h

(* A new object: a new disk is in no drive yet.                            *)
LEMMA Allocates ==
    ASSUME NEW hid, Own(rack, hid), NEW o \in Devices, o \notin rack.live, rack' = T!Allocate(rack, o)
    PROVE  /\ Own(rack', hid \cup ({o} \cap Disks))
           /\ rack'.dev = rack.dev /\ rack'.live = rack.live \cup {o}
           /\ rack'.no = [rack.no EXCEPT ![o] = NoSlot]
           /\ T!Next
<1> DEFINE h == hid \cup ({o} \cap Disks)
<1>1. \A m \in Slots : rack.dev[m] # o BY OwnFacts, Nulls
<1>2. T!Next BY <1>1 DEF T!Next, T!AllocateDevice, T!Installed
<1>3. rack \in T!Racks BY DEF Own
<1>4. /\ rack' \in T!Racks /\ rack'.dev = rack.dev /\ rack'.live = rack.live \cup {o}
      /\ rack'.no = [rack.no EXCEPT ![o] = NoSlot]
  BY <1>3 DEF T!Allocate, T!Racks
<1>5. T!Sound(rack')
  <2> SUFFICES ASSUME NEW m \in Slots, rack.dev[m] # NoDev
               PROVE  rack.dev[m] \in rack'.live /\ rack'.no[rack.dev[m]] = m
    BY <1>4 DEF T!Sound
  <2>1. rack.dev[m] \in rack.live /\ rack.no[rack.dev[m]] = m /\ rack.dev[m] # o BY <1>1, OwnFacts
  <2> QED BY <1>4, <2>1, OwnFacts
<1>6. h \subseteq Disks /\ h \subseteq rack'.live BY <1>4, OwnFacts
<1>7. \A m \in Slots \ {0} : rack'.dev[m] \in OrNone(Disks) BY <1>4, OwnFacts
<1>8. \A m \in Slots : rack'.dev[m] \notin h BY <1>1, <1>4, OwnFacts
<1>9. ASSUME NEW d \in rack'.live \cap Disks PROVE d \in h \/ \E m \in Slots : rack'.dev[m] = d
  <2>1. CASE d = o BY <1>9, <2>1
  <2>2. CASE d # o BY <1>4, <1>9, <2>2, OwnFacts
  <2> QED BY <2>1, <2>2
<1> HIDE DEF h
<1>10. Own(rack', h) BY <1>4, <1>5, <1>6, <1>7, <1>8, <1>9, OwnIs
<1> QED BY <1>2, <1>4, <1>10 DEF h

(* An object that has no drive is deleted.                                 *)
LEMMA Deletes ==
    ASSUME NEW hid, Own(rack, hid), NEW o \in rack.live, rack.no[o] = NoSlot, rack' = T!Destroy(rack, o)
    PROVE  /\ Own(rack', hid \ {o})
           /\ rack'.dev = rack.dev /\ rack'.live = rack.live \ {o} /\ rack'.no = rack.no
           /\ T!Next
<1> DEFINE h == hid \ {o}
<1>0. o \in Devices BY OwnFacts
<1>1. T!Next BY <1>0 DEF T!Next, T!DeleteDevice
<1>2. rack \in TP!Racks /\ rack' = TP!Destroy(rack, o) BY SameTable DEF Own
<1>3. /\ rack' \in T!Racks /\ rack'.dev = rack.dev /\ rack'.live = rack.live \ {o} /\ rack'.no = rack.no
  BY <1>0, <1>2, TableNulls, SameTable, TP!DestroyFields
<1>4. \A m \in Slots : rack.dev[m] # o BY <1>0, OwnFacts, Nulls
<1>5. T!Sound(rack')
  <2> SUFFICES ASSUME NEW m \in Slots, rack.dev[m] # NoDev
               PROVE  rack.dev[m] \in rack'.live /\ rack.no[rack.dev[m]] = m
    BY <1>3 DEF T!Sound
  <2> QED BY <1>3, <1>4, OwnFacts
<1>6. h \subseteq Disks /\ h \subseteq rack'.live BY <1>3, OwnFacts
<1>7. \A m \in Slots \ {0} : rack'.dev[m] \in OrNone(Disks) BY <1>3, OwnFacts
<1>8. \A m \in Slots : rack'.dev[m] \notin h BY <1>3, OwnFacts
<1>9. \A d \in rack'.live \cap Disks : d \in h \/ \E m \in Slots : rack'.dev[m] = d
  BY <1>3, OwnFacts
<1> HIDE DEF h
<1>10. Own(rack', h) BY <1>3, <1>5, <1>6, <1>7, <1>8, <1>9, OwnIs
<1> QED BY <1>1, <1>3, <1>10 DEF h

(* An object that is in no drive is told a number.                         *)
LEMMA Renumbers ==
    ASSUME NEW hid, Own(rack, hid), NEW o \in hid, NEW n \in Slots, rack' = T!SetDeviceNo(rack, o, n)
    PROVE  /\ Own(rack', hid)
           /\ rack'.dev = rack.dev /\ rack'.live = rack.live
           /\ rack'.no = [rack.no EXCEPT ![o] = n]
           /\ T!Next
<1>0. o \in Devices /\ o \in rack.live /\ \A m \in Slots : rack.dev[m] # o BY OwnFacts
<1>1. T!Next BY <1>0 DEF T!Next, T!Renumber, T!Installed
<1>2. rack \in T!Racks BY DEF Own
<1>3. /\ rack' \in T!Racks /\ rack'.dev = rack.dev /\ rack'.live = rack.live
      /\ rack'.no = [rack.no EXCEPT ![o] = n]
  BY <1>0, <1>2 DEF T!SetDeviceNo, T!Racks
<1>4. T!Sound(rack')
  <2> SUFFICES ASSUME NEW m \in Slots, rack.dev[m] # NoDev
               PROVE  rack.dev[m] \in rack.live /\ rack'.no[rack.dev[m]] = m
    BY <1>3 DEF T!Sound
  <2> QED BY <1>0, <1>3, OwnFacts
<1>5. hid \subseteq Disks /\ hid \subseteq rack'.live BY <1>3, OwnFacts
<1>6. \A m \in Slots \ {0} : rack'.dev[m] \in OrNone(Disks) BY <1>3, OwnFacts
<1>7. \A m \in Slots : rack'.dev[m] \notin hid BY <1>3, OwnFacts
<1>8. \A d \in rack'.live \cap Disks : d \in hid \/ \E m \in Slots : rack'.dev[m] = d
  BY <1>3, OwnFacts
<1>9. Own(rack', hid) BY <1>3, <1>4, <1>5, <1>6, <1>7, <1>8, OwnIs
<1> QED BY <1>1, <1>3, <1>9

(* What an exchange does not give a number has none.                       *)
LEMMA SwapNumbers ==
    ASSUME NEW hid, Own(rack, hid), NEW a \in Slots, NEW b \in Slots, a # b,
           NEW o \in Devices, rack.no[o] = NoSlot
    PROVE  T!Swap(rack, a, b).no[o] = NoSlot
<1> DEFINE x     == rack.dev[b]
           y     == rack.dev[a]
           half  == TP!Uninstall(rack, a)
           clear == TP!Uninstall(half, b)
           first == IF x = NoDev THEN clear ELSE TP!Install(clear, a, x)
           both  == IF y = NoDev THEN first ELSE TP!Install(first, b, y)
<1>0. T!Swap(rack, a, b) = both BY SameTable DEF TP!Swap
<1>1. rack \in TP!Racks /\ TP!Sound(rack) BY SameTable DEF Own
<1>2. o # x /\ o # y /\ x \in OrNone(Devices) /\ y \in OrNone(Devices) BY OwnFacts, Nulls
<1>3. /\ half \in TP!Racks /\ TP!Sound(half) /\ half.no[o] = NoSlot
      /\ half.dev = [rack.dev EXCEPT ![a] = NoDev]
  <2>1. /\ half \in TP!Racks /\ half.dev = [rack.dev EXCEPT ![a] = NoDev]
        /\ half.no = [e \in Devices |-> IF e = rack.dev[a] THEN NoSlot ELSE rack.no[e]]
    BY <1>1, TableNulls, TP!UninstallFields
  <2>2. TP!Sound(half) BY <1>1, TableNulls, TP!UninstallSound
  <2> HIDE DEF half
  <2> QED BY <1>2, <2>1, <2>2
<1> HIDE DEF half
<1>4. /\ clear \in TP!Racks /\ TP!Sound(clear) /\ clear.no[o] = NoSlot
      /\ clear.dev = [half.dev EXCEPT ![b] = NoDev]
  <2>1. /\ clear \in TP!Racks /\ clear.dev = [half.dev EXCEPT ![b] = NoDev]
        /\ clear.no = [e \in Devices |-> IF e = half.dev[b] THEN NoSlot ELSE half.no[e]]
    BY <1>3, TableNulls, TP!UninstallFields
  <2>2. TP!Sound(clear) BY <1>3, TableNulls, TP!UninstallSound
  <2> HIDE DEF clear
  <2> QED BY <1>3, <2>1, <2>2
<1>5. clear.dev = [rack.dev EXCEPT ![a] = NoDev, ![b] = NoDev] /\ clear.live = rack.live
  <2>1. half.live = rack.live BY <1>1, TableNulls, TP!UninstallFields DEF half
  <2>2. clear.live = half.live BY <1>3, TableNulls, TP!UninstallFields
  <2> QED BY <1>3, <1>4, <2>1, <2>2
<1> HIDE DEF clear
<1>6. /\ first \in TP!Racks /\ TP!Sound(first) /\ first.no[o] = NoSlot /\ first.dev[b] = NoDev
  <2>1. CASE x = NoDev BY <1>4, <1>5, <2>1, OwnFacts
  <2>2. CASE x # NoDev
    <3>1. x \in Devices /\ x \in clear.live BY <1>2, <1>5, <2>2, OwnFacts
    <3>2. clear.dev[a] = NoDev /\ clear.dev[b] = NoDev BY <1>5, OwnFacts
    <3>3. \A m \in Slots : clear.dev[m] # x
      <4> SUFFICES ASSUME NEW m \in Slots, clear.dev[m] = x PROVE FALSE OBVIOUS
      <4>1. m # a /\ m # b BY <2>2, <3>2
      <4>2. rack.dev[m] = x BY <1>5, <4>1, OwnFacts
      <4> QED BY <2>2, <4>1, <4>2, InOneSlot
    <3>4. x \notin TP!Installed(clear) BY <3>3 DEF TP!Installed
    <3>5. first = TP!Install(clear, a, x) BY <2>2
    <3>6. TP!Sound(first) BY <1>4, <3>1, <3>4, <3>5, TableNulls, TP!InstallSound
    <3>7. /\ TP!Install(clear, a, x) \in TP!Racks /\ TP!Install(clear, a, x).dev = [clear.dev EXCEPT ![a] = x]
          /\ TP!Install(clear, a, x).no = [clear.no EXCEPT ![x] = a]
      <4> HIDE DEF x, y, first
      <4>1. clear \in TP!Racks /\ TP!Sound(clear) BY <1>4
      <4>2. x \in Devices BY <3>1
      <4>3. clear.dev[a] = NoDev BY <3>2
      <4> QED BY <4>1, <4>2, <4>3, TableNulls, TP!InstallEmpty
    <3>8. clear.no \in [Devices -> Slots \cup {NoSlot}] /\ clear.dev \in [Slots -> Devices \cup {NoDev}]
      BY <1>4 DEF TP!Racks
    <3> QED BY <1>2, <1>4, <3>2, <3>5, <3>6, <3>7, <3>8
  <2> QED BY <2>1, <2>2
<1> HIDE DEF first
<1>7. both.no[o] = NoSlot
  <2>1. CASE y = NoDev
    <3> HIDE DEF y, first
    <3>1. both = first BY <2>1
    <3> HIDE DEF both
    <3> QED BY <1>6, <3>1
  <2>2. CASE y # NoDev
    <3>1. y \in Devices BY <1>2, <2>2 DEF OrNone
    <3>2. TP!Install(first, b, y).no = [first.no EXCEPT ![y] = b]
      <4> HIDE DEF x, y, both
      <4>1. first \in TP!Racks /\ first.dev[b] = NoDev BY <1>6
      <4>2. y \in Devices BY <3>1
      <4>3. TP!Install(first, b, y) = TP!Enter(first, b, y) BY <4>1 DEF TP!Install
      <4> QED BY <4>1, <4>2, <4>3 DEF TP!Enter, TP!Racks
    <3>3. first.no \in [Devices -> Slots \cup {NoSlot}] BY <1>6 DEF TP!Racks
    <3>4. both = TP!Install(first, b, y) BY <2>2
    <3> HIDE DEF both, y
    <3>5. o # y BY <1>2 DEF y
    <3> QED BY <1>6, <3>2, <3>3, <3>4, <3>5
  <2> QED BY <2>1, <2>2
<1> QED BY <1>0, <1>7

(* Two drives exchanged, D1: among them only if it holds a disk.           *)
LEMMA Swaps ==
    ASSUME NEW hid, Own(rack, hid), NEW a \in Slots, NEW b \in Slots, a # b,
           rack.dev[0] \in OrNone(Disks) \/ (a # 0 /\ b # 0), rack' = T!Swap(rack, a, b)
    PROVE  /\ Own(rack', hid)
           /\ rack'.dev = [rack.dev EXCEPT ![a] = rack.dev[b], ![b] = rack.dev[a]] /\ rack'.live = rack.live
           /\ \A o \in Devices : rack.no[o] = NoSlot => rack'.no[o] = NoSlot
           /\ T!Next
<1>1. T!Next BY DEF T!Next, T!SwapDevices
<1>2. rack \in TP!Racks /\ TP!Sound(rack) /\ rack' = TP!Swap(rack, a, b) BY SameTable DEF Own
<1>3. /\ rack' \in T!Racks /\ T!Sound(rack') /\ rack'.live = rack.live
      /\ rack'.dev = [rack.dev EXCEPT ![a] = rack.dev[b], ![b] = rack.dev[a]]
  BY <1>2, TableNulls, SameTable, TP!SwapFields
<1>4. rack.dev \in [Slots -> OrNone(Devices)] BY OwnFacts
<1>5. rack'.dev[a] = rack.dev[b] /\ rack'.dev[b] = rack.dev[a] /\ \A m \in Slots \ {a, b} : rack'.dev[m] = rack.dev[m]
  BY <1>3, <1>4
<1>6. hid \subseteq Disks /\ hid \subseteq rack'.live BY <1>3, OwnFacts
<1>7. ASSUME NEW m \in Slots \ {0} PROVE rack'.dev[m] \in OrNone(Disks)
  <2>1. \A k \in Slots \ {0} : rack.dev[k] \in OrNone(Disks) BY OwnFacts
  <2>2. a # 0 => rack.dev[a] \in OrNone(Disks) BY <2>1
  <2>3. b # 0 => rack.dev[b] \in OrNone(Disks) BY <2>1
  <2> QED BY <1>5, <2>1, <2>2, <2>3
<1>8. \A m \in Slots : rack'.dev[m] \notin hid BY <1>5, OwnFacts
<1>9. ASSUME NEW d \in rack'.live \cap Disks PROVE d \in hid \/ \E m \in Slots : rack'.dev[m] = d
  <2>1. d \in hid \/ \E m \in Slots : rack.dev[m] = d BY <1>3, <1>9, OwnFacts
  <2> QED BY <1>5, <2>1
<1>10. Own(rack', hid) BY <1>3, <1>6, <1>7, <1>8, <1>9, OwnIs
<1> QED BY <1>1, <1>3, <1>10, SwapNumbers

-----------------------------------------------------------------------------
(* What is left to do.                                                     *)

(* One call, then the rest.                                                *)
LEMMA DoIs ==
    ASSUME NEW S, NEW c \in S, NEW k \in Seq(S)
    PROVE  Do(c, k) \in Seq(S) /\ Do(c, k) # <<>> /\ Head(Do(c, k)) = c /\ Tail(Do(c, k)) = k
<1>1. Do(c, k) \in Seq(S) /\ Len(Do(c, k)) = 1 + Len(k) /\ Do(c, k)[1] = c BY DEF Do
<1>2. \A i \in 1 .. Len(k) : Do(c, k)[i + 1] = k[i] BY DEF Do
<1>3. Do(c, k) # <<>> BY <1>1
<1>4. Head(Do(c, k)) = c BY <1>1, <1>3
<1>5. Tail(Do(c, k)) \in Seq(S) /\ Len(Tail(Do(c, k))) = Len(k) BY <1>1, <1>3
<1>6. \A i \in 1 .. Len(k) : Tail(Do(c, k))[i] = k[i] BY <1>1, <1>2, <1>3
<1>7. Tail(Do(c, k)) = k BY <1>5, <1>6, SeqEqual
<1> QED BY <1>1, <1>3, <1>4, <1>7

(* Several calls, in front of others, under a name.                        *)
Before(s, k)     == s \o k
Two(a, b)        == <<a, b>>
Four(a, b, c, d) == <<a, b, c, d>>

(* Calls put in front of the rest.                                         *)
LEMMA DoTwo ==
    ASSUME NEW S, NEW a \in S, NEW b \in S, NEW k \in Seq(S)
    PROVE  Before(Two(a, b), k) = Do(a, Do(b, k))
<1>3. <<a, b>> = <<a>> \o <<b>>
  <2>1. <<a>> \o <<b>> \in Seq(S) /\ <<a, b>> \in Seq(S) OBVIOUS
  <2>2. Len(<<a>> \o <<b>>) = 2 /\ (<<a>> \o <<b>>)[1] = a /\ (<<a>> \o <<b>>)[2] = b OBVIOUS
  <2>3. Len(<<a, b>>) = 2 /\ <<a, b>>[1] = a /\ <<a, b>>[2] = b OBVIOUS
  <2>4. \A i \in 1 .. 2 : i = 1 \/ i = 2 OBVIOUS
  <2> QED BY <2>1, <2>2, <2>3, <2>4, SeqEqual
<1>4. (<<a>> \o <<b>>) \o k = <<a>> \o (<<b>> \o k)
  <2>1. <<a>> \in Seq(S) /\ <<b>> \in Seq(S) OBVIOUS
  <2> QED BY <2>1, ConcatAssociative
<1> QED BY <1>3, <1>4 DEF Do, Two, Before

(* The last call.                                                          *)
LEMMA DoOne ==
    ASSUME NEW a
    PROVE  Do(a, <<>>) = <<a>>
<1>1. <<a>> \in Seq({a}) OBVIOUS
<1> QED BY <1>1 DEF Do

LEMMA DoFour ==
    ASSUME NEW S, NEW a \in S, NEW b \in S, NEW c \in S, NEW d \in S
    PROVE  Before(Four(a, b, c, d), <<>>) = Do(a, Do(b, Do(c, <<d>>)))
<1> DEFINE u == <<a, b, c, d>>
           v == <<a, b>> \o <<c, d>>
           l == <<c, d>>
           m == <<d>>
           e == <<>>
<1>1. u \in Seq(S) /\ Len(u) = 4 /\ u[1] = a /\ u[2] = b /\ u[3] = c /\ u[4] = d OBVIOUS
<1>2. v \in Seq(S) /\ Len(v) = 4 /\ v[1] = a /\ v[2] = b /\ v[3] = c /\ v[4] = d OBVIOUS
<1>3. \A i \in 1 .. 4 : i = 1 \/ i = 2 \/ i = 3 \/ i = 4 OBVIOUS
<1>4. u = v
  <2> HIDE DEF u, v
  <2>1. \A i \in 1 .. Len(u) : u[i] = v[i] BY <1>1, <1>2, <1>3
  <2> QED BY <1>1, <1>2, <2>1, SeqEqual
<1>5. l \in Seq(S) /\ m \in Seq(S) /\ e \in Seq(S) OBVIOUS
<1>6. Before(Two(c, d), e) = l /\ v = Before(Two(a, b), l) BY <1>5 DEF Two, Before
<1>7. Before(Four(a, b, c, d), e) = u BY <1>1 DEF Four, Before
<1>9. Do(d, e) = m BY <1>5 DEF Do
<1> HIDE DEF u, v, l, m, e
<1>8. Before(Two(c, d), e) = Do(c, Do(d, e)) BY <1>5, <1>6, DoTwo
<1>10. Before(Two(a, b), l) = Do(a, Do(b, l)) BY <1>5, DoTwo
<1>11. Before(Four(a, b, c, d), e) = Do(a, Do(b, Do(c, m))) BY <1>4, <1>6, <1>7, <1>8, <1>9, <1>10
<1> QED BY <1>11 DEF e, m

(* The calls the phases name are calls.                                    *)
LEMMA Typed ==
    /\ \A n \in Slots : Call("uninstall", n, NoDev) \in Calls /\ Call("eject", n, NoDev) \in Calls
    /\ \A n \in Slots, o \in Devices : /\ Call("install", n, o) \in Calls /\ Call("setDeviceNo", n, o) \in Calls
                                       /\ Call("armed", n, o) \in Calls /\ Call("delete", n, o) \in Calls
    /\ \A n \in Slots, d \in Disks : Call("mount", n, d) \in Calls
    /\ \A a, b \in Slots : Call("swap", a, b) \in Calls
    /\ \A o \in OrNone(Devices) : Call("findLoader", NoSlot, o) \in Calls
    /\ {Go("disarm"), Go("dropLoader"), Go("arm"), Go("handBack"), Go("dropBoot"), Go("loadXex")} \subseteq Calls
<1> USE DEF Calls, Call, Functions, OrNone
<1>1. \A n \in Slots : Call("uninstall", n, NoDev) \in Calls /\ Call("eject", n, NoDev) \in Calls OBVIOUS
<1>2. \A n \in Slots, o \in Devices : Call("install", n, o) \in Calls /\ Call("setDeviceNo", n, o) \in Calls OBVIOUS
<1>3. \A n \in Slots, o \in Devices : Call("armed", n, o) \in Calls /\ Call("delete", n, o) \in Calls OBVIOUS
<1>4. \A n \in Slots, d \in Disks : Call("mount", n, d) \in Calls BY Nulls
<1>5. \A a, b \in Slots : Call("swap", a, b) \in Calls OBVIOUS
<1>6. \A o \in OrNone(Devices) : Call("findLoader", NoSlot, o) \in Calls OBVIOUS
<1>7. {Go("disarm"), Go("dropLoader"), Go("arm")} \subseteq Calls BY DEF Go
<1>8. {Go("handBack"), Go("dropBoot"), Go("loadXex")} \subseteq Calls BY DEF Go
<1> QED BY <1>1, <1>2, <1>3, <1>4, <1>5, <1>6, <1>7, <1>8

(* So are the continuations.                                               *)
LEMMA Rests ==
    /\ \A n \in Slots, p \in OrNone(Disks) : Puts(n, p) \subseteq Seq(Calls)
    /\ \A p \in OrNone(Disks) : AfterDisarm(p) \subseteq Seq(Calls)
    /\ AfterBack \subseteq Seq(Calls)
<1>0. <<>> \in Seq(Calls) /\ <<Go("arm")>> \in Seq(Calls) /\ <<Go("loadXex")>> \in Seq(Calls) BY Typed
<1>1. ASSUME NEW n \in Slots, NEW p \in OrNone(Disks), NEW k \in Puts(n, p) PROVE k \in Seq(Calls)
  <2>1. CASE p = NoDev BY <1>0, <1>1, <2>1 DEF Puts
  <2>2. CASE p # NoDev
    <3>1. p \in Disks /\ p \in Devices BY <2>2, Nulls DEF OrNone
    <3>2. Call("mount", n, p) \in Calls /\ Call("install", n, p) \in Calls BY <3>1, Typed
    <3>3. <<Call("install", n, p)>> \in Seq(Calls) BY <3>2
    <3>4. (IF n = 0 THEN <<Go("arm")>> ELSE <<>>) \in Seq(Calls) BY <1>0
    <3>5. Do(Call("mount", n, p), IF n = 0 THEN <<Go("arm")>> ELSE <<>>) \in Seq(Calls)
      BY <3>2, <3>4, DoIs
    <3> QED BY <1>1, <2>2, <3>3, <3>5 DEF Puts
  <2> QED BY <2>1, <2>2
<1>2. ASSUME NEW p \in OrNone(Disks), NEW k \in AfterDisarm(p) PROVE k \in Seq(Calls)
  <2>1. CASE \E j \in Puts(0, p) : k = Do(Call("eject", 0, NoDev), j)
    <3>1. Call("eject", 0, NoDev) \in Calls BY D1, Typed
    <3>2. \A j \in Puts(0, p) : j \in Seq(Calls) BY <1>1, D1
    <3> QED BY <2>1, <3>1, <3>2, DoIs
  <2>2. CASE k = <<>> BY <1>0, <2>2
  <2>3. CASE \E x \in Slots \X Slots : k = Do(Call("swap", x[2], x[1]), <<Go("arm")>>)
    <3>1. PICK x \in Slots \X Slots : k = Do(Call("swap", x[2], x[1]), <<Go("arm")>>) BY <2>3
    <3>2. Call("swap", x[2], x[1]) \in Calls BY Typed
    <3> QED BY <1>0, <3>1, <3>2, DoIs
  <2> QED BY <1>2, <2>1, <2>2, <2>3 DEF AfterDisarm
<1>3. AfterBack \subseteq Seq(Calls) BY <1>0 DEF AfterBack
<1> QED BY <1>1, <1>2, <1>3

-----------------------------------------------------------------------------
(* What each call does.                                                    *)
TableFunctions == {"uninstall", "install", "mount", "setDeviceNo", "swap", "delete"}

(* The engine makes the call that is next.                                 *)
LEMMA Which ==
    ASSUME EngineCall
    PROVE  /\ todo # <<>> /\ Head(todo).fn \in Functions
           /\ Head(todo).fn \in TableFunctions => TableCall
           /\ Head(todo).fn = "disarm" => Disarm
           /\ Head(todo).fn = "findLoader" => FindLoader
           /\ Head(todo).fn = "dropLoader" => DropLoader
           /\ Head(todo).fn = "arm" => Arm
           /\ Head(todo).fn = "armed" => Armed
           /\ Head(todo).fn = "eject" => EjectImage
           /\ Head(todo).fn = "handBack" => HandBack
           /\ Head(todo).fn = "dropBoot" => DropBoot
           /\ Head(todo).fn = "loadXex" => LoadXex
<1> USE DEF Running, Functions, TableFunctions
<1>1. TableCall => todo # <<>> /\ Head(todo).fn \in TableFunctions BY DEF TableCall
<1>2. Disarm => todo # <<>> /\ Head(todo).fn = "disarm" BY DEF Disarm
<1>3. FindLoader => todo # <<>> /\ Head(todo).fn = "findLoader" BY DEF FindLoader
<1>4. DropLoader => todo # <<>> /\ Head(todo).fn = "dropLoader" BY DEF DropLoader
<1>5. Arm => todo # <<>> /\ Head(todo).fn = "arm" BY DEF Arm
<1>6. Armed => todo # <<>> /\ Head(todo).fn = "armed" BY DEF Armed
<1>7. EjectImage => todo # <<>> /\ Head(todo).fn = "eject" BY DEF EjectImage
<1>8. HandBack => todo # <<>> /\ Head(todo).fn = "handBack" BY DEF HandBack
<1>9. DropBoot => todo # <<>> /\ Head(todo).fn = "dropBoot" BY DEF DropBoot
<1>10. LoadXex => todo # <<>> /\ Head(todo).fn = "loadXex" BY DEF LoadXex
<1> QED BY <1>1, <1>2, <1>3, <1>4, <1>5, <1>6, <1>7, <1>8, <1>9, <1>10 DEF EngineCall

(* A call to the table leaves the rest of the engine as it is.             *)
Steady == /\ behind' = behind /\ hisio' = hisio /\ remoteShim' = remoteShim
          /\ autoBoot' = autoBoot /\ autoBootOld' = autoBootOld /\ doomed' = doomed /\ emulating' = emulating

LEMMA TableCalls ==
    ASSUME NEW f \in TableFunctions, NEW n, NEW w, Call(f, n, w) \in Calls, NEW k \in Seq(Calls),
           todo = Do(Call(f, n, w), k), EngineCall
    PROVE  /\ todo' = k /\ Steady
           /\ f = "uninstall" => rack' = T!Uninstall(rack, n)
           /\ f \in {"install", "mount"} => rack' = T!Install(rack, n, w)
           /\ f = "setDeviceNo" => rack' = T!SetDeviceNo(rack, w, n)
           /\ f = "swap" => rack' = T!Swap(rack, n, w)
           /\ f = "delete" => rack' = T!Destroy(rack, w)
<1>1. Head(todo) = Call(f, n, w) /\ Tail(todo) = k BY DoIs
<1>2. Head(todo).fn = f /\ Head(todo).slot = n /\ Head(todo).with = w BY <1>1 DEF Call
<1>3. TableCall BY <1>2, Which
<1>4. todo' = k BY <1>1, <1>3 DEF TableCall, Return
<1>5. Steady BY <1>3 DEF TableCall, Steady, pointers, run
<1>6. /\ f = "uninstall" => rack' = T!Uninstall(rack, n)
      /\ f \in {"install", "mount"} => rack' = T!Install(rack, n, w)
      /\ f = "setDeviceNo" => rack' = T!SetDeviceNo(rack, w, n)
      /\ f = "swap" => rack' = T!Swap(rack, n, w)
      /\ f = "delete" => rack' = T!Destroy(rack, w)
  BY <1>2, <1>3 DEF TableCall, Running, This
<1> QED BY <1>4, <1>5, <1>6

(* The calls of a hand-back: from the device removed to the one restored.  *)
LEMMA DoBack ==
    ASSUME NEW S, NEW a \in S, NEW b \in S, NEW c \in S, NEW k \in Seq(S)
    PROVE  /\ Before((<<a>> \o <<b>>) \o <<c>>, k) = Do(a, Do(b, Do(c, k)))
           /\ Before((<<a>> \o <<>>) \o <<c>>, k) = Do(a, Do(c, k))
           /\ Before(<<a>> \o <<b>>, k) = Do(a, Do(b, k))
           /\ Before(<<a>> \o <<>>, k) = Do(a, k)
<1>1. <<a>> \in Seq(S) /\ <<b>> \in Seq(S) /\ <<c>> \in Seq(S) OBVIOUS
<1>2. Before(<<a>> \o <<b>>, k) = Do(a, Do(b, k)) BY <1>1, ConcatAssociative DEF Do, Before
<1>3. <<a>> \o <<>> = <<a>> BY <1>1
<1>4. <<c>> \o k \in Seq(S) /\ <<a>> \o <<b>> \in Seq(S) BY <1>1
<1>5. ((<<a>> \o <<b>>) \o <<c>>) \o k = (<<a>> \o <<b>>) \o (<<c>> \o k) BY <1>1, <1>4, ConcatAssociative
<1>6. (<<a>> \o <<b>>) \o (<<c>> \o k) = <<a>> \o (<<b>> \o (<<c>> \o k)) BY <1>1, <1>4, ConcatAssociative
<1>7. (<<a>> \o <<c>>) \o k = Do(a, Do(c, k)) BY <1>1, ConcatAssociative DEF Do
<1>8. Before((<<a>> \o <<b>>) \o <<c>>, k) = Do(a, Do(b, Do(c, k))) BY <1>5, <1>6 DEF Before, Do
<1>9. Before((<<a>> \o <<>>) \o <<c>>, k) = Do(a, Do(c, k)) BY <1>3, <1>7 DEF Before
<1>10. Before(<<a>> \o <<>>, k) = Do(a, k) BY <1>3 DEF Before, Do
<1> QED BY <1>2, <1>8, <1>9, <1>10

-----------------------------------------------------------------------------
(* What a section leaves alone.                                            *)
Contract == [T!Next]_rack

(* The pointers still point at live objects, and those that wait for       *)
(* deleteLater still have no drive.                                        *)
LEMMA PointersStay ==
    ASSUME Pointers, Steady, (rack.live \cap Loaders) \cup Hidden \subseteq rack'.live,
           \A o \in doomed : rack'.no[o] = NoSlot
    PROVE  Pointers' /\ Hidden' = Hidden /\ BehindShim' = BehindShim
<1>1. BehindShim' = BehindShim /\ Hidden' = Hidden BY DEF Steady, BehindShim, Hidden
<1>2. hisio # NoDev => hisio \in Loaders /\ behind[hisio] \in Hidden
  BY Nulls DEF Pointers, OrNone, Hidden, BehindShim
<1>3. autoBoot # NoDev => autoBoot \in Loaders BY Nulls DEF Pointers, OrNone
<1>4. autoBootOld \in OrNone(rack'.live \cap Disks) \cup {hisio} BY DEF Pointers, OrNone, Hidden
<1>5. \A o \in doomed : o \in rack'.live BY DEF Pointers
<1> QED BY <1>1, <1>2, <1>3, <1>4, <1>5 DEF Pointers, Steady

(* Nothing at all.                                                         *)
LEMMA PointersSame ==
    ASSUME Pointers, Steady, rack' = rack
    PROVE  Pointers' /\ Hidden' = Hidden /\ BehindShim' = BehindShim
<1>1. BehindShim' = BehindShim /\ Hidden' = Hidden BY DEF Steady, BehindShim, Hidden
<1> QED BY <1>1 DEF Pointers, Steady

(* What the pointers say, in types.                                        *)
LEMMA PointersFacts ==
    ASSUME Pointers
    PROVE  /\ hisio \in OrNone(Devices) /\ autoBoot \in OrNone(Devices) /\ autoBootOld \in OrNone(Devices)
           /\ hisio # NoDev => hisio \in Shims /\ hisio \in Devices /\ hisio \notin Disks /\ hisio # autoBoot
           /\ autoBoot # NoDev => autoBoot \in Boots /\ autoBoot \in Devices /\ autoBoot \notin Disks
           /\ hisio # NoDev => behind[hisio] \in Disks /\ behind[hisio] \in Devices
           /\ doomed \subseteq Devices /\ doomed \cap Disks = {}
           /\ Hidden \subseteq Disks
<1>1. hisio # NoDev => hisio \in Shims /\ hisio \in Devices /\ hisio \notin Disks /\ hisio # autoBoot
  BY Nulls DEF Pointers, OrNone
<1>2. autoBoot # NoDev => autoBoot \in Boots /\ autoBoot \in Devices /\ autoBoot \notin Disks
  BY Nulls DEF Pointers, OrNone
<1>3. hisio # NoDev => behind[hisio] \in Disks /\ behind[hisio] \in Devices BY Nulls DEF Pointers
<1>4. autoBootOld \in OrNone(Devices) BY <1>1, Nulls DEF Pointers, OrNone
<1>5. doomed \subseteq Devices /\ doomed \cap Disks = {} BY Nulls DEF Pointers
<1>6. Hidden \subseteq Disks BY <1>3 DEF Hidden, BehindShim
<1> QED BY <1>1, <1>2, <1>3, <1>4, <1>5, <1>6 DEF OrNone

-----------------------------------------------------------------------------
(* armHighSpeedAtrBoot, section by section.                                *)
LEMMA ArmBegins ==
    ASSUME ToArm, EngineCall
    PROVE  Contract /\ Slot'
<1>0. <<>> \in Seq(Calls) /\ Go("arm") \in Calls /\ todo = Do(Go("arm"), <<>>)
  BY Typed, DoOne DEF ToArm
<1>1. Head(todo) = Go("arm") /\ Tail(todo) = <<>> BY <1>0, DoIs
<1>2. Arm BY <1>1, Which DEF Go, Call
<1>3. Pointers /\ Own(rack, {}) /\ Hidden = {} /\ remoteShim = NoDev /\ Bare /\ rack.dev[0] \in OrNone(Disks)
  <2>1. Hidden \cup New(NoDev) = {} BY Nulls DEF ToArm, Rest, Bare, Hidden, BehindShim, New, Pointers
  <2> QED BY <2>1 DEF ToArm, Rest, Bare, AtFront
<1>4. CASE Return(<<>>) /\ UNCHANGED <<rack, behind>>
  <2>1. rack' = rack /\ Steady BY <1>2, <1>4 DEF Arm, Steady, pointers, run
  <2>2. Pointers' /\ Hidden' = Hidden BY <1>3, <2>1, PointersSame
  <2>3. todo' = <<>> BY <1>0, <1>1, <1>4 DEF Return
  <2>4. Idle' BY <2>1, <2>2, <2>3 DEF Idle, ToArm, Rest, Bare, Served, Steady, AtFront
  <2> QED BY <2>1, <2>4 DEF Contract, Slot
<1>5. ASSUME HighSpeed /\ emulating /\ remoteShim = NoDev /\ rack.dev[0] # NoDev,
             NEW s \in Fresh(Shims), rack' = T!Allocate(rack, s),
             behind' = [behind EXCEPT ![s] = rack.dev[0]],
             Return(<<Call("uninstall", 0, NoDev), Call("setDeviceNo", 0, rack.dev[0]),
                      Call("install", 0, s), Call("armed", 0, s)>>)
      PROVE  Contract /\ Slot'
  <2> DEFINE d == rack.dev[0]
  <2>1. s \in Shims /\ s \notin rack.live /\ s \in Devices /\ s \in Loaders /\ s \notin Disks
    BY <1>5, Nulls DEF Fresh
  <2>2. d \in Disks /\ d \in Devices /\ d \in rack.live BY <1>3, <1>5, OwnFacts, D1, Nulls DEF OrNone
  <2> DEFINE none == {} \cup ({s} \cap Disks)
  <2>3. none = {} BY <2>1
  <2>m. /\ Own(rack', none) /\ rack'.dev = rack.dev /\ rack'.live = rack.live \cup {s} /\ T!Next
        /\ rack'.no = [rack.no EXCEPT ![s] = NoSlot]
    BY <1>3, <1>5, <2>1, Allocates
  <2> HIDE DEF none
  <2>4. /\ Own(rack', {}) /\ rack'.dev = rack.dev /\ rack'.live = rack.live \cup {s} /\ T!Next
        /\ rack'.no = [rack.no EXCEPT ![s] = NoSlot]
    BY <2>3, <2>m
  <2>5. UNCHANGED <<hisio, remoteShim, autoBoot, autoBootOld, doomed, emulating>>
    BY <1>2 DEF Arm, pointers, run
  <2>6. behind' \in [Loaders -> OrNone(Devices)] /\ behind'[s] = d
    BY <1>3, <1>5, <2>1, <2>2 DEF Pointers, OrNone
  <2>7. \A o \in doomed : o \in rack'.live /\ rack'.no[o] = NoSlot /\ o # s
    BY <1>3, <2>1, <2>4, OwnFacts, PointersFacts DEF Pointers
  <2>8. Pointers' /\ Bare' BY <1>3, <2>5, <2>6, <2>7 DEF Pointers, Bare, OrNone
  <2>9. todo' = Do(Call("uninstall", 0, NoDev), Do(Call("setDeviceNo", 0, d),
                   Do(Call("install", 0, s), <<Call("armed", 0, s)>>)))
    <3>1. /\ Call("uninstall", 0, NoDev) \in Calls /\ Call("setDeviceNo", 0, d) \in Calls
          /\ Call("install", 0, s) \in Calls /\ Call("armed", 0, s) \in Calls
      BY <2>1, <2>2, D1, Typed
    <3>2. todo' = Before(Four(Call("uninstall", 0, NoDev), Call("setDeviceNo", 0, d),
                              Call("install", 0, s), Call("armed", 0, s)), <<>>)
      BY <1>1, <1>5 DEF Return, Four, Before
    <3> QED BY <3>1, <3>2, DoFour
  <2>10. InPlace(s, d)'
    <3>1. Arming(s, d)' BY <1>3, <1>5, <2>4, <2>5, <2>6, <2>7, <2>8 DEF Arming
    <3> QED BY <2>4, <2>9, <3>1 DEF InPlace
  <2> QED BY <2>1, <2>2, <2>4, <2>10 DEF Contract, Slot, ArmSlot
<1> QED BY <1>2, <1>4, <1>5 DEF Arm

(* The disks behind loaders are allocated.                                 *)
LEMMA HiddenLive == ASSUME Pointers PROVE Hidden \subseteq rack.live
BY Nulls DEF Pointers, OrNone, Hidden, BehindShim

(* A section that takes a device out of a drive.                           *)
LEMMA Removed ==
    ASSUME NEW hid, Own(rack, hid), Pointers, NEW n \in Slots, NEW k \in Seq(Calls),
           todo = Do(Call("uninstall", n, NoDev), k), EngineCall
    PROVE  /\ todo' = k /\ Steady /\ Contract
           /\ Own(rack', hid \cup ({rack.dev[n]} \cap Disks))
           /\ rack'.dev[n] = NoDev /\ \A m \in Slots \ {n} : rack'.dev[m] = rack.dev[m]
           /\ rack'.live = rack.live
           /\ \A o \in Devices : rack.no[o] = NoSlot \/ o = rack.dev[n] => rack'.no[o] = NoSlot
           /\ Pointers' /\ Hidden' = Hidden /\ BehindShim' = BehindShim
<1>1. todo' = k /\ Steady /\ rack' = T!Uninstall(rack, n)
  <2>1. "uninstall" \in TableFunctions /\ Call("uninstall", n, NoDev) \in Calls
    BY Typed DEF TableFunctions
  <2> QED BY <2>1, TableCalls
<1>2. /\ Own(rack', hid \cup ({rack.dev[n]} \cap Disks))
      /\ rack'.dev = [rack.dev EXCEPT ![n] = NoDev] /\ rack'.live = rack.live
      /\ rack'.no = [o \in Devices |-> IF o = rack.dev[n] THEN NoSlot ELSE rack.no[o]]
      /\ T!Next
  BY <1>1, Uninstalls
<1>3. rack'.dev[n] = NoDev /\ \A m \in Slots \ {n} : rack'.dev[m] = rack.dev[m]
  BY <1>2, OwnFacts
<1>4. \A o \in Devices : rack.no[o] = NoSlot \/ o = rack.dev[n] => rack'.no[o] = NoSlot BY <1>2
<1>5. \A o \in doomed : rack'.no[o] = NoSlot BY <1>4, PointersFacts DEF Pointers
<1>6. Pointers' /\ Hidden' = Hidden /\ BehindShim' = BehindShim
  BY <1>1, <1>2, <1>5, HiddenLive, PointersStay
<1> QED BY <1>1, <1>2, <1>3, <1>4, <1>6 DEF Contract

(* A section that puts a device into an empty drive.                       *)
LEMMA Placed ==
    ASSUME NEW hid, Own(rack, hid), Pointers, NEW n \in Slots, NEW o \in rack.live \ doomed, rack.dev[n] = NoDev,
           o \in hid \/ (n = 0 /\ o \in Loaders /\ \A m \in Slots : rack.dev[m] # o),
           NEW f \in {"install", "mount"}, Call(f, n, o) \in Calls, NEW k \in Seq(Calls),
           todo = Do(Call(f, n, o), k), EngineCall
    PROVE  /\ todo' = k /\ Steady /\ Contract
           /\ Own(rack', hid \ {o})
           /\ rack'.dev[n] = o /\ \A m \in Slots \ {n} : rack'.dev[m] = rack.dev[m]
           /\ rack'.live = rack.live
           /\ \A e \in Devices \ {o} : rack'.no[e] = rack.no[e]
           /\ Pointers' /\ Hidden' = Hidden /\ BehindShim' = BehindShim
<1>1. todo' = k /\ Steady /\ rack' = T!Install(rack, n, o)
  <2>1. f \in TableFunctions BY DEF TableFunctions
  <2> QED BY <2>1, TableCalls
<1>2. /\ Own(rack', hid \ {o})
      /\ rack'.dev = [rack.dev EXCEPT ![n] = o] /\ rack'.live = rack.live
      /\ rack'.no = [rack.no EXCEPT ![o] = n]
      /\ T!Next
  BY <1>1, Installs
<1>3. rack'.dev[n] = o /\ \A m \in Slots \ {n} : rack'.dev[m] = rack.dev[m]
  BY <1>2, OwnFacts
<1>4. \A e \in Devices \ {o} : rack'.no[e] = rack.no[e] BY <1>2, OwnFacts
<1>5. \A e \in doomed : rack'.no[e] = NoSlot BY <1>4, PointersFacts DEF Pointers
<1>6. Pointers' /\ Hidden' = Hidden /\ BehindShim' = BehindShim
  BY <1>1, <1>2, <1>5, HiddenLive, PointersStay
<1> QED BY <1>1, <1>2, <1>3, <1>4, <1>6 DEF Contract

(* The same for a disk that is in no drive, with names for what it says.   *)
Vacant(n) == rack.dev[n] = NoDev
Placing(hid, n, o, k) ==
    /\ todo' = k /\ Steady /\ Contract
    /\ Own(rack', hid \ {o})
    /\ rack'.dev[n] = o /\ \A m \in Slots \ {n} : rack'.dev[m] = rack.dev[m]
    /\ rack'.live = rack.live
    /\ \A e \in Devices \ {o} : rack'.no[e] = rack.no[e]
    /\ Pointers' /\ Hidden' = Hidden /\ BehindShim' = BehindShim

LEMMA PlacedDisk ==
    ASSUME NEW hid, Own(rack, hid), Pointers, NEW n \in Slots, NEW o \in hid, Vacant(n),
           NEW f \in {"install", "mount"}, NEW k \in Seq(Calls),
           todo = Do(Call(f, n, o), k), EngineCall
    PROVE  Placing(hid, n, o, k)
<1>1. o \in Disks /\ o \in Devices BY OwnFacts, Nulls
<1>2. o \in rack.live \ doomed BY <1>1, OwnFacts, PointersFacts
<1>3. Call(f, n, o) \in Calls BY <1>1, Typed
<1>4. rack.dev[n] = NoDev BY DEF Vacant
<1> QED BY <1>2, <1>3, <1>4, Placed DEF Placing

(* And for a loader, in D1:.                                               *)
LEMMA PlacedLoader ==
    ASSUME NEW hid, Own(rack, hid), Pointers, NEW o \in Loaders, o \in rack.live \ doomed, Vacant(0),
           NEW k \in Seq(Calls), todo = Do(Call("install", 0, o), k), EngineCall
    PROVE  Placing(hid, 0, o, k) /\ hid \ {o} = hid
<1>1. o \in Devices /\ o \notin Disks /\ o # NoDev BY Nulls
<1>2. rack.dev[0] = NoDev BY DEF Vacant
<1>3. \A m \in Slots : rack.dev[m] # o BY <1>1, <1>2, OwnFacts DEF OrNone
<1>4. Call("install", 0, o) \in Calls BY <1>1, D1, Typed
<1>5. hid \ {o} = hid BY <1>1, OwnFacts
<1>6. "install" \in {"install", "mount"} OBVIOUS
<1>7. Placing(hid, 0, o, k) BY <1>2, <1>3, <1>4, <1>6, D1, Placed DEF Placing
<1> QED BY <1>5, <1>7

-----------------------------------------------------------------------------
(* The last calls of an arm, as a rest.                                    *)
LEMMA ArmRests ==
    ASSUME NEW s \in Shims, NEW d \in Disks
    PROVE  /\ Call("setDeviceNo", 0, d) \in Calls /\ Call("install", 0, s) \in Calls /\ Call("armed", 0, s) \in Calls
           /\ <<Call("armed", 0, s)>> \in Seq(Calls)
           /\ Do(Call("install", 0, s), <<Call("armed", 0, s)>>) \in Seq(Calls)
           /\ Do(Call("setDeviceNo", 0, d), Do(Call("install", 0, s), <<Call("armed", 0, s)>>)) \in Seq(Calls)
<1>1. /\ Call("setDeviceNo", 0, d) \in Calls /\ Call("install", 0, s) \in Calls /\ Call("armed", 0, s) \in Calls
  BY Typed, Nulls, D1
<1>2. <<Call("armed", 0, s)>> \in Seq(Calls) BY <1>1
<1> QED BY <1>1, <1>2, DoIs

(* The disk out of D1:,                                                    *)
LEMMA ArmLifts ==
    ASSUME NEW s \in Shims, NEW d \in Disks, InPlace(s, d), EngineCall
    PROVE  Contract /\ Slot'
<1> DEFINE h == {} \cup ({rack.dev[0]} \cap Disks)
           k == Do(Call("setDeviceNo", 0, d), Do(Call("install", 0, s), <<Call("armed", 0, s)>>))
<1>1. Own(rack, {}) /\ Pointers /\ todo = Do(Call("uninstall", 0, NoDev), k) /\ rack.dev[0] = d BY DEF InPlace, Arming
<1>2. k \in Seq(Calls) BY ArmRests
<1> HIDE DEF k, h
<1>3. /\ todo' = k /\ Steady /\ Contract /\ Own(rack', h) /\ rack'.dev[0] = NoDev
      /\ rack'.live = rack.live /\ Pointers'
  BY <1>1, <1>2, D1, Removed DEF h
<1>4. h = {d} BY <1>1 DEF h
<1>5. Arming(s, d)' BY <1>3 DEF InPlace, Arming, Steady, Bare
<1>6. Lifted(s, d)' BY <1>3, <1>4, <1>5 DEF Lifted, k
<1> QED BY <1>3, <1>6 DEF Slot, ArmSlot

(* told that it is still D1:,                                              *)
LEMMA ArmNumbers ==
    ASSUME NEW s \in Shims, NEW d \in Disks, Lifted(s, d), EngineCall
    PROVE  Contract /\ Slot'
<1> DEFINE k == Do(Call("install", 0, s), <<Call("armed", 0, s)>>)
<1>1. Own(rack, {d}) /\ Pointers /\ todo = Do(Call("setDeviceNo", 0, d), k) /\ rack.dev[0] = NoDev
  BY DEF Lifted, Arming
<1>2. k \in Seq(Calls) /\ Call("setDeviceNo", 0, d) \in Calls /\ "setDeviceNo" \in TableFunctions
  BY ArmRests DEF TableFunctions
<1> HIDE DEF k
<1>3. todo' = k /\ Steady /\ rack' = T!SetDeviceNo(rack, d, 0) BY <1>1, <1>2, TableCalls
<1>4. /\ Own(rack', {d}) /\ rack'.dev = rack.dev /\ rack'.live = rack.live
      /\ rack'.no = [rack.no EXCEPT ![d] = 0] /\ T!Next
  BY <1>1, <1>3, D1, Renumbers
<1>5. \A o \in doomed : rack'.no[o] = NoSlot BY <1>1, <1>4, OwnFacts, PointersFacts DEF Pointers
<1>6. Pointers' BY <1>1, <1>3, <1>4, <1>5, HiddenLive, PointersStay
<1>7. Arming(s, d)' BY <1>3, <1>4, <1>6 DEF Lifted, Arming, Steady, Bare
<1>8. Numbered(s, d)' BY <1>1, <1>3, <1>4, <1>7 DEF Numbered, k
<1> QED BY <1>4, <1>8 DEF Contract, Slot, ArmSlot

(* the loader into D1:,                                                    *)
LEMMA ArmCovers ==
    ASSUME NEW s \in Shims, NEW d \in Disks, Numbered(s, d), EngineCall
    PROVE  Contract /\ Slot'
<1> DEFINE h == {d} \ {s}
           k == <<Call("armed", 0, s)>>
<1>1. Own(rack, {d}) /\ Pointers /\ todo = Do(Call("install", 0, s), k) /\ rack.dev[0] = NoDev
  BY DEF Numbered, Arming
<1>2. k \in Seq(Calls) /\ Call("install", 0, s) \in Calls BY ArmRests
<1>3. s \in rack.live \ doomed /\ s \in Loaders /\ s # d /\ s # NoDev BY Nulls DEF Numbered, Arming
<1> HIDE DEF k
<1>5. /\ todo' = k /\ Steady /\ Contract /\ Own(rack', h) /\ rack'.dev[0] = s
      /\ rack'.live = rack.live /\ Pointers'
  BY <1>1, <1>2, <1>3, PlacedLoader DEF Placing, Vacant
<1>6. h = {d} BY <1>3
<1> HIDE DEF h
<1>7. Arming(s, d)' BY <1>5 DEF Numbered, Arming, Steady, Bare
<1>8. Covered(s, d)' BY <1>5, <1>6, <1>7 DEF Covered, k
<1> QED BY <1>5, <1>8 DEF Slot, ArmSlot

(* and the engine and the remote control told of it.                       *)
LEMMA ArmEnds ==
    ASSUME NEW s \in Shims, NEW d \in Disks, Covered(s, d), EngineCall
    PROVE  Contract /\ Slot'
<1> DEFINE k == <<>>
<1>0. k \in Seq(Calls) OBVIOUS
<1>1. Call("armed", 0, s) \in Calls BY ArmRests
<1>2. todo = Do(Call("armed", 0, s), k) BY DoOne DEF Covered
<1> HIDE DEF k
<1>3. Head(todo) = Call("armed", 0, s) /\ Tail(todo) = k BY <1>0, <1>1, <1>2, DoIs
<1>4. Head(todo).fn = "armed" /\ Head(todo).with = s BY <1>3 DEF Call
<1>5. Armed BY <1>4, Which
<1>6. /\ rack' = rack /\ behind' = behind /\ hisio' = s /\ remoteShim' = s /\ autoBoot' = autoBoot
      /\ autoBootOld' = autoBootOld /\ doomed' = doomed /\ emulating' = emulating /\ todo' = <<>>
  BY <1>3, <1>4, <1>5 DEF Armed, This, run, Return, k
<1>7. Own(rack, {d}) /\ rack.dev[0] = s /\ Pointers /\ Bare /\ emulating /\ s \in rack.live \ doomed /\ behind[s] = d
  BY DEF Covered, Arming
<1>8. d \in rack.live /\ s # NoDev BY <1>7, OwnFacts, Nulls
<1>9. Pointers'
  <2>1. autoBootOld = NoDev BY <1>7 DEF Bare, Pointers
  <2> QED BY <1>6, <1>7, <1>8, <2>1 DEF Pointers, Bare, OrNone
<1>10. Hidden' = {d} /\ BehindShim' = {d}
  <2>1. BehindShim' = {d} BY <1>6, <1>7, <1>8 DEF BehindShim
  <2>2. autoBootOld' = NoDev BY <1>6, <1>7 DEF Bare, Pointers
  <2> QED BY <2>1, <2>2, Nulls DEF Hidden
<1>11. Own(rack', Hidden' \cup New(NoDev))
  <2>1. Hidden' \cup New(NoDev) = {d} BY <1>10 DEF New
  <2> QED BY <1>6, <1>7, <2>1
<1>12. rack'.dev[0] \in AtFront' BY <1>6, <1>7, <1>8 DEF AtFront, Bare
<1>13. New(NoDev) \cap Hidden' = {} BY DEF New
<1>14. Idle' BY <1>6, <1>7, <1>9, <1>11, <1>12, <1>13 DEF Idle, Rest, Served
<1> QED BY <1>6, <1>14 DEF Contract, Slot

-----------------------------------------------------------------------------
(* What comes after a disarm: an eject, a swap, or nothing.                *)
LEMMA AfterDisarmed ==
    ASSUME NEW p \in OrNone(Disks), NEW k \in AfterDisarm(p), todo' = k, Rest(p)', Bare'
    PROVE  Slot'
<1>1. Served' BY DEF Bare, Served
<1>2. CASE \E j \in Puts(0, p) : k = Do(Call("eject", 0, NoDev), j)
  <2>1. PICK j \in Puts(0, p) : k = Do(Call("eject", 0, NoDev), j) BY <1>2
  <2>2. ToEject(0, p, j)' BY <1>1, <2>1 DEF ToEject, Ejectable
  <2>3. EjectSlot' BY <2>2, D1 DEF EjectSlot
  <2> QED BY <2>3 DEF Slot
<1>3. CASE p = NoDev /\ k = <<>>
  <2>1. Idle' BY <1>1, <1>3 DEF Idle
  <2> QED BY <2>1 DEF Slot
<1>4. CASE p = NoDev /\ \E x \in Slots \X Slots : x[1] # x[2] /\ k = Do(Call("swap", x[2], x[1]), <<Go("arm")>>)
  <2>1. PICK x \in Slots \X Slots : x[1] # x[2] /\ k = Do(Call("swap", x[2], x[1]), <<Go("arm")>>) BY <1>4
  <2>2. ToSwap(x[1], x[2])' BY <1>4, <2>1 DEF ToSwap
  <2>3. SwapSlot' BY <2>1, <2>2 DEF SwapSlot
  <2> QED BY <2>3 DEF Slot
<1> QED BY <1>2, <1>3, <1>4 DEF AfterDisarm

(* A disarm's rest, and the calls it adds to it.                           *)
LEMMA DisarmRests ==
    ASSUME NEW p \in OrNone(Disks), NEW k \in AfterDisarm(p), NEW d \in Disks
    PROVE  /\ k \in Seq(Calls) /\ Go("disarm") \in Calls /\ Go("dropLoader") \in Calls
           /\ Call("findLoader", NoSlot, d) \in Calls /\ Call("uninstall", 0, NoDev) \in Calls
           /\ Call("install", 0, d) \in Calls
           /\ Do(Go("dropLoader"), k) \in Seq(Calls)
           /\ Do(Call("install", 0, d), Do(Go("dropLoader"), k)) \in Seq(Calls)
<1>1. k \in Seq(Calls) BY Rests
<1>2. Go("disarm") \in Calls /\ Go("dropLoader") \in Calls BY Typed
<1>3. /\ Call("findLoader", NoSlot, d) \in Calls /\ Call("uninstall", 0, NoDev) \in Calls
      /\ Call("install", 0, d) \in Calls
  BY Typed, Nulls, D1 DEF OrNone
<1>4. Do(Go("dropLoader"), k) \in Seq(Calls) BY <1>1, <1>2, DoIs
<1> QED BY <1>1, <1>2, <1>3, <1>4, DoIs

(* With a loader alone in front of D1:, one disk is behind it.             *)
LEMMA OnlyShim ==
    ASSUME Pointers, hisio # NoDev, autoBoot = NoDev
    PROVE  Hidden = {behind[hisio]} /\ BehindShim = {behind[hisio]} /\ autoBootOld = NoDev
BY Nulls DEF Pointers, Hidden, BehindShim

(* With none, none is.                                                     *)
LEMMA NoneHidden == ASSUME Pointers, Bare PROVE Hidden = {} /\ BehindShim = {}
BY Nulls DEF Pointers, Bare, Hidden, BehindShim

(* disarmHighSpeedAtrBoot: the remote control forgets the loader,          *)
LEMMA DisarmBegins ==
    ASSUME NEW p \in OrNone(Disks), NEW k \in AfterDisarm(p), ToDisarm(p, k), EngineCall
    PROVE  Contract /\ Slot'
<1>1. todo = Do(Go("disarm"), k) /\ Rest(p) /\ autoBoot = NoDev BY DEF ToDisarm
<1>2. k \in Seq(Calls) /\ Go("disarm") \in Calls BY Rests, Typed
<1>3. Head(todo) = Go("disarm") /\ Tail(todo) = k BY <1>1, <1>2, DoIs
<1>4. Disarm BY <1>3, Which DEF Go, Call
<1>5. /\ rack' = rack /\ behind' = behind /\ hisio' = hisio /\ autoBoot' = autoBoot
      /\ autoBootOld' = autoBootOld /\ doomed' = doomed /\ emulating' = emulating
  BY <1>4 DEF Disarm, run
<1>6. Pointers BY <1>1 DEF Rest
<1>7. Pointers' /\ Hidden' = Hidden BY <1>5, <1>6 DEF Pointers, Hidden, BehindShim
<1>8. CASE hisio = NoDev
  <2>1. remoteShim' = remoteShim /\ todo' = <<>> \o k BY <1>3, <1>4, <1>8 DEF Disarm, Return
  <2>2. todo' = k BY <1>2, <2>1
  <2>3. Rest(p)' BY <1>1, <1>5, <1>7, <2>1 DEF Rest, AtFront
  <2>4. Bare' BY <1>1, <1>5, <1>8 DEF Bare
  <2>5. Slot' BY <2>2, <2>3, <2>4, AfterDisarmed
  <2> QED BY <1>5, <2>5 DEF Contract
<1>9. CASE hisio # NoDev
  <2> DEFINE d == behind[hisio]
  <2>1. d \in Disks BY <1>6, <1>9, PointersFacts
  <2>2. Call("findLoader", NoSlot, d) \in Calls /\ Go("dropLoader") \in Calls BY <2>1, DisarmRests
  <2>3. /\ remoteShim' = NoDev
        /\ todo' = Before(Two(Call("findLoader", NoSlot, d), Go("dropLoader")), k)
    BY <1>3, <1>4, <1>9 DEF Disarm, Return, Before, Two, Go
  <2>4. todo' = Do(Call("findLoader", NoSlot, d), Do(Go("dropLoader"), k)) BY <1>2, <2>2, <2>3, DoTwo
  <2>5. Hidden = {d} BY <1>1, <1>6, <1>9, OnlyShim
  <2>6. Own(rack, {d} \cup New(p)) /\ d # p /\ rack.dev[0] = hisio
    BY <1>1, <1>9, <2>1, <2>5, Nulls DEF Rest, New, AtFront
  <2>7. Disarming(p)' BY <1>1, <1>5, <1>7, <1>9, <2>3, <2>6 DEF Disarming
  <2>8. Finding(p, k)' BY <1>5, <2>4, <2>6, <2>7 DEF Finding
  <2> QED BY <1>5, <2>8 DEF Contract, Slot, DisarmSlot
<1> QED BY <1>8, <1>9

(* the table is searched for it,                                           *)
LEMMA DisarmFinds ==
    ASSUME NEW p \in OrNone(Disks), NEW k \in AfterDisarm(p), Finding(p, k), EngineCall
    PROVE  Contract /\ Slot'
<1> DEFINE d == behind[hisio]
           r == Do(Go("dropLoader"), k)
<1>1. /\ Disarming(p) /\ Pointers /\ hisio # NoDev /\ Own(rack, {d} \cup New(p)) /\ rack.dev[0] = hisio
      /\ todo = Do(Call("findLoader", NoSlot, d), r)
  BY DEF Finding, Disarming
<1>2. d \in Disks /\ d # NoDev /\ hisio \notin Disks BY <1>1, PointersFacts, Nulls
<1>3. /\ Call("findLoader", NoSlot, d) \in Calls /\ r \in Seq(Calls) /\ Call("uninstall", 0, NoDev) \in Calls
      /\ Call("install", 0, d) \in Calls
  BY <1>2, DisarmRests
<1>4. Head(todo) = Call("findLoader", NoSlot, d) /\ Tail(todo) = r
  <2> HIDE DEF d, r
  <2> QED BY <1>1, <1>3, DoIs
<1>5. FindLoader /\ Head(todo).with = d BY <1>4, Which DEF Call
<1>6. hisio \in T!Installed(rack) BY <1>1, D1 DEF T!Installed
<1> HIDE DEF r
<1>7. /\ rack' = rack /\ behind' = behind /\ hisio' = hisio /\ autoBoot' = autoBoot
      /\ autoBootOld' = autoBootOld /\ doomed' = doomed /\ emulating' = emulating /\ remoteShim' = remoteShim
  BY <1>5 DEF FindLoader, run, pointers
<1>8. PICK n \in Slots : /\ rack.dev[n] = hisio
                         /\ todo' = Before(<<Call("uninstall", n, NoDev)>> \o <<Call("install", n, d)>>, r)
  BY <1>2, <1>4, <1>5, <1>6 DEF FindLoader, Return, This, Before, If
<1>9. n = 0 BY <1>1, <1>8, D1, InOneSlot
<1>10. todo' = Do(Call("uninstall", 0, NoDev), Do(Call("install", 0, d), r)) BY <1>3, <1>8, <1>9, DoBack
<1>11. Disarming(p)' BY <1>1, <1>7 DEF Disarming, Pointers
<1>12. Found(p, k)' BY <1>1, <1>7, <1>10, <1>11 DEF Found, r
<1> QED BY <1>7, <1>12 DEF Contract, Slot, DisarmSlot

(* the loader is taken out of D1:,                                         *)
LEMMA DisarmTakes ==
    ASSUME NEW p \in OrNone(Disks), NEW k \in AfterDisarm(p), Found(p, k), EngineCall
    PROVE  Contract /\ Slot'
<1> DEFINE d == behind[hisio]
           r == Do(Call("install", 0, d), Do(Go("dropLoader"), k))
           h == {d} \cup New(p)
           i == h \cup ({rack.dev[0]} \cap Disks)
<1>1. /\ Disarming(p) /\ Pointers /\ hisio # NoDev /\ Own(rack, h) /\ rack.dev[0] = hisio
      /\ todo = Do(Call("uninstall", 0, NoDev), r)
  BY DEF Found, Disarming
<1>2. d \in Disks /\ hisio \notin Disks /\ hisio \in Devices BY <1>1, PointersFacts
<1>3. r \in Seq(Calls) BY <1>2, DisarmRests
<1>4. i = h BY <1>1, <1>2
<1> HIDE DEF r, h, i
<1>5. /\ todo' = r /\ Steady /\ Contract /\ Own(rack', i) /\ rack'.dev[0] = NoDev
      /\ rack'.no[hisio] = NoSlot /\ Pointers'
  BY <1>1, <1>2, <1>3, D1, Removed DEF i
<1>6. Disarming(p)' BY <1>1, <1>5 DEF Disarming, Steady
<1>7. Taken(p, k)' BY <1>4, <1>5, <1>6 DEF Taken, Steady, r, h
<1> QED BY <1>5, <1>7 DEF Slot, DisarmSlot

(* the disk behind it is put back,                                         *)
LEMMA DisarmRestores ==
    ASSUME NEW p \in OrNone(Disks), NEW k \in AfterDisarm(p), Taken(p, k), EngineCall
    PROVE  Contract /\ Slot'
<1>1. PICK d \in Disks : d = behind[hisio] BY PointersFacts DEF Taken, Disarming
<1> DEFINE r == Do(Go("dropLoader"), k)
           h == {d} \cup New(p)
           i == h \ {d}
<1>2. /\ Disarming(p) /\ Pointers /\ hisio # NoDev /\ Own(rack, h) /\ rack.dev[0] = NoDev /\ d # p
      /\ rack.no[hisio] = NoSlot /\ todo = Do(Call("install", 0, d), r)
  BY <1>1 DEF Taken, Disarming
<1>3. hisio \notin Disks /\ hisio \in Devices BY <1>2, PointersFacts
<1>4. r \in Seq(Calls) BY DisarmRests
<1>5. i = New(p) BY <1>2 DEF New
<1>6. d \in h OBVIOUS
<1> HIDE DEF r, h, i
<1>7. /\ todo' = r /\ Steady /\ Contract /\ Own(rack', i) /\ rack'.dev[0] = d
      /\ rack'.no[hisio] = NoSlot /\ Pointers'
  <2>0. Vacant(0) /\ Own(rack, h) /\ Pointers /\ todo = Do(Call("install", 0, d), r) BY <1>2 DEF Vacant
  <2>1. Placing(h, 0, d, r) BY <1>4, <1>6, <2>0, D1, PlacedDisk
  <2>2. hisio # d BY <1>3
  <2> QED BY <1>2, <1>3, <2>1, <2>2 DEF Placing, i
<1>8. Disarming(p)' BY <1>2, <1>7 DEF Disarming, Steady
<1>9. Restored(p, k)' BY <1>1, <1>5, <1>7, <1>8 DEF Restored, Steady, r
<1> QED BY <1>7, <1>9 DEF Slot, DisarmSlot

(* and the engine lets the loader go.                                      *)
LEMMA DisarmEnds ==
    ASSUME NEW p \in OrNone(Disks), NEW k \in AfterDisarm(p), Restored(p, k), EngineCall
    PROVE  Contract /\ Slot'
<1> DEFINE d == behind[hisio]
<1>1. /\ Disarming(p) /\ Pointers /\ hisio # NoDev /\ Own(rack, New(p)) /\ rack.dev[0] = d
      /\ rack.no[hisio] = NoSlot /\ autoBoot = NoDev /\ remoteShim = NoDev /\ todo = Do(Go("dropLoader"), k)
  BY DEF Restored, Disarming
<1>2. k \in Seq(Calls) /\ Go("dropLoader") \in Calls BY Rests, Typed
<1>3. Head(todo) = Go("dropLoader") /\ Tail(todo) = k BY <1>1, <1>2, DoIs
<1>4. DropLoader BY <1>3, Which DEF Go, Call
<1>5. /\ rack' = rack /\ behind' = behind /\ hisio' = NoDev /\ autoBoot' = autoBoot
      /\ autoBootOld' = autoBootOld /\ doomed' = doomed \cup {hisio} /\ remoteShim' = remoteShim
  BY <1>4 DEF DropLoader
<1>6. todo' = <<>> \o k BY <1>3, <1>4 DEF DropLoader, Return
<1>7. todo' = k BY <1>2, <1>6
<1>8. autoBootOld = NoDev /\ d \in Disks BY <1>1, OnlyShim, PointersFacts
<1>9. hisio \in Shims /\ hisio \in rack.live BY <1>1, PointersFacts DEF Pointers
<1>10. Pointers' BY <1>1, <1>5, <1>8, <1>9, Nulls DEF Pointers, OrNone
<1>11. Bare' BY <1>1, <1>5 DEF Bare
<1>12. Hidden' = {}
  <2>1. BehindShim' = {} BY <1>5 DEF BehindShim
  <2> QED BY <1>5, <1>8, <2>1, Nulls DEF Hidden
<1>13. Own(rack', Hidden' \cup New(p)) /\ New(p) \cap Hidden' = {}
  <2>1. Hidden' \cup New(p) = New(p) BY <1>12
  <2> QED BY <1>1, <1>5, <1>12, <2>1
<1>14. rack'.dev[0] \in AtFront' BY <1>1, <1>5, <1>8 DEF AtFront, OrNone
<1>15. Rest(p)' BY <1>1, <1>5, <1>10, <1>13, <1>14 DEF Rest
<1>16. Slot' BY <1>7, <1>11, <1>15, AfterDisarmed
<1> QED BY <1>5, <1>16 DEF Contract

-----------------------------------------------------------------------------
(* ejectImage, and the mount or the installation after it.                 *)

(* The slot that is emptied holds a disk the engine sees, or nothing.      *)
LEMMA SlotDisk ==
    ASSUME NEW n \in Slots, NEW p \in OrNone(Disks), Ejectable(n, p)
    PROVE  DiskAt(n) = rack.dev[n] /\ rack.dev[n] \in OrNone(Disks)
<1>1. Rest(p) /\ Pointers /\ (n = 0 => Bare) BY DEF Ejectable, Rest
<1>2. CASE n = 0
  <2>1. hisio = NoDev /\ rack.dev[n] \in OrNone(Disks) BY <1>1, <1>2 DEF Bare, Rest, AtFront
  <2> QED BY <2>1 DEF DiskAt, OrNone
<1>3. CASE n # 0
  <2>1. rack.dev[n] \in OrNone(Disks) BY <1>1, <1>3, OwnFacts DEF Rest
  <2>2. hisio # NoDev => rack.dev[n] # hisio BY <1>1, <2>1, PointersFacts DEF OrNone
  <2> QED BY <2>1, <2>2 DEF DiskAt, OrNone
<1> QED BY <1>2, <1>3

(* What is left to do once the slot is empty.                              *)
LEMMA PutRests ==
    ASSUME NEW n \in Slots, NEW p \in OrNone(Disks), NEW k \in Puts(n, p)
    PROVE  /\ k \in Seq(Calls)
           /\ Call("uninstall", n, NoDev) \in Calls /\ Call("eject", n, NoDev) \in Calls
           /\ \A d \in Disks : Call("delete", n, d) \in Calls /\ Do(Call("delete", n, d), k) \in Seq(Calls)
<1>1. k \in Seq(Calls) BY Rests
<1>2. Call("uninstall", n, NoDev) \in Calls /\ Call("eject", n, NoDev) \in Calls BY Typed
<1>3. \A d \in Disks : Call("delete", n, d) \in Calls BY Typed, Nulls
<1> QED BY <1>1, <1>2, <1>3, DoIs

LEMMA AfterEject ==
    ASSUME NEW n \in Slots, NEW p \in OrNone(Disks), NEW k \in Puts(n, p),
           todo' = k, Ejectable(n, p)', rack'.dev[n] = NoDev
    PROVE  Slot'
<1>1. CASE p = NoDev
  <2>1. k = <<>> BY <1>1 DEF Puts
  <2>2. Idle' BY <1>1, <2>1 DEF Idle, Ejectable
  <2> QED BY <2>2 DEF Slot
<1>2. CASE p # NoDev
  <2>1. ToPut(n, p, k)' BY <1>2 DEF ToPut
  <2>2. EjectSlot' BY <2>1 DEF EjectSlot
  <2> QED BY <2>2 DEF Slot
<1> QED BY <1>1, <1>2

(* The image is looked for,                                                *)
LEMMA EjectBegins ==
    ASSUME NEW n \in Slots, NEW p \in OrNone(Disks), NEW k \in Puts(n, p), ToEject(n, p, k), EngineCall
    PROVE  Contract /\ Slot'
<1>1. todo = Do(Call("eject", n, NoDev), k) /\ Ejectable(n, p) BY DEF ToEject
<1>2. k \in Seq(Calls) /\ Call("eject", n, NoDev) \in Calls /\ Call("uninstall", n, NoDev) \in Calls BY PutRests
<1>3. Head(todo) = Call("eject", n, NoDev) /\ Tail(todo) = k BY <1>1, <1>2, DoIs
<1>4. EjectImage /\ Head(todo).slot = n BY <1>3, Which DEF Call
<1>5. PICK i \in OrNone(Disks) : i = DiskAt(n) /\ i = rack.dev[n] BY <1>1, SlotDisk
<1>6. todo' = Before(<<Call("uninstall", n, NoDev)>> \o If(i # NoDev, <<Call("delete", n, i)>>), k)
  BY <1>3, <1>4, <1>5 DEF EjectImage, This, Return, Before
<1>7. rack' = rack /\ Steady BY <1>4 DEF EjectImage, Steady, pointers, run
<1>8. Pointers' /\ Hidden' = Hidden BY <1>1, <1>7, PointersSame DEF Ejectable, Rest
<1>9. Ejectable(n, p)' BY <1>1, <1>7, <1>8 DEF Ejectable, Rest, Steady, AtFront, Bare, Served
<1>10. CASE i = NoDev
  <2>1. todo' = Before(<<Call("uninstall", n, NoDev)>> \o <<>>, k) BY <1>6, <1>10 DEF If
  <2>2. todo' = Do(Call("uninstall", n, NoDev), k) BY <1>2, <2>1, DoBack
  <2>3. Empty(n, p, k)' BY <1>5, <1>7, <1>9, <1>10, <2>2 DEF Empty
  <2>4. EjectSlot' BY <2>3 DEF EjectSlot
  <2> QED BY <1>7, <2>4 DEF Contract, Slot
<1>11. CASE i # NoDev
  <2>1. i \in Disks BY <1>11 DEF OrNone
  <2>2. Call("delete", n, i) \in Calls BY <2>1, PutRests
  <2>3. todo' = Before(<<Call("uninstall", n, NoDev)>> \o <<Call("delete", n, i)>>, k) BY <1>6, <1>11 DEF If
  <2>4. todo' = Do(Call("uninstall", n, NoDev), Do(Call("delete", n, i), k)) BY <1>2, <2>2, <2>3, DoBack
  <2>5. Full(n, p, k)' BY <1>5, <1>7, <1>9, <1>11, <2>4 DEF Full
  <2>6. EjectSlot' BY <2>5 DEF EjectSlot
  <2> QED BY <1>7, <2>6 DEF Contract, Slot
<1> QED BY <1>10, <1>11

(* taken out of its drive,                                                 *)
LEMMA EjectTakes ==
    ASSUME NEW n \in Slots, NEW p \in OrNone(Disks), NEW k \in Puts(n, p), Full(n, p, k), EngineCall
    PROVE  Contract /\ Slot'
<1>0. Ejectable(n, p) /\ Rest(p) /\ rack.dev[n] # NoDev BY DEF Full, Ejectable
<1>1. PICK i \in Disks : i = rack.dev[n] BY <1>0, SlotDisk DEF OrNone
<1> DEFINE h == Hidden \cup New(p)
           j == h \cup ({rack.dev[n]} \cap Disks)
           r == Do(Call("delete", n, i), k)
<1>2. Own(rack, h) /\ Pointers /\ todo = Do(Call("uninstall", n, NoDev), r)
  BY <1>0, <1>1 DEF Full, Rest
<1>3. r \in Seq(Calls) BY PutRests
<1>4. i \notin h
  <2> HIDE DEF h
  <2> QED BY <1>1, <1>2, OwnFacts
<1>5. j = h \cup {i} BY <1>1
<1> HIDE DEF h, j, r
<1>6. /\ todo' = r /\ Steady /\ Contract /\ Own(rack', j) /\ rack'.dev[n] = NoDev
      /\ \A m \in Slots \ {n} : rack'.dev[m] = rack.dev[m]
      /\ \A o \in Devices : rack.no[o] = NoSlot \/ o = rack.dev[n] => rack'.no[o] = NoSlot
      /\ Pointers' /\ Hidden' = Hidden
  BY <1>2, <1>3, Removed DEF j
<1>7. rack'.no[i] = NoSlot
  <2>1. i \in Devices BY Nulls
  <2> QED BY <1>1, <1>6, <2>1
<1>8. Bare' = Bare /\ AtFront' = AtFront /\ Served' = Served BY <1>6 DEF Steady, Bare, AtFront, Served
<1>9. rack'.dev[0] \in AtFront'
  <2>1. CASE n = 0 BY <1>0, <1>6, <1>8, <2>1 DEF Ejectable, Bare, AtFront, OrNone
  <2>2. CASE n # 0 BY <1>0, <1>6, <1>8, <2>2, D1 DEF Rest
  <2> QED BY <2>1, <2>2
<1>10. Own(rack', Hidden' \cup New(p) \cup {i}) BY <1>5, <1>6 DEF h
<1>11. i \notin Hidden' \cup New(p) /\ New(p) \cap Hidden' = {} BY <1>0, <1>4, <1>6 DEF h, Rest
<1>12. remoteShim' = hisio' /\ (n = 0 => Bare') /\ Served' BY <1>0, <1>6, <1>8 DEF Rest, Steady, Ejectable
<1>13. Out(n, p, i, k)' BY <1>6, <1>7, <1>9, <1>10, <1>11, <1>12 DEF Out, r
<1>14. EjectSlot' BY <1>13 DEF EjectSlot
<1> QED BY <1>6, <1>14 DEF Slot

(* or, the drive being empty, nothing taken out;                           *)
LEMMA EjectNone ==
    ASSUME NEW n \in Slots, NEW p \in OrNone(Disks), NEW k \in Puts(n, p), Empty(n, p, k), EngineCall
    PROVE  Contract /\ Slot'
<1> DEFINE h == Hidden \cup New(p)
           j == h \cup ({rack.dev[n]} \cap Disks)
<1>1. Ejectable(n, p) /\ Rest(p) /\ rack.dev[n] = NoDev BY DEF Empty, Ejectable
<1>2. Own(rack, h) /\ Pointers /\ todo = Do(Call("uninstall", n, NoDev), k) BY <1>1 DEF Empty, Rest
<1>3. k \in Seq(Calls) BY PutRests
<1>4. j = h BY <1>1, Nulls
<1> HIDE DEF h, j
<1>5. /\ todo' = k /\ Steady /\ Contract /\ Own(rack', j) /\ rack'.dev[n] = NoDev
      /\ \A m \in Slots \ {n} : rack'.dev[m] = rack.dev[m]
      /\ Pointers' /\ Hidden' = Hidden
  BY <1>2, <1>3, Removed DEF j
<1>6. Bare' = Bare /\ AtFront' = AtFront /\ Served' = Served BY <1>5 DEF Steady, Bare, AtFront, Served
<1>7. rack'.dev[0] \in AtFront' BY <1>1, <1>5, <1>6, D1 DEF Rest
<1>8. Own(rack', Hidden' \cup New(p)) BY <1>4, <1>5 DEF h
<1>9. Rest(p)' BY <1>1, <1>5, <1>7, <1>8 DEF Rest, Steady
<1>10. Ejectable(n, p)' BY <1>1, <1>6, <1>9 DEF Ejectable
<1>11. Slot' BY <1>5, <1>10, AfterEject
<1> QED BY <1>5, <1>11

(* and deleted;                                                            *)
LEMMA EjectDeletes ==
    ASSUME NEW n \in Slots, NEW p \in OrNone(Disks), NEW k \in Puts(n, p), NEW i \in Disks, Out(n, p, i, k), EngineCall
    PROVE  Contract /\ Slot'
<1> DEFINE h == Hidden \cup New(p)
           j == h \cup {i}
           l == j \ {i}
<1>1. /\ todo = Do(Call("delete", n, i), k) /\ rack.dev[n] = NoDev /\ rack.no[i] = NoSlot /\ i \notin h
      /\ Own(rack, j) /\ New(p) \cap Hidden = {} /\ Pointers /\ rack.dev[0] \in AtFront /\ remoteShim = hisio
      /\ (n = 0 => Bare) /\ Served
  BY DEF Out
<1>2. k \in Seq(Calls) /\ Call("delete", n, i) \in Calls /\ "delete" \in TableFunctions
  BY PutRests DEF TableFunctions
<1>3. l = h /\ i \in j /\ i \notin Hidden /\ i \notin Loaders BY <1>1, Nulls
<1> HIDE DEF h, j, l
<1>4. todo' = k /\ Steady /\ rack' = T!Destroy(rack, i) BY <1>1, <1>2, TableCalls
<1>5. i \in rack.live BY <1>1, <1>3, OwnFacts
<1>6. /\ Own(rack', l) /\ rack'.dev = rack.dev /\ rack'.live = rack.live \ {i} /\ rack'.no = rack.no /\ T!Next
  BY <1>1, <1>4, <1>5, Deletes DEF l
<1>7. Pointers' /\ Hidden' = Hidden
  <2>1. (rack.live \cap Loaders) \cup Hidden \subseteq rack'.live BY <1>1, <1>3, <1>6, HiddenLive
  <2>2. \A o \in doomed : rack'.no[o] = NoSlot BY <1>1, <1>6 DEF Pointers
  <2> QED BY <1>1, <1>4, <2>1, <2>2, PointersStay
<1>8. Bare' = Bare /\ AtFront' = AtFront /\ Served' = Served BY <1>4 DEF Steady, Bare, AtFront, Served
<1>9. Own(rack', Hidden' \cup New(p)) BY <1>3, <1>6, <1>7 DEF h
<1>10. Rest(p)' BY <1>1, <1>4, <1>6, <1>7, <1>8, <1>9 DEF Rest, Steady
<1>11. Ejectable(n, p)' BY <1>1, <1>8, <1>10 DEF Ejectable
<1>12. Slot' BY <1>1, <1>4, <1>6, <1>11, AfterEject
<1> QED BY <1>6, <1>12 DEF Contract

(* then the new image takes its place.                                     *)
LEMMA EjectPuts ==
    ASSUME NEW n \in Slots, NEW p \in OrNone(Disks), NEW k \in Puts(n, p), ToPut(n, p, k), EngineCall
    PROVE  Contract /\ Slot'
<1> DEFINE h == Hidden \cup New(p)
           j == h \ {p}
           e == <<>>
<1>1. todo = k /\ p # NoDev /\ Ejectable(n, p) /\ Rest(p) /\ rack.dev[n] = NoDev BY DEF ToPut, Ejectable
<1>2. Own(rack, h) /\ Pointers /\ Vacant(n) /\ p \in Disks /\ p \in h BY <1>1 DEF Rest, Vacant, New, OrNone
<1>3. j = Hidden BY <1>1 DEF Rest, New
<1>4. PICK f \in {"install", "mount"}, r \in {e, <<Go("arm")>>} :
         todo = Do(Call(f, n, p), r) /\ (r = <<Go("arm")>> => n = 0)
  <2>1. Do(Call("install", n, p), e) = <<Call("install", n, p)>> BY DoOne
  <2> QED BY <1>1, <2>1 DEF Puts
<1>5. r \in Seq(Calls)
  <2>1. <<>> \in Seq(Calls) /\ <<Go("arm")>> \in Seq(Calls) BY Typed
  <2> QED BY <1>4, <2>1
<1> HIDE DEF h, j, e
<1>6. Placing(h, n, p, r) BY <1>2, <1>4, <1>5, PlacedDisk
<1>7. /\ todo' = r /\ Steady /\ Contract /\ Own(rack', j) /\ rack'.dev[n] = p
      /\ \A m \in Slots \ {n} : rack'.dev[m] = rack.dev[m]
      /\ Pointers' /\ Hidden' = Hidden
  BY <1>6 DEF Placing, j
<1>8. Bare' = Bare /\ AtFront' = AtFront /\ Served' = Served BY <1>7 DEF Steady, Bare, AtFront, Served
<1>9. rack'.dev[0] \in AtFront'
  <2>1. CASE n = 0 BY <1>1, <1>2, <1>7, <1>8, <2>1 DEF Ejectable, Bare, AtFront, OrNone
  <2>2. CASE n # 0 BY <1>1, <1>7, <1>8, <2>2, D1 DEF Rest
  <2> QED BY <2>1, <2>2
<1>10. Hidden' = Hidden' \cup New(NoDev) /\ New(NoDev) = {} BY DEF New
<1>11. Rest(NoDev)' BY <1>1, <1>3, <1>7, <1>9, <1>10 DEF Rest, Steady
<1>12. CASE r = e
  <2>1. Idle' BY <1>1, <1>7, <1>8, <1>11, <1>12 DEF Idle, Ejectable, e
  <2> QED BY <1>7, <2>1 DEF Slot
<1>13. CASE r = <<Go("arm")>>
  <2>1. ToArm' BY <1>1, <1>4, <1>7, <1>8, <1>11, <1>13 DEF ToArm, Ejectable
  <2> QED BY <1>7, <2>1 DEF Slot, ArmSlot
<1> QED BY <1>4, <1>12, <1>13

-----------------------------------------------------------------------------
(* swapSlots, the loader out of the way.                                   *)
LEMMA SwapTrades ==
    ASSUME NEW a \in Slots, NEW b \in Slots, a # b, ToSwap(a, b), EngineCall
    PROVE  Contract /\ Slot'
<1> DEFINE k == <<Go("arm")>>
           h == Hidden \cup New(NoDev)
<1>1. todo = Do(Call("swap", b, a), k) /\ Rest(NoDev) /\ Bare BY DEF ToSwap
<1>2. k \in Seq(Calls) /\ Call("swap", b, a) \in Calls /\ "swap" \in TableFunctions BY Typed DEF TableFunctions
<1>3. Own(rack, h) /\ Pointers /\ rack.dev[0] \in OrNone(Disks) BY <1>1 DEF Rest, Bare, AtFront
<1> HIDE DEF h, k
<1>4. todo' = k /\ Steady /\ rack' = T!Swap(rack, b, a) BY <1>1, <1>2, TableCalls
<1>5. /\ Own(rack', h) /\ rack'.dev = [rack.dev EXCEPT ![b] = rack.dev[a], ![a] = rack.dev[b]]
      /\ rack'.live = rack.live
      /\ \A o \in Devices : rack.no[o] = NoSlot => rack'.no[o] = NoSlot
      /\ T!Next
  BY <1>3, <1>4, Swaps
<1>6. Pointers' /\ Hidden' = Hidden
  <2>1. \A o \in doomed : rack'.no[o] = NoSlot BY <1>3, <1>5, PointersFacts DEF Pointers
  <2>2. (rack.live \cap Loaders) \cup Hidden \subseteq rack'.live BY <1>3, <1>5, HiddenLive
  <2> QED BY <1>3, <1>4, <2>1, <2>2, PointersStay
<1>7. rack'.dev[0] \in OrNone(Disks)
  <2>1. /\ rack'.dev[b] = rack.dev[a] /\ rack'.dev[a] = rack.dev[b]
        /\ \A m \in Slots \ {a, b} : rack'.dev[m] = rack.dev[m]
    BY <1>3, <1>5, OwnFacts
  <2>2. \A m \in Slots : rack.dev[m] \in OrNone(Disks) BY <1>3, OwnFacts
  <2> QED BY <2>1, <2>2, D1
<1>8. Bare' /\ AtFront' = OrNone(Disks) BY <1>1, <1>4 DEF Steady, Bare, AtFront
<1>9. Own(rack', Hidden' \cup New(NoDev)) BY <1>5, <1>6 DEF h
<1>10. Rest(NoDev)' BY <1>1, <1>4, <1>6, <1>7, <1>8, <1>9 DEF Rest, Steady
<1>11. ToArm' BY <1>4, <1>8, <1>10 DEF ToArm, k
<1> QED BY <1>5, <1>11 DEF Contract, Slot, ArmSlot

-----------------------------------------------------------------------------
(* loaderEject and loaderBooterDone: D1: goes back to the device that was  *)
(* there; then nothing, or the next load.                                  *)
LEMMA BackRests ==
    ASSUME NEW k \in AfterBack
    PROVE  /\ k \in Seq(Calls) /\ Go("handBack") \in Calls /\ Go("dropBoot") \in Calls
           /\ Call("uninstall", 0, NoDev) \in Calls /\ \A o \in Devices : Call("install", 0, o) \in Calls
           /\ Do(Go("dropBoot"), k) \in Seq(Calls)
           /\ \A o \in Devices : Do(Call("install", 0, o), Do(Go("dropBoot"), k)) \in Seq(Calls)
<1>1. k \in Seq(Calls) /\ Go("handBack") \in Calls /\ Go("dropBoot") \in Calls BY Rests, Typed
<1>2. Call("uninstall", 0, NoDev) \in Calls /\ \A o \in Devices : Call("install", 0, o) \in Calls BY Typed, D1
<1>3. Do(Go("dropBoot"), k) \in Seq(Calls) BY <1>1, DoIs
<1> QED BY <1>1, <1>2, <1>3, DoIs

LEMMA AfterHandBack ==
    ASSUME NEW k \in AfterBack, todo' = k, Rest(NoDev)', (autoBoot = NoDev)', Served'
    PROVE  Slot'
<1>1. CASE k = <<>>
  <2>1. Idle' BY <1>1 DEF Idle
  <2> QED BY <2>1 DEF Slot
<1>2. CASE k = <<Go("loadXex")>>
  <2>1. ToLoad' BY <1>2 DEF ToLoad
  <2> QED BY <2>1 DEF Slot, LoadSlot
<1> QED BY <1>1, <1>2 DEF AfterBack

(* The calls are made out,                                                 *)
LEMMA BackBegins ==
    ASSUME NEW k \in AfterBack, ToHandBack(k), EngineCall
    PROVE  Contract /\ Slot'
<1>1. todo = Do(Go("handBack"), k) /\ Rest(NoDev) /\ Served BY DEF ToHandBack
<1>2. k \in Seq(Calls) /\ Go("handBack") \in Calls /\ Go("dropBoot") \in Calls /\ Call("uninstall", 0, NoDev) \in Calls
  BY BackRests
<1>3. Head(todo) = Go("handBack") /\ Tail(todo) = k BY <1>1, <1>2, DoIs
<1>4. HandBack BY <1>3, Which DEF Go, Call
<1>5. rack' = rack /\ Steady BY <1>4 DEF HandBack, Steady, pointers, run
<1>6. Pointers /\ Pointers' /\ Hidden' = Hidden BY <1>1, <1>5, PointersSame DEF Rest
<1>7. Rest(NoDev)' /\ Served' BY <1>1, <1>5, <1>6 DEF Rest, Steady, AtFront, Served
<1>8. CASE autoBoot = NoDev
  <2>1. todo' = <<>> \o k BY <1>3, <1>4, <1>8 DEF HandBack, Return, If
  <2>2. todo' = k BY <1>2, <2>1
  <2>3. (autoBoot = NoDev)' BY <1>5, <1>8 DEF Steady
  <2>4. Slot' BY <1>7, <2>2, <2>3, AfterHandBack
  <2> QED BY <1>5, <2>4 DEF Contract
<1>9. CASE autoBoot # NoDev
  <2>1. PICK o \in OrNone(Devices) : o = autoBootOld BY <1>6, PointersFacts
  <2>2. todo' = Before((<<Call("uninstall", 0, NoDev)>> \o If(o # NoDev, <<Call("install", 0, o)>>)) \o <<Go("dropBoot")>>, k)
    BY <1>3, <1>4, <1>9, <2>1 DEF HandBack, Return, If, Before, Go
  <2>3. Hidden \cup New(NoDev) = Hidden /\ rack.dev[0] = autoBoot BY <1>1, <1>9 DEF New, Rest, AtFront
  <2>4. Own(rack', Hidden') BY <1>1, <1>5, <1>6, <2>3 DEF Rest
  <2>5. Loaded' /\ rack'.dev[0] = autoBoot' BY <1>1, <1>5, <1>6, <1>9, <2>3 DEF Loaded, Rest, Steady, Served
  <2>6. CASE o = NoDev
    <3>1. todo' = Before((<<Call("uninstall", 0, NoDev)>> \o <<>>) \o <<Go("dropBoot")>>, k) BY <2>2, <2>6 DEF If
    <3>2. todo' = Do(Call("uninstall", 0, NoDev), Do(Go("dropBoot"), k)) BY <1>2, <3>1, DoBack
    <3>3. Booting(k)' BY <1>5, <2>1, <2>4, <2>5, <2>6, <3>2 DEF Booting, Steady
    <3> QED BY <1>5, <3>3 DEF Contract, Slot, BackSlot
  <2>7. CASE o # NoDev
    <3>1. Call("install", 0, o) \in Calls BY <2>7, BackRests DEF OrNone
    <3>2. todo' = Before((<<Call("uninstall", 0, NoDev)>> \o <<Call("install", 0, o)>>) \o <<Go("dropBoot")>>, k)
      BY <2>2, <2>7 DEF If
    <3>3. todo' = Do(Call("uninstall", 0, NoDev), Do(Call("install", 0, o), Do(Go("dropBoot"), k)))
      BY <1>2, <3>1, <3>2, DoBack
    <3>4. Booting(k)' BY <1>5, <2>1, <2>4, <2>5, <2>7, <3>3 DEF Booting, Steady
    <3> QED BY <1>5, <3>4 DEF Contract, Slot, BackSlot
  <2> QED BY <2>6, <2>7
<1> QED BY <1>8, <1>9

(* The disks behind the loaders are those behind the high-speed one when   *)
(* the device put aside is that loader, or none.                           *)
LEMMA OldDevice ==
    ASSUME Pointers, autoBoot # NoDev
    PROVE  /\ autoBootOld \in OrNone(Devices) /\ autoBootOld \notin doomed
           /\ autoBootOld # NoDev => autoBootOld \in rack.live
           /\ autoBootOld \in Disks => Hidden = {autoBootOld} /\ BehindShim = {} /\ hisio = NoDev
           /\ autoBootOld \notin Disks => Hidden = BehindShim
           /\ autoBootOld \in OrNone(Disks) \cup Shims
           /\ hisio = NoDev \/ autoBootOld = hisio
           /\ autoBootOld \in Shims => autoBootOld = hisio /\ autoBootOld \in Loaders
<1>1. hisio # NoDev => autoBootOld = hisio /\ hisio \in rack.live \ doomed /\ hisio \in Shims /\ hisio \in Devices /\ hisio \notin Disks
  BY PointersFacts DEF Pointers
<1>2. hisio = NoDev => autoBootOld \in OrNone(rack.live \cap Disks) BY DEF Pointers, OrNone
<1>3. doomed \cap Disks = {} /\ NoDev \notin doomed BY Nulls DEF Pointers
<1>4. BehindShim = {} <=> hisio = NoDev BY DEF BehindShim
<1>5. autoBootOld \in Disks => hisio = NoDev /\ Hidden = {autoBootOld} BY <1>1, <1>4 DEF Hidden
<1>6. autoBootOld \notin Disks => Hidden = BehindShim BY DEF Hidden
<1>7. Disks \subseteq Devices /\ Shims \subseteq Loaders /\ Shims \cap Disks = {} /\ NoDev \notin Shims /\ NoDev \notin Disks BY Nulls
<1>8. CASE hisio = NoDev BY <1>2, <1>3, <1>4, <1>5, <1>6, <1>7, <1>8 DEF OrNone
<1>9. CASE hisio # NoDev BY <1>1, <1>6, <1>7, <1>9 DEF OrNone
<1> QED BY <1>8, <1>9

(* the boot loader is taken out of D1:,                                    *)
LEMMA BackTakes ==
    ASSUME NEW k \in AfterBack, Booting(k), EngineCall
    PROVE  Contract /\ Slot'
<1>1. PICK o \in OrNone(Devices) : o = autoBootOld BY PointersFacts DEF Booting, Loaded
<1> DEFINE h == Hidden
           j == h \cup ({rack.dev[0]} \cap Disks)
           d == Do(Go("dropBoot"), k)
           r == IF o = NoDev THEN d ELSE Do(Call("install", 0, o), d)
<1>2. /\ todo = Do(Call("uninstall", 0, NoDev), r) /\ Loaded /\ Pointers /\ Own(rack, h)
      /\ rack.dev[0] = autoBoot /\ autoBoot # NoDev /\ remoteShim = hisio /\ Served
  BY <1>1 DEF Booting, Loaded
<1>3. d \in Seq(Calls) /\ r \in Seq(Calls) BY BackRests DEF OrNone
<1>4. autoBoot \in Devices /\ autoBoot \notin Disks BY <1>2, PointersFacts
<1>5. j = h BY <1>2, <1>4
<1> HIDE DEF h, j, d, r
<1>6. /\ todo' = r /\ Steady /\ Contract /\ Own(rack', j) /\ rack'.dev[0] = NoDev
      /\ rack'.no[autoBoot] = NoSlot /\ Pointers' /\ Hidden' = Hidden /\ BehindShim' = BehindShim
  BY <1>2, <1>3, <1>4, D1, Removed DEF j
<1>7. Loaded' /\ Own(rack', Hidden') BY <1>2, <1>5, <1>6 DEF Loaded, Steady, Served, h
<1>8. CASE o = NoDev
  <2>1. todo' = d BY <1>6, <1>8 DEF r
  <2>2. Hidden' = BehindShim' BY <1>1, <1>2, <1>6, <1>8, OldDevice, Nulls
  <2>3. Own(rack', BehindShim') BY <1>7, <2>2
  <2>4. Returned(k)' BY <1>1, <1>6, <1>7, <1>8, <2>1, <2>3 DEF Returned, Steady, d
  <2> QED BY <1>6, <2>4 DEF Slot, BackSlot
<1>9. CASE o # NoDev
  <2>1. todo' = Do(Call("install", 0, o), d) BY <1>6, <1>9 DEF r
  <2>2. Between(k)' BY <1>1, <1>6, <1>7, <1>9, <2>1 DEF Between, Steady, d
  <2> QED BY <1>6, <2>2 DEF Slot, BackSlot
<1> QED BY <1>8, <1>9

(* what was there is put back,                                             *)
LEMMA BackRestores ==
    ASSUME NEW k \in AfterBack, Between(k), EngineCall
    PROVE  Contract /\ Slot'
<1>1. PICK o \in OrNone(Devices) : o = autoBootOld BY PointersFacts DEF Between, Loaded
<1> DEFINE h == Hidden
           j == h \ {o}
           r == Do(Go("dropBoot"), k)
<1>2. /\ todo = Do(Call("install", 0, o), r) /\ o # NoDev /\ Loaded /\ Pointers /\ Own(rack, h)
      /\ Vacant(0) /\ rack.no[autoBoot] = NoSlot /\ autoBoot # NoDev /\ remoteShim = hisio /\ Served
  BY <1>1 DEF Between, Loaded, Vacant
<1>3. r \in Seq(Calls) BY BackRests
<1>4. /\ o \in rack.live \ doomed /\ o \in Disks \cup Shims
      /\ o \in Disks => h = {o} /\ BehindShim = {}
      /\ o \notin Disks => h = BehindShim
      /\ o \in Shims => o \in Loaders
  BY <1>1, <1>2, OldDevice DEF OrNone
<1>5. autoBoot \in Devices /\ autoBoot # o BY <1>2, <1>4, PointersFacts, Nulls
<1> HIDE DEF h, j, r
<1>6. Placing(h, 0, o, r) /\ j = BehindShim
  <2>1. CASE o \in Disks
    <3>1. o \in h /\ j = BehindShim BY <1>4, <2>1 DEF j
    <3>2. "install" \in {"install", "mount"} OBVIOUS
    <3>3. Placing(h, 0, o, r) BY <1>2, <1>3, <3>1, <3>2, D1, PlacedDisk
    <3> QED BY <3>1, <3>3
  <2>2. CASE o \notin Disks
    <3>1. o \in Loaders /\ h = BehindShim BY <1>4, <2>2
    <3>2. Placing(h, 0, o, r) /\ h \ {o} = h BY <1>2, <1>3, <1>4, <3>1, PlacedLoader
    <3> QED BY <3>1, <3>2 DEF j
  <2> QED BY <2>1, <2>2
<1>7. /\ todo' = r /\ Steady /\ Contract /\ Own(rack', j) /\ rack'.dev[0] = o
      /\ \A e \in Devices \ {o} : rack'.no[e] = rack.no[e]
      /\ Pointers' /\ BehindShim' = BehindShim
  BY <1>6 DEF Placing, j
<1>8. rack'.no[autoBoot] = NoSlot BY <1>2, <1>5, <1>7
<1>9. Loaded' /\ Own(rack', BehindShim') BY <1>2, <1>6, <1>7 DEF Loaded, Steady, Served
<1>10. Returned(k)' BY <1>1, <1>7, <1>8, <1>9 DEF Returned, Steady, r
<1> QED BY <1>7, <1>10 DEF Slot, BackSlot

(* and the engine lets the boot loader go.                                 *)
LEMMA BackEnds ==
    ASSUME NEW k \in AfterBack, Returned(k), EngineCall
    PROVE  Contract /\ Slot'
<1>1. /\ todo = Do(Go("dropBoot"), k) /\ Loaded /\ Pointers /\ Own(rack, BehindShim) /\ rack.dev[0] = autoBootOld
      /\ rack.no[autoBoot] = NoSlot /\ autoBoot # NoDev /\ remoteShim = hisio /\ Served
  BY DEF Returned, Loaded
<1>2. k \in Seq(Calls) /\ Go("dropBoot") \in Calls BY BackRests
<1>3. Head(todo) = Go("dropBoot") /\ Tail(todo) = k BY <1>1, <1>2, DoIs
<1>4. DropBoot BY <1>3, Which DEF Go, Call
<1>5. /\ rack' = rack /\ behind' = behind /\ hisio' = hisio /\ remoteShim' = remoteShim /\ emulating' = emulating
      /\ autoBoot' = NoDev /\ autoBootOld' = NoDev /\ doomed' = doomed \cup {autoBoot} /\ todo' = <<>> \o k
  BY <1>3, <1>4 DEF DropBoot, Return, run
<1>6. todo' = k BY <1>2, <1>5
<1>7. autoBoot \in rack.live /\ autoBoot \in Loaders /\ hisio # autoBoot BY <1>1, Nulls DEF Pointers, OrNone
<1>8. Pointers' BY <1>1, <1>5, <1>7, Nulls DEF Pointers, OrNone
<1>9. BehindShim' = BehindShim /\ Hidden' = BehindShim' BY <1>5, Nulls DEF BehindShim, Hidden
<1>10. Own(rack', Hidden' \cup New(NoDev)) /\ New(NoDev) \cap Hidden' = {}
  <2>1. New(NoDev) = {} BY DEF New
  <2>2. Hidden' \cup New(NoDev) = BehindShim BY <1>9, <2>1
  <2> QED BY <1>1, <1>5, <2>1, <2>2
<1>11. rack'.dev[0] \in AtFront' BY <1>1, <1>5, OldDevice DEF AtFront, Pointers, OrNone
<1>12. Rest(NoDev)' BY <1>1, <1>5, <1>8, <1>10, <1>11 DEF Rest
<1>13. Served' /\ (autoBoot = NoDev)' BY <1>1, <1>5 DEF Served
<1>14. Slot' BY <1>6, <1>12, <1>13, AfterHandBack
<1> QED BY <1>5, <1>14 DEF Contract

-----------------------------------------------------------------------------
(* loaderLoadXex: nothing is loaded, or a boot loader is made,             *)
LEMMA LoadBegins ==
    ASSUME ToLoad, EngineCall
    PROVE  Contract /\ Slot'
<1>0. <<>> \in Seq(Calls) /\ Go("loadXex") \in Calls /\ todo = Do(Go("loadXex"), <<>>) BY Typed, DoOne DEF ToLoad
<1>1. Head(todo) = Go("loadXex") /\ Tail(todo) = <<>> BY <1>0, DoIs
<1>2. LoadXex BY <1>1, Which DEF Go, Call
<1>3. Rest(NoDev) /\ Pointers /\ autoBoot = NoDev /\ autoBootOld = NoDev /\ Served BY DEF ToLoad, Rest, Pointers
<1>4. BehindShim = Hidden /\ Hidden \cup New(NoDev) = Hidden BY <1>3, Nulls DEF Hidden, New
<1>5. Own(rack, BehindShim) /\ rack.dev[0] \in AtFront /\ remoteShim = hisio BY <1>3, <1>4 DEF Rest
<1>6. hisio' = hisio /\ remoteShim' = remoteShim /\ doomed' = doomed /\ emulating' = emulating
  BY <1>2 DEF LoadXex, run
<1>7. CASE Return(<<>>) /\ UNCHANGED <<rack, behind, autoBoot, autoBootOld>>
  <2>1. rack' = rack /\ Steady BY <1>6, <1>7 DEF Steady
  <2>2. Pointers' /\ Hidden' = Hidden BY <1>3, <2>1, PointersSame
  <2>3. todo' = <<>> BY <1>0, <1>1, <1>7 DEF Return
  <2>4. Idle' BY <1>3, <2>1, <2>2, <2>3 DEF Idle, Rest, Served, Steady, AtFront
  <2> QED BY <2>1, <2>4 DEF Contract, Slot
<1>8. ASSUME NEW b \in Fresh(Boots), rack' = T!Allocate(rack, b), behind' = [behind EXCEPT ![b] = rack.dev[0]],
             autoBoot' = b, autoBootOld' = rack.dev[0],
             Return(<<Call("uninstall", 0, NoDev), Call("install", 0, b)>>)
      PROVE  Contract /\ Slot'
  <2> DEFINE h == BehindShim
             j == h \cup ({b} \cap Disks)
             d == rack.dev[0]
  <2>1. b \in Boots /\ b \notin rack.live /\ b \in Devices /\ b \in Loaders /\ b \notin Disks /\ b # NoDev
    BY <1>8, Nulls DEF Fresh
  <2>2. j = h BY <2>1
  <2> HIDE DEF h, j
  <2>3. /\ Own(rack', j) /\ rack'.dev = rack.dev /\ rack'.live = rack.live \cup {b}
        /\ rack'.no = [rack.no EXCEPT ![b] = NoSlot] /\ T!Next
    BY <1>5, <1>8, <2>1, Allocates DEF h, j
  <2>4. d \in OrNone(Devices) /\ (d # NoDev => d \in rack.live) /\ (d \in OrNone(Disks) \/ d = hisio)
        /\ (hisio # NoDev => d = hisio)
    <3>1. d \in OrNone(Devices) /\ (d # NoDev => d \in rack.live) BY <1>5, D1, OwnFacts
    <3>2. (d \in OrNone(Disks) \/ d = hisio) /\ (hisio # NoDev => d = hisio) BY <1>3, <1>5 DEF AtFront
    <3> QED BY <3>1, <3>2
  <2>5. behind' \in [Loaders -> OrNone(Devices)] /\ behind'[b] = d /\ \A o \in Loaders \ {b} : behind'[o] = behind[o]
    BY <1>3, <1>8, <2>1, <2>4 DEF Pointers
  <2>6. hisio # NoDev => hisio \in Loaders /\ hisio # b /\ hisio \in rack.live \ doomed BY <1>3, <2>1, Nulls DEF Pointers, OrNone
  <2>7. BehindShim' = BehindShim BY <1>6, <2>5, <2>6 DEF BehindShim
  <2>8. \A o \in doomed : o \in rack'.live /\ rack'.no[o] = NoSlot /\ o # b
    BY <1>3, <2>1, <2>3, <1>5, OwnFacts, PointersFacts DEF Pointers
  <2>9. Pointers'
    <3>1. hisio' # NoDev => hisio' \in rack'.live \ doomed' /\ behind'[hisio'] \in Disks \cap rack'.live
      BY <1>3, <1>6, <2>3, <2>5, <2>6 DEF Pointers
    <3>2. autoBoot' # NoDev /\ autoBoot' \in rack'.live \ doomed' /\ behind'[autoBoot'] = autoBootOld'
      BY <1>6, <1>8, <2>1, <2>3, <2>5, <2>8
    <3>3. autoBootOld' \in OrNone(rack'.live \cap Disks) \cup {hisio'} BY <1>6, <1>8, <2>3, <2>4 DEF OrNone
    <3>4. hisio' # NoDev => autoBootOld' = hisio' BY <1>6, <1>8, <2>4
    <3>5. hisio' \in OrNone(Shims) /\ autoBoot' \in OrNone(Boots) /\ doomed' \subseteq Loaders
      BY <1>3, <1>6, <1>8, <2>1 DEF Pointers, OrNone
    <3> QED BY <1>6, <2>5, <2>8, <3>1, <3>2, <3>3, <3>4, <3>5 DEF Pointers
  <2>10. todo' = Do(Call("uninstall", 0, NoDev), <<Call("install", 0, b)>>)
    <3> DEFINE e == <<>>
    <3>1. Call("uninstall", 0, NoDev) \in Calls /\ Call("install", 0, b) \in Calls /\ e \in Seq(Calls)
      BY <2>1, D1, Typed
    <3>2. todo' = Before(Two(Call("uninstall", 0, NoDev), Call("install", 0, b)), e)
      BY <1>1, <1>8 DEF Return, Before, Two
    <3>3. Do(Call("install", 0, b), e) = <<Call("install", 0, b)>> BY DoOne
    <3> HIDE DEF e
    <3> QED BY <3>1, <3>2, <3>3, DoTwo
  <2>11. Own(rack', BehindShim') BY <2>2, <2>3, <2>7 DEF h
  <2>12. Loaded' BY <1>3, <1>5, <1>6, <1>8, <2>1, <2>9 DEF Loaded, Served
  <2>13. Aside' BY <1>8, <2>3, <2>10, <2>11, <2>12 DEF Aside
  <2> QED BY <2>3, <2>13 DEF Contract, Slot, LoadSlot
<1> QED BY <1>2, <1>7, <1>8 DEF LoadXex

(* what answers for D1: is put aside,                                      *)
LEMMA LoadTakes ==
    ASSUME Aside, EngineCall
    PROVE  Contract /\ Slot'
<1>1. PICK b \in Boots : b = autoBoot BY PointersFacts DEF Aside, Loaded
<1> DEFINE h == BehindShim
           j == h \cup ({rack.dev[0]} \cap Disks)
           r == <<Call("install", 0, b)>>
<1>2. /\ todo = Do(Call("uninstall", 0, NoDev), r) /\ Loaded /\ Pointers /\ Own(rack, h) /\ rack.dev[0] = autoBootOld
      /\ autoBoot # NoDev /\ remoteShim = hisio /\ Served
  BY <1>1 DEF Aside, Loaded
<1>3. r \in Seq(Calls) BY Typed, D1, Nulls
<1>4. j = Hidden BY <1>2 DEF Hidden
<1> HIDE DEF h, j, r
<1>5. /\ todo' = r /\ Steady /\ Contract /\ Own(rack', j) /\ rack'.dev[0] = NoDev
      /\ Pointers' /\ Hidden' = Hidden
  BY <1>2, <1>3, D1, Removed DEF j
<1>6. Loaded' /\ Own(rack', Hidden') BY <1>2, <1>4, <1>5 DEF Loaded, Steady, Served
<1>7. Alone' BY <1>1, <1>5, <1>6 DEF Alone, Steady, r
<1> QED BY <1>5, <1>7 DEF Slot, LoadSlot

(* and the boot loader takes its place.                                    *)
LEMMA LoadPuts ==
    ASSUME Alone, EngineCall
    PROVE  Contract /\ Slot'
<1>1. PICK b \in Boots : b = autoBoot BY PointersFacts DEF Alone, Loaded
<1> DEFINE h == Hidden
           e == <<>>
<1>2. /\ Loaded /\ Pointers /\ Own(rack, h) /\ Vacant(0) /\ b \in rack.live \ doomed /\ b \in Loaders
      /\ autoBoot # NoDev /\ remoteShim = hisio /\ Served
  BY <1>1, Nulls DEF Alone, Loaded, Vacant, Pointers
<1>3. todo = Do(Call("install", 0, b), e) BY <1>1, DoOne DEF Alone
<1>4. e \in Seq(Calls) OBVIOUS
<1> HIDE DEF h, e
<1>5. Placing(h, 0, b, e) /\ h \ {b} = h BY <1>2, <1>3, <1>4, PlacedLoader
<1>6. /\ todo' = e /\ Steady /\ Contract /\ Own(rack', h) /\ rack'.dev[0] = b /\ Pointers' /\ Hidden' = Hidden
  BY <1>5 DEF Placing
<1>7. Own(rack', Hidden' \cup New(NoDev)) /\ New(NoDev) \cap Hidden' = {}
  <2>1. New(NoDev) = {} BY DEF New
  <2>2. Hidden' \cup New(NoDev) = h BY <1>6, <2>1 DEF h
  <2> QED BY <1>6, <2>1, <2>2
<1>8. rack'.dev[0] \in AtFront' BY <1>1, <1>2, <1>6 DEF AtFront, Steady
<1>9. Rest(NoDev)' /\ Served' BY <1>2, <1>6, <1>7, <1>8 DEF Rest, Steady, Served
<1>10. Idle' BY <1>6, <1>9 DEF Idle, e
<1> QED BY <1>6, <1>10 DEF Slot

-----------------------------------------------------------------------------
(* Every call of a slot keeps the table's contract and leads to the next   *)
(* phase.                                                                  *)
LEMMA SlotCalls == Slot /\ EngineCall => Contract /\ Slot'
<1> SUFFICES ASSUME Slot, EngineCall PROVE Contract /\ Slot' OBVIOUS
<1>1. ~Idle BY Which DEF Idle
<1>2. CASE ArmSlot
  <2>1. CASE ToArm BY <2>1, ArmBegins
  <2>2. ASSUME NEW s \in Shims, NEW d \in Disks, InPlace(s, d) \/ Lifted(s, d) \/ Numbered(s, d) \/ Covered(s, d)
        PROVE  Contract /\ Slot'
    BY <2>2, ArmLifts, ArmNumbers, ArmCovers, ArmEnds
  <2> QED BY <1>2, <2>1, <2>2 DEF ArmSlot
<1>3. CASE DisarmSlot
  <2>1. ASSUME NEW p \in OrNone(Disks), NEW k \in AfterDisarm(p),
               ToDisarm(p, k) \/ Finding(p, k) \/ Found(p, k) \/ Taken(p, k) \/ Restored(p, k)
        PROVE  Contract /\ Slot'
    BY <2>1, DisarmBegins, DisarmFinds, DisarmTakes, DisarmRestores, DisarmEnds
  <2> QED BY <1>3, <2>1 DEF DisarmSlot
<1>4. CASE EjectSlot
  <2>1. ASSUME NEW n \in Slots, NEW p \in OrNone(Disks), NEW k \in Puts(n, p),
               ToEject(n, p, k) \/ Full(n, p, k) \/ Empty(n, p, k) \/ ToPut(n, p, k)
        PROVE  Contract /\ Slot'
    BY <2>1, EjectBegins, EjectTakes, EjectNone, EjectPuts
  <2>2. ASSUME NEW n \in Slots, NEW p \in OrNone(Disks), NEW k \in Puts(n, p), NEW i \in Disks, Out(n, p, i, k)
        PROVE  Contract /\ Slot'
    BY <2>2, EjectDeletes
  <2> QED BY <1>4, <2>1, <2>2 DEF EjectSlot
<1>5. CASE SwapSlot BY <1>5, SwapTrades DEF SwapSlot
<1>6. CASE BackSlot BY <1>6, BackBegins, BackTakes, BackRestores, BackEnds DEF BackSlot
<1>7. CASE LoadSlot BY <1>7, LoadBegins, LoadTakes, LoadPuts DEF LoadSlot
<1> QED BY <1>1, <1>2, <1>3, <1>4, <1>5, <1>6, <1>7 DEF Slot

-----------------------------------------------------------------------------
(* What every phase says.                                                  *)

(* The calls to come are calls, and the loader comes up only for an Atari  *)
(* that is served.                                                         *)
Coming == todo \in Seq(Calls) /\ todo # <<>> /\ (Head(todo).fn = "armed" => emulating)

LEMMA Comes ==
    ASSUME NEW c \in Calls, NEW k \in Seq(Calls), todo = Do(c, k), c.fn = "armed" => emulating
    PROVE  Coming
BY DoIs DEF Coming

(* D1: holds a disk, a loader with a disk behind it, or nothing.           *)
AtD1(o) == \/ o \in OrNone(Disks)
           \/ (o \in Shims /\ behind[o] \in Disks \cap rack.live)
           \/ (autoBoot # NoDev /\ o = autoBoot)

Standing == /\ \E hid \in SUBSET Disks : Own(rack, hid)
            /\ Pointers /\ AtD1(rack.dev[0]) /\ remoteShim \in {hisio, NoDev}

LEMMA Stands ==
    ASSUME NEW hid, Own(rack, hid), Pointers, AtD1(rack.dev[0]), remoteShim \in {hisio, NoDev}
    PROVE  Standing
BY DEF Standing, Own

LEMMA Fronts ==
    ASSUME Pointers
    PROVE  /\ \A o \in AtFront : AtD1(o)
           /\ AtD1(NoDev) /\ AtD1(hisio) /\ AtD1(autoBoot) /\ AtD1(autoBootOld)
           /\ \A d \in Disks : AtD1(d)
<1>1. AtD1(NoDev) /\ \A d \in Disks : AtD1(d) BY DEF AtD1, OrNone
<1>2. AtD1(hisio)
  <2>1. CASE hisio = NoDev BY <1>1, <2>1
  <2>2. CASE hisio # NoDev BY <2>2 DEF AtD1, Pointers, OrNone
  <2> QED BY <2>1, <2>2
<1>3. AtD1(autoBoot)
  <2>1. CASE autoBoot = NoDev BY <1>1, <2>1
  <2>2. CASE autoBoot # NoDev BY <2>2 DEF AtD1
  <2> QED BY <2>1, <2>2
<1>4. AtD1(autoBootOld) BY <1>1, <1>2 DEF Pointers, OrNone
<1>5. ASSUME NEW o \in AtFront PROVE AtD1(o)
  <2>1. o = autoBoot \/ o = hisio \/ o \in Disks \/ o = NoDev BY DEF AtFront, OrNone
  <2> QED BY <1>1, <1>2, <1>3, <2>1
<1> QED BY <1>1, <1>2, <1>3, <1>4, <1>5

LEMMA RestStands == ASSUME NEW p, Rest(p) PROVE Standing
<1> DEFINE h == Hidden \cup New(p)
<1>1. Own(rack, h) /\ Pointers /\ rack.dev[0] \in AtFront /\ remoteShim = hisio BY DEF Rest
<1> HIDE DEF h
<1>2. AtD1(rack.dev[0]) BY <1>1, Fronts
<1> QED BY <1>1, <1>2, Stands

(* What a phase is, then: rest, or a slot in the middle of its calls.      *)
Phase == Standing /\ (Idle \/ Coming)

LEMMA ArmPhase == ArmSlot => Phase
<1>1. ASSUME ToArm PROVE Phase
  <2>1. Go("arm") \in Calls /\ <<>> \in Seq(Calls) /\ todo = Do(Go("arm"), <<>>) BY <1>1, Typed, DoOne DEF ToArm
  <2>2. Go("arm").fn # "armed" BY DEF Go, Call
  <2>3. Coming BY <2>1, <2>2, Comes
  <2> QED BY <1>1, <2>3, RestStands DEF ToArm, Phase
<1>2. ASSUME NEW s \in Shims, NEW d \in Disks PROVE
         /\ InPlace(s, d) => Phase
         /\ Lifted(s, d) => Phase
         /\ Numbered(s, d) => Phase
         /\ Covered(s, d) => Phase
  <2> DEFINE c0 == Call("uninstall", 0, NoDev)
             c1 == Call("setDeviceNo", 0, d)
             c2 == Call("install", 0, s)
             c3 == Call("armed", 0, s)
             k0 == <<>>
             k1 == <<c3>>
             k2 == Do(c2, k1)
             k3 == Do(c1, k2)
  <2>1. /\ c0 \in Calls /\ c1 \in Calls /\ c2 \in Calls /\ c3 \in Calls
        /\ k0 \in Seq(Calls) /\ k1 \in Seq(Calls) /\ k2 \in Seq(Calls) /\ k3 \in Seq(Calls)
    BY ArmRests, Typed, D1
  <2>2. c0.fn # "armed" /\ c1.fn # "armed" /\ c2.fn # "armed" BY DEF Call
  <2>3. Do(c3, k0) = k1 BY DoOne
  <2>4. /\ InPlace(s, d) => todo = Do(c0, k3) /\ Arming(s, d) /\ Own(rack, {}) /\ rack.dev[0] = d
        /\ Lifted(s, d) => todo = Do(c1, k2) /\ Arming(s, d) /\ Own(rack, {d}) /\ rack.dev[0] = NoDev
        /\ Numbered(s, d) => todo = Do(c2, k1) /\ Arming(s, d) /\ Own(rack, {d}) /\ rack.dev[0] = NoDev
        /\ Covered(s, d) => todo = k1 /\ Arming(s, d) /\ Own(rack, {d}) /\ rack.dev[0] = s
    BY DEF InPlace, Lifted, Numbered, Covered
  <2>5. Arming(s, d) => Pointers /\ emulating /\ remoteShim \in {hisio, NoDev} /\ behind[s] = d BY DEF Arming
  <2> HIDE DEF c0, c1, c2, c3, k0, k1, k2, k3
  <2>6. InPlace(s, d) => Coming BY <2>1, <2>2, <2>4, Comes
  <2>7. Lifted(s, d) => Coming BY <2>1, <2>2, <2>4, Comes
  <2>8. Numbered(s, d) => Coming BY <2>1, <2>2, <2>4, Comes
  <2>9. Covered(s, d) => Coming BY <2>1, <2>3, <2>4, <2>5, Comes
  <2>10. ASSUME Covered(s, d) PROVE AtD1(s)
    <3>1. d \in rack.live BY <2>4, <2>10, OwnFacts
    <3> QED BY <2>4, <2>5, <2>10, <3>1 DEF AtD1
  <2>11. InPlace(s, d) => Standing BY <2>4, <2>5, Fronts, Stands
  <2>12. Lifted(s, d) => Standing BY <2>4, <2>5, Fronts, Stands
  <2>13. Numbered(s, d) => Standing BY <2>4, <2>5, Fronts, Stands
  <2>14. Covered(s, d) => Standing BY <2>4, <2>5, <2>10, Stands
  <2> QED BY <2>6, <2>7, <2>8, <2>9, <2>11, <2>12, <2>13, <2>14 DEF Phase
<1> QED BY <1>1, <1>2 DEF ArmSlot

LEMMA DisarmPhase == DisarmSlot => Phase
<1> SUFFICES ASSUME NEW p \in OrNone(Disks), NEW k \in AfterDisarm(p),
                    ToDisarm(p, k) \/ Finding(p, k) \/ Found(p, k) \/ Taken(p, k) \/ Restored(p, k)
             PROVE  Phase
  BY DEF DisarmSlot
<1>1. CASE ToDisarm(p, k)
  <2>1. todo = Do(Go("disarm"), k) /\ Rest(p) BY <1>1 DEF ToDisarm
  <2>2. k \in Seq(Calls) /\ Go("disarm") \in Calls BY Rests, Typed
  <2>3. Go("disarm").fn # "armed" BY DEF Go, Call
  <2> QED BY <2>1, <2>2, <2>3, Comes, RestStands DEF Phase
<1>2. CASE Finding(p, k) \/ Found(p, k) \/ Taken(p, k) \/ Restored(p, k)
  <2>1. Disarming(p) /\ Pointers /\ hisio # NoDev /\ remoteShim = NoDev BY <1>2 DEF Finding, Found, Taken, Restored, Disarming
  <2>2. PICK d \in Disks : d = behind[hisio] BY <2>1, PointersFacts
  <2> DEFINE h == {d} \cup New(p)
             c1 == Call("findLoader", NoSlot, d)
             c2 == Call("uninstall", 0, NoDev)
             c3 == Call("install", 0, d)
             c4 == Go("dropLoader")
             k4 == Do(c4, k)
             k3 == Do(c3, k4)
  <2>3. /\ c1 \in Calls /\ c2 \in Calls /\ c3 \in Calls /\ c4 \in Calls
        /\ k \in Seq(Calls) /\ k4 \in Seq(Calls) /\ k3 \in Seq(Calls)
    BY DisarmRests
  <2>4. c1.fn # "armed" /\ c2.fn # "armed" /\ c3.fn # "armed" /\ c4.fn # "armed" BY DEF Call, Go
  <2>5. /\ Finding(p, k) => todo = Do(c1, k4) /\ Own(rack, h) /\ rack.dev[0] = hisio
        /\ Found(p, k) => todo = Do(c2, k3) /\ Own(rack, h) /\ rack.dev[0] = hisio
        /\ Taken(p, k) => todo = Do(c3, k4) /\ Own(rack, h) /\ rack.dev[0] = NoDev
        /\ Restored(p, k) => todo = Do(c4, k) /\ Own(rack, New(p)) /\ rack.dev[0] = d
    BY <2>2 DEF Finding, Found, Taken, Restored
  <2> HIDE DEF h, c1, c2, c3, c4, k3, k4
  <2>6. Finding(p, k) => Coming BY <2>3, <2>4, <2>5, Comes
  <2>7. Found(p, k) => Coming BY <2>3, <2>4, <2>5, Comes
  <2>8. Taken(p, k) => Coming BY <2>3, <2>4, <2>5, Comes
  <2>9. Restored(p, k) => Coming BY <2>3, <2>4, <2>5, Comes
  <2>10. AtD1(rack.dev[0]) BY <1>2, <2>1, <2>5, Fronts
  <2>11. Standing BY <1>2, <2>1, <2>5, <2>10, Stands
  <2> QED BY <1>2, <2>6, <2>7, <2>8, <2>9, <2>11 DEF Phase
<1> QED BY <1>1, <1>2

LEMMA EjectPhase == EjectSlot => Phase
<1> SUFFICES ASSUME NEW n \in Slots, NEW p \in OrNone(Disks), NEW k \in Puts(n, p),
                    \/ ToEject(n, p, k) \/ Full(n, p, k) \/ Empty(n, p, k) \/ ToPut(n, p, k)
                    \/ \E i \in Disks : Out(n, p, i, k)
             PROVE  Phase
  BY DEF EjectSlot
<1>1. /\ k \in Seq(Calls)
      /\ Call("uninstall", n, NoDev) \in Calls /\ Call("eject", n, NoDev) \in Calls
      /\ \A d \in Disks : Call("delete", n, d) \in Calls /\ Do(Call("delete", n, d), k) \in Seq(Calls)
  BY PutRests
<1>2. /\ Call("uninstall", n, NoDev).fn # "armed" /\ Call("eject", n, NoDev).fn # "armed"
      /\ \A d \in Disks : Call("delete", n, d).fn # "armed"
  BY DEF Call
<1>3. CASE ToEject(n, p, k)
  <2>1. todo = Do(Call("eject", n, NoDev), k) /\ Rest(p) BY <1>3 DEF ToEject, Ejectable
  <2> QED BY <1>1, <1>2, <2>1, Comes, RestStands DEF Phase
<1>4. CASE Full(n, p, k)
  <2>1. Rest(p) /\ Ejectable(n, p) /\ rack.dev[n] # NoDev BY <1>4 DEF Full, Ejectable
  <2>2. PICK i \in Disks : i = rack.dev[n] BY <2>1, SlotDisk DEF OrNone
  <2>3. todo = Do(Call("uninstall", n, NoDev), Do(Call("delete", n, i), k)) BY <1>4, <2>2 DEF Full
  <2> QED BY <1>1, <1>2, <2>1, <2>3, Comes, RestStands DEF Phase
<1>5. CASE Empty(n, p, k)
  <2>1. todo = Do(Call("uninstall", n, NoDev), k) /\ Rest(p) BY <1>5 DEF Empty, Ejectable
  <2> QED BY <1>1, <1>2, <2>1, Comes, RestStands DEF Phase
<1>6. CASE ToPut(n, p, k)
  <2> DEFINE e == <<>>
  <2>1. todo = k /\ p # NoDev /\ p \in Disks /\ p \in Devices /\ Rest(p) BY <1>6, Nulls DEF ToPut, Ejectable, OrNone
  <2>2. PICK f \in {"install", "mount"}, r \in {e, <<Go("arm")>>} : todo = Do(Call(f, n, p), r)
    <3>1. Do(Call("install", n, p), e) = <<Call("install", n, p)>> BY DoOne
    <3> QED BY <2>1, <3>1 DEF Puts
  <2>3. r \in Seq(Calls)
    <3>1. <<>> \in Seq(Calls) /\ <<Go("arm")>> \in Seq(Calls) BY Typed
    <3> QED BY <2>2, <3>1
  <2> HIDE DEF e
  <2>4. Call(f, n, p) \in Calls /\ Call(f, n, p).fn # "armed"
    <3>1. Call("install", n, p) \in Calls /\ Call("mount", n, p) \in Calls BY <2>1, Typed
    <3>2. Call("install", n, p).fn # "armed" /\ Call("mount", n, p).fn # "armed" BY DEF Call
    <3> QED BY <3>1, <3>2
  <2> QED BY <2>1, <2>2, <2>3, <2>4, Comes, RestStands DEF Phase
<1>7. ASSUME NEW i \in Disks, Out(n, p, i, k) PROVE Phase
  <2> DEFINE h == Hidden \cup New(p) \cup {i}
  <2>1. /\ todo = Do(Call("delete", n, i), k) /\ Own(rack, h) /\ Pointers
        /\ rack.dev[0] \in AtFront /\ remoteShim = hisio
    BY <1>7 DEF Out
  <2> HIDE DEF h
  <2>2. AtD1(rack.dev[0]) BY <2>1, Fronts
  <2>3. Standing BY <2>1, <2>2, Stands
  <2> QED BY <1>1, <1>2, <2>1, <2>3, Comes DEF Phase
<1> QED BY <1>3, <1>4, <1>5, <1>6, <1>7

LEMMA SwapPhase == SwapSlot => Phase
<1> SUFFICES ASSUME NEW a \in Slots, NEW b \in Slots, ToSwap(a, b) PROVE Phase BY DEF SwapSlot
<1> DEFINE k == <<Go("arm")>>
<1>1. todo = Do(Call("swap", b, a), k) /\ Rest(NoDev) BY DEF ToSwap
<1>2. k \in Seq(Calls) /\ Call("swap", b, a) \in Calls BY Typed
<1>3. Call("swap", b, a).fn # "armed" BY DEF Call
<1> HIDE DEF k
<1> QED BY <1>1, <1>2, <1>3, Comes, RestStands DEF Phase

LEMMA BackPhase == BackSlot => Phase
<1> SUFFICES ASSUME NEW k \in AfterBack, ToHandBack(k) \/ Booting(k) \/ Between(k) \/ Returned(k) PROVE Phase
  BY DEF BackSlot
<1>1. CASE ToHandBack(k)
  <2>1. todo = Do(Go("handBack"), k) /\ Rest(NoDev) BY <1>1 DEF ToHandBack
  <2>2. k \in Seq(Calls) /\ Go("handBack") \in Calls BY BackRests
  <2>3. Go("handBack").fn # "armed" BY DEF Go, Call
  <2> QED BY <2>1, <2>2, <2>3, Comes, RestStands DEF Phase
<1>2. CASE Booting(k) \/ Between(k) \/ Returned(k)
  <2>1. Loaded /\ Pointers /\ autoBoot # NoDev /\ remoteShim = hisio BY <1>2 DEF Booting, Between, Returned, Loaded
  <2>2. PICK o \in OrNone(Devices) : o = autoBootOld BY <2>1, PointersFacts
  <2> DEFINE c1 == Call("uninstall", 0, NoDev)
             c2 == Call("install", 0, o)
             c3 == Go("dropBoot")
             k3 == Do(c3, k)
             k2 == Do(c2, k3)
  <2>3. /\ c1 \in Calls /\ c3 \in Calls /\ k \in Seq(Calls) /\ k3 \in Seq(Calls)
        /\ o # NoDev => c2 \in Calls /\ k2 \in Seq(Calls)
    BY BackRests DEF OrNone
  <2>4. c1.fn # "armed" /\ c2.fn # "armed" /\ c3.fn # "armed" BY DEF Call, Go
  <2>5. /\ Booting(k) => /\ todo = Do(c1, IF o = NoDev THEN k3 ELSE k2)
                         /\ Own(rack, Hidden) /\ rack.dev[0] = autoBoot
        /\ Between(k) => todo = Do(c2, k3) /\ o # NoDev /\ Own(rack, Hidden) /\ rack.dev[0] = NoDev
        /\ Returned(k) => todo = Do(c3, k) /\ Own(rack, BehindShim) /\ rack.dev[0] = autoBootOld
    BY <2>2 DEF Booting, Between, Returned
  <2> HIDE DEF c1, c2, c3, k2, k3
  <2>6. Booting(k) => Coming BY <2>3, <2>4, <2>5, Comes
  <2>7. Between(k) => Coming BY <2>3, <2>4, <2>5, Comes
  <2>8. Returned(k) => Coming BY <2>3, <2>4, <2>5, Comes
  <2>9. AtD1(rack.dev[0]) BY <1>2, <2>1, <2>5, Fronts
  <2>10. Standing BY <1>2, <2>1, <2>5, <2>9, Stands
  <2> QED BY <1>2, <2>6, <2>7, <2>8, <2>10 DEF Phase
<1> QED BY <1>1, <1>2

LEMMA LoadPhase == LoadSlot => Phase
<1>1. ASSUME ToLoad PROVE Phase
  <2>1. Go("loadXex") \in Calls /\ <<>> \in Seq(Calls) /\ todo = Do(Go("loadXex"), <<>>) BY <1>1, Typed, DoOne DEF ToLoad
  <2>2. Go("loadXex").fn # "armed" BY DEF Go, Call
  <2>3. Coming BY <2>1, <2>2, Comes
  <2> QED BY <1>1, <2>3, RestStands DEF ToLoad, Phase
<1>2. ASSUME Aside \/ Alone PROVE Phase
  <2>1. Loaded /\ Pointers /\ autoBoot # NoDev /\ remoteShim = hisio BY <1>2 DEF Aside, Alone, Loaded
  <2>2. PICK b \in Boots : b = autoBoot BY <2>1, PointersFacts
  <2> DEFINE c1 == Call("uninstall", 0, NoDev)
             c2 == Call("install", 0, b)
             k2 == <<c2>>
             e == <<>>
  <2>3. c1 \in Calls /\ c2 \in Calls /\ k2 \in Seq(Calls) /\ e \in Seq(Calls) BY Typed, D1, Nulls
  <2>4. c1.fn # "armed" /\ c2.fn # "armed" BY DEF Call
  <2>5. Do(c2, e) = k2 BY DoOne
  <2>6. /\ Aside => todo = Do(c1, k2) /\ Own(rack, BehindShim) /\ rack.dev[0] = autoBootOld
        /\ Alone => todo = k2 /\ Own(rack, Hidden) /\ rack.dev[0] = NoDev
    BY <2>2 DEF Aside, Alone
  <2> HIDE DEF c1, c2, k2, e
  <2>7. Aside => Coming BY <2>3, <2>4, <2>6, Comes
  <2>8. Alone => Coming BY <2>3, <2>4, <2>5, <2>6, Comes
  <2>9. AtD1(rack.dev[0]) BY <1>2, <2>1, <2>6, Fronts
  <2>10. Standing BY <1>2, <2>1, <2>6, <2>9, Stands
  <2> QED BY <1>2, <2>7, <2>8, <2>10 DEF Phase
<1> QED BY <1>1, <1>2 DEF LoadSlot

LEMMA SlotPhase == Slot => Phase
BY ArmPhase, DisarmPhase, EjectPhase, SwapPhase, BackPhase, LoadPhase, RestStands DEF Slot, Idle, Phase

-----------------------------------------------------------------------------
(* Between two slots.                                                      *)
LEMMA Resting == Slot /\ todo = <<>> => Idle
BY SlotPhase DEF Phase, Coming

(* A step that is none of the rack's.                                      *)
Quiet == rack' = rack /\ Steady /\ todo' = todo

LEMMA SameSlot == Slot /\ Quiet => Contract /\ Slot'
<1> SUFFICES ASSUME Slot, Quiet PROVE Contract /\ Slot' OBVIOUS
<1>1. rack' = rack /\ Steady /\ todo' = todo BY DEF Quiet
<1>2. ASSUME Pointers PROVE Pointers' /\ Hidden' = Hidden /\ BehindShim' = BehindShim BY <1>1, <1>2, PointersSame
<1>3. Bare' = Bare /\ AtFront' = AtFront /\ Served' = Served BY <1>1 DEF Steady, Bare, AtFront, Served
<1>4. ASSUME NEW p, Rest(p) PROVE Rest(p)'
  <2>1. Pointers BY <1>4 DEF Rest
  <2> QED BY <1>1, <1>2, <1>3, <1>4, <2>1 DEF Rest, Steady
<1>5. Loaded => Loaded' BY <1>1, <1>2, <1>3 DEF Loaded, Steady
<1>6. Idle => Slot' BY <1>1, <1>3, <1>4 DEF Idle, Slot
<1>7. ArmSlot => Slot'
  <2>1. ToArm => ToArm' BY <1>1, <1>3, <1>4 DEF ToArm
  <2>2. ASSUME NEW s \in Shims, NEW d \in Disks, Arming(s, d) PROVE Arming(s, d)'
    BY <1>1, <1>2, <1>3, <2>2 DEF Arming, Steady
  <2>3. ASSUME NEW s \in Shims, NEW d \in Disks PROVE
           /\ InPlace(s, d) => InPlace(s, d)'
           /\ Lifted(s, d) => Lifted(s, d)'
           /\ Numbered(s, d) => Numbered(s, d)'
           /\ Covered(s, d) => Covered(s, d)'
    BY <1>1, <2>2 DEF InPlace, Lifted, Numbered, Covered
  <2> QED BY <2>1, <2>3 DEF ArmSlot, Slot
<1>8. DisarmSlot => Slot'
  <2>1. ASSUME NEW p, Disarming(p) PROVE Disarming(p)' BY <1>1, <1>2, <2>1 DEF Disarming, Steady
  <2>2. ASSUME NEW p \in OrNone(Disks), NEW k \in AfterDisarm(p) PROVE
           /\ ToDisarm(p, k) => ToDisarm(p, k)'
           /\ Finding(p, k) => Finding(p, k)'
           /\ Found(p, k) => Found(p, k)'
           /\ Taken(p, k) => Taken(p, k)'
           /\ Restored(p, k) => Restored(p, k)'
    <3>1. ToDisarm(p, k) => ToDisarm(p, k)' BY <1>1, <1>4 DEF ToDisarm, Steady
    <3>2. Finding(p, k) => Finding(p, k)' BY <1>1, <2>1 DEF Finding, Steady
    <3>3. Found(p, k) => Found(p, k)' BY <1>1, <2>1 DEF Found, Steady
    <3>4. Taken(p, k) => Taken(p, k)' BY <1>1, <2>1 DEF Taken, Steady
    <3>5. Restored(p, k) => Restored(p, k)' BY <1>1, <2>1 DEF Restored, Steady
    <3> QED BY <3>1, <3>2, <3>3, <3>4, <3>5
  <2> QED BY <2>2 DEF DisarmSlot, Slot
<1>9. EjectSlot => Slot'
  <2>1. ASSUME NEW n \in Slots, NEW p, Ejectable(n, p) PROVE Ejectable(n, p)' BY <1>3, <1>4, <2>1 DEF Ejectable
  <2>2. ASSUME NEW n \in Slots, NEW p \in OrNone(Disks), NEW k \in Puts(n, p) PROVE
           /\ ToEject(n, p, k) => ToEject(n, p, k)'
           /\ Full(n, p, k) => Full(n, p, k)'
           /\ Empty(n, p, k) => Empty(n, p, k)'
           /\ ToPut(n, p, k) => ToPut(n, p, k)'
    <3>1. ToEject(n, p, k) => ToEject(n, p, k)' BY <1>1, <2>1 DEF ToEject
    <3>2. Full(n, p, k) => Full(n, p, k)' BY <1>1, <2>1 DEF Full
    <3>3. Empty(n, p, k) => Empty(n, p, k)' BY <1>1, <2>1 DEF Empty
    <3>4. ToPut(n, p, k) => ToPut(n, p, k)' BY <1>1, <2>1 DEF ToPut
    <3> QED BY <3>1, <3>2, <3>3, <3>4
  <2>3. ASSUME NEW n \in Slots, NEW p \in OrNone(Disks), NEW k \in Puts(n, p), NEW i \in Disks, Out(n, p, i, k)
        PROVE  Out(n, p, i, k)'
    BY <1>1, <1>2, <1>3, <2>3 DEF Out, Steady
  <2> QED BY <2>2, <2>3 DEF EjectSlot, Slot
<1>10. SwapSlot => Slot'
  <2>1. ASSUME NEW a, NEW b, ToSwap(a, b) PROVE ToSwap(a, b)' BY <1>1, <1>3, <1>4, <2>1 DEF ToSwap
  <2> QED BY <2>1 DEF SwapSlot, Slot
<1>11. BackSlot => Slot'
  <2>1. ASSUME NEW k \in AfterBack PROVE
           /\ ToHandBack(k) => ToHandBack(k)'
           /\ Booting(k) => Booting(k)'
           /\ Between(k) => Between(k)'
           /\ Returned(k) => Returned(k)'
    <3>0. Loaded => Pointers BY DEF Loaded
    <3>1. ToHandBack(k) => ToHandBack(k)' BY <1>1, <1>3, <1>4 DEF ToHandBack
    <3>2. Booting(k) => Booting(k)' BY <1>1, <1>2, <1>5, <3>0 DEF Booting, Steady
    <3>3. Between(k) => Between(k)' BY <1>1, <1>2, <1>5, <3>0 DEF Between, Steady
    <3>4. Returned(k) => Returned(k)' BY <1>1, <1>2, <1>5, <3>0 DEF Returned, Steady
    <3> QED BY <3>1, <3>2, <3>3, <3>4
  <2> QED BY <2>1 DEF BackSlot, Slot
<1>12. LoadSlot => Slot'
  <2>0. Loaded => Pointers BY DEF Loaded
  <2>1. ToLoad => ToLoad' BY <1>1, <1>3, <1>4 DEF ToLoad, Steady
  <2>2. Aside => Aside' BY <1>1, <1>2, <1>5, <2>0 DEF Aside, Steady
  <2>3. Alone => Alone' BY <1>1, <1>2, <1>5, <2>0 DEF Alone, Steady
  <2> QED BY <2>1, <2>2, <2>3 DEF LoadSlot, Slot
<1> QED BY <1>1, <1>6, <1>7, <1>8, <1>9, <1>10, <1>11, <1>12 DEF Slot, Contract

(* What the assumption buys: whoever changes D1: finds nothing loaded.     *)
LEMMA Unloaded ==
    ASSUME Undisturbed
    PROVE  /\ "interfere" \notin May /\ "midslot" \notin May
           /\ D1Free => autoBoot = NoDev /\ ~Loading
<1>1. "interfere" \notin May /\ "midslot" \notin May BY DEF Undisturbed
<1> QED BY <1>1 DEF D1Free, Loading

-----------------------------------------------------------------------------
(* What starts a slot.                                                     *)

(* An image is opened.                                                     *)
LEMMA NewDisk ==
    ASSUME Idle, NEW d \in Disks, d \notin rack.live, rack' = T!Allocate(rack, d), Steady
    PROVE  Contract /\ Rest(d)' /\ Served' /\ autoBoot' = autoBoot
<1> DEFINE h == Hidden \cup New(NoDev)
           j == h \cup ({d} \cap Disks)
<1>1. Own(rack, h) /\ Pointers /\ rack.dev[0] \in AtFront /\ remoteShim = hisio /\ Served /\ d \in Devices /\ d # NoDev
  BY Nulls DEF Idle, Rest
<1>2. j = Hidden \cup New(d) BY <1>1 DEF New
<1>3. Hidden \subseteq rack.live BY <1>1, HiddenLive
<1> HIDE DEF h, j
<1>4. /\ Own(rack', j) /\ rack'.dev = rack.dev /\ rack'.live = rack.live \cup {d}
      /\ rack'.no = [rack.no EXCEPT ![d] = NoSlot] /\ T!Next
  BY <1>1, Allocates DEF j
<1>5. Pointers' /\ Hidden' = Hidden
  <2>1. \A o \in doomed : rack'.no[o] = NoSlot BY <1>1, <1>4, OwnFacts, PointersFacts DEF Pointers
  <2>2. (rack.live \cap Loaders) \cup Hidden \subseteq rack'.live BY <1>3, <1>4
  <2> QED BY <1>1, <2>1, <2>2, PointersStay
<1>6. AtFront' = AtFront /\ Served' = Served /\ autoBoot' = autoBoot BY DEF Steady, AtFront, Served
<1>7. Own(rack', Hidden' \cup New(d)) BY <1>2, <1>4, <1>5
<1>8. New(d) \cap Hidden' = {} BY <1>3, <1>5 DEF New
<1>9. Rest(d)' BY <1>1, <1>4, <1>5, <1>6, <1>7, <1>8 DEF Rest, Steady
<1> QED BY <1>1, <1>4, <1>6, <1>9 DEF Contract

(* Nothing has changed but what is left to do.                             *)
LEMMA OldDisks ==
    ASSUME Idle, rack' = rack, Steady
    PROVE  Contract /\ Rest(NoDev)' /\ Served' /\ autoBoot' = autoBoot
<1>1. Pointers' /\ Hidden' = Hidden BY PointersSame DEF Idle, Rest
<1>2. AtFront' = AtFront /\ Served' = Served /\ autoBoot' = autoBoot BY DEF Steady, AtFront, Served
<1> QED BY <1>1, <1>2 DEF Contract, Idle, Rest, Steady

(* Engine::ejectImage, as calls.                                           *)
LEMMA Ejects ==
    ASSUME NEW n \in Slots, NEW j \in Seq(Calls)
    PROVE  /\ Eject(n) \in Seq(Calls)
           /\ n = 0 => Before(Eject(n), j) = Do(Go("disarm"), Do(Call("eject", 0, NoDev), j))
           /\ n # 0 => Before(Eject(n), j) = Do(Call("eject", n, NoDev), j)
<1>1. Go("disarm") \in Calls /\ Call("eject", n, NoDev) \in Calls BY Typed
<1>2. CASE n = 0
  <2> DEFINE a == Go("disarm")
             b == Call("eject", 0, NoDev)
  <2>1. Eject(n) = <<a>> \o <<b>> BY <1>2 DEF Eject, If, Go
  <2>2. a \in Calls /\ b \in Calls BY <1>1, <1>2
  <2> HIDE DEF a, b
  <2>3. Eject(n) \in Seq(Calls) BY <2>1, <2>2
  <2>4. Before(<<a>> \o <<b>>, j) = Do(a, Do(b, j)) BY <2>2, DoBack
  <2> QED BY <1>2, <2>1, <2>3, <2>4 DEF a, b
<1>3. CASE n # 0
  <2>1. Eject(n) = <<>> \o <<Call("eject", n, NoDev)>> BY <1>3 DEF Eject, If
  <2>2. <<Call("eject", n, NoDev)>> \in Seq(Calls) BY <1>1
  <2>3. Eject(n) = <<Call("eject", n, NoDev)>> BY <2>1, <2>2
  <2> QED BY <1>3, <2>2, <2>3 DEF Before, Do
<1> QED BY <1>2, <1>3

LEMMA EjectStarts ==
    ASSUME NEW n \in Slots, NEW p \in OrNone(Disks), NEW j \in Puts(n, p), todo' = Before(Eject(n), j),
           Rest(p)', Served', n = 0 => (autoBoot = NoDev)'
    PROVE  Slot'
<1>1. j \in Seq(Calls) BY PutRests
<1>2. CASE n = 0
  <2> DEFINE k == Do(Call("eject", 0, NoDev), j)
  <2>1. todo' = Do(Go("disarm"), k) BY <1>1, <1>2, Ejects
  <2>2. k \in AfterDisarm(p) BY <1>2 DEF AfterDisarm
  <2> HIDE DEF k
  <2>3. ToDisarm(p, k)' BY <1>2, <2>1 DEF ToDisarm
  <2>4. DisarmSlot' BY <2>2, <2>3 DEF DisarmSlot
  <2> QED BY <2>4 DEF Slot
<1>3. CASE n # 0
  <2>1. todo' = Do(Call("eject", n, NoDev), j) BY <1>1, <1>3, Ejects
  <2>2. ToEject(n, p, j)' BY <1>3, <2>1 DEF ToEject, Ejectable
  <2>3. EjectSlot' BY <2>2 DEF EjectSlot
  <2> QED BY <2>3 DEF Slot
<1> QED BY <1>2, <1>3

-----------------------------------------------------------------------------
(* The user.                                                               *)

(* mountFile.                                                              *)
LEMMA MountStarts ==
    ASSUME Undisturbed, Idle, NEW n \in Slots, MountFile(n)
    PROVE  Contract /\ Slot'
<1>1. PICK d \in Fresh(Files) :
         /\ rack' = T!Allocate(rack, d)
         /\ todo' = Eject(n) \o <<Call("mount", n, d)>> \o If(n = 0, <<Call("arm", NoSlot, NoDev)>>)
  BY DEF MountFile, Acts
<1>2. MayChange(n) /\ Steady BY DEF MountFile, pointers, run, Steady
<1>3. d \in Disks /\ d \in OrNone(Disks) /\ d # NoDev /\ d \notin rack.live BY <1>1, Nulls DEF Fresh, Disks, OrNone
<1>4. Contract /\ Rest(d)' /\ Served' /\ autoBoot' = autoBoot BY <1>1, <1>2, <1>3, NewDisk
<1> DEFINE m == Call("mount", n, d)
           s == IF n = 0 THEN <<Go("arm")>> ELSE <<>>
           j == Do(m, s)
<1>5. m \in Calls /\ s \in Seq(Calls)
  <2>1. <<Go("arm")>> \in Seq(Calls) /\ <<>> \in Seq(Calls) BY Typed
  <2> QED BY <1>3, <2>1, Typed
<1>6. j \in Seq(Calls) BY <1>5, DoIs
<1>7. todo' = Before(Eject(n), j)
  <2>1. todo' = (Eject(n) \o <<m>>) \o s BY <1>1 DEF If, Go
  <2>2. Eject(n) \in Seq(Calls) BY <1>5, Ejects
  <2>3. <<m>> \in Seq(Calls) BY <1>5
  <2> HIDE DEF m, s
  <2> QED BY <1>5, <2>1, <2>2, <2>3, ConcatAssociative DEF Before, Do
<1>8. j \in Puts(n, d) BY <1>3 DEF Puts
<1>9. n = 0 => (autoBoot = NoDev)' BY <1>2, <1>4, Unloaded DEF MayChange
<1> HIDE DEF j
<1>10. Slot' BY <1>3, <1>4, <1>7, <1>8, <1>9, EjectStarts
<1> QED BY <1>4, <1>10

(* createDisk.                                                             *)
LEMMA CreateStarts ==
    ASSUME Undisturbed, Idle, present \subseteq Slots, CreateDisk
    PROVE  Contract /\ Slot'
<1>1. PICK n \in present, d \in Fresh(Untitled) :
         /\ MayChange(n)
         /\ rack' = T!Allocate(rack, d)
         /\ todo' = Eject(n) \o <<Call("install", n, d)>>
  BY DEF CreateDisk, MayChange, Acts
<1>2. Steady BY DEF CreateDisk, pointers, run, Steady
<1>3. d \in Disks /\ d \in OrNone(Disks) /\ d # NoDev /\ d \in Devices /\ d \notin rack.live /\ n \in Slots
  BY <1>1, Nulls DEF Fresh, Disks, OrNone
<1>4. Contract /\ Rest(d)' /\ Served' /\ autoBoot' = autoBoot BY <1>1, <1>2, <1>3, NewDisk
<1> DEFINE j == <<Call("install", n, d)>>
<1>5. todo' = Before(Eject(n), j) BY <1>1 DEF Before
<1>6. j \in Puts(n, d) BY <1>3 DEF Puts
<1>7. n = 0 => (autoBoot = NoDev)' BY <1>1, <1>4, Unloaded DEF MayChange
<1> HIDE DEF j
<1>8. Slot' BY <1>3, <1>4, <1>5, <1>6, <1>7, EjectStarts
<1> QED BY <1>4, <1>8

(* Nothing is left to do.                                                  *)
LEMMA NothingStarts ==
    ASSUME Idle, rack' = rack, Steady, todo' = <<>>
    PROVE  Contract /\ Slot'
BY OldDisks DEF Idle, Slot

(* ejectPressedAt.                                                         *)
LEMMA EjectPressedStarts ==
    ASSUME Undisturbed, Idle, NEW n \in Slots, EjectPressed(n)
    PROVE  Contract /\ Slot'
<1>1. rack' = rack /\ Steady BY DEF EjectPressed, pointers, run, Steady
<1>2. CASE rack.dev[n] # NoDev
  <2> DEFINE j == <<>>
  <2>1. Contract /\ Rest(NoDev)' /\ Served' /\ autoBoot' = autoBoot BY <1>1, OldDisks
  <2>2. todo' = Eject(n) /\ MayChange(n) BY <1>2 DEF EjectPressed, Acts
  <2>3. j \in Seq(Calls) /\ j \in Puts(n, NoDev) BY DEF Puts
  <2>4. Eject(n) \in Seq(Calls) BY <2>3, Ejects
  <2>5. todo' = Before(Eject(n), j) BY <2>2, <2>4 DEF Before
  <2>6. n = 0 => (autoBoot = NoDev)' BY <2>1, <2>2, Unloaded DEF MayChange
  <2> HIDE DEF j
  <2>7. NoDev \in OrNone(Disks) BY DEF OrNone
  <2>8. Slot' BY <2>1, <2>3, <2>5, <2>6, <2>7, EjectStarts
  <2> QED BY <2>1, <2>8
<1>3. CASE rack.dev[n] = NoDev
  <2>1. todo' = <<>> BY <1>3 DEF EjectPressed, Acts
  <2> QED BY <1>1, <2>1, NothingStarts
<1> QED BY <1>2, <1>3

(* swapSlots.                                                              *)
LEMMA SwapStarts ==
    ASSUME Undisturbed, Idle, NEW a \in Slots, NEW b \in Slots, SwapSlots(a, b)
    PROVE  Contract /\ Slot'
<1> DEFINE l == <<Go("arm")>>
           k == Do(Call("swap", b, a), l)
           e == <<>>
<1>1. rack' = rack /\ Steady /\ a # b /\ D1Free BY DEF SwapSlots, pointers, run, Steady
<1>2. Contract /\ Rest(NoDev)' /\ Served' /\ autoBoot' = autoBoot BY <1>1, OldDisks
<1>3. autoBoot' = NoDev BY <1>1, <1>2, Unloaded
<1>4. todo' = Do(Go("disarm"), k)
  <2> DEFINE c1 == Go("disarm")
             c2 == Call("swap", b, a)
             c3 == Go("arm")
             s  == <<c1, c2, c3>>
             t  == <<c1>> \o (<<c2>> \o <<c3>>)
  <2>1. c1 \in Calls /\ c2 \in Calls /\ c3 \in Calls BY Typed
  <2>2. todo' = s BY DEF SwapSlots, Acts, Go
  <2>3. t = Do(c1, k) BY DEF Do
  <2> HIDE DEF c1, c2, c3
  <2>4. s \in Seq(Calls) /\ Len(s) = 3 /\ s[1] = c1 /\ s[2] = c2 /\ s[3] = c3 BY <2>1
  <2>5. t \in Seq(Calls) /\ Len(t) = 3 /\ t[1] = c1 /\ t[2] = c2 /\ t[3] = c3 BY <2>1
  <2>6. \A i \in 1 .. 3 : i = 1 \/ i = 2 \/ i = 3 OBVIOUS
  <2> HIDE DEF s, t, k
  <2>7. \A i \in 1 .. Len(s) : s[i] = t[i] BY <2>4, <2>5, <2>6
  <2>8. s = t BY <2>4, <2>5, <2>7, SeqEqual
  <2> QED BY <2>2, <2>3, <2>8 DEF c1
<1>5. k \in AfterDisarm(NoDev)
  <2>1. <<a, b>> \in {y \in Slots \X Slots : y[1] # y[2]} BY <1>1
  <2>2. Do(Call("swap", <<a, b>>[2], <<a, b>>[1]), l) = k OBVIOUS
  <2> HIDE DEF k
  <2> QED BY <2>1, <2>2 DEF AfterDisarm
<1> HIDE DEF k
<1>6. ToDisarm(NoDev, k)' BY <1>2, <1>3, <1>4 DEF ToDisarm
<1>7. DisarmSlot' BY <1>5, <1>6 DEF DisarmSlot, OrNone
<1> QED BY <1>2, <1>7 DEF Slot

(* loaderEject, loaderBooterDone, and loaderLoadXex, which begins with it. *)
LEMMA HandBackStarts ==
    ASSUME Idle, rack' = rack, Steady, NEW k \in AfterBack, todo' = Do(Go("handBack"), k)
    PROVE  Contract /\ Slot'
<1>1. Contract /\ Rest(NoDev)' /\ Served' BY OldDisks
<1>2. ToHandBack(k)' BY <1>1 DEF ToHandBack
<1> QED BY <1>1, <1>2 DEF Slot, BackSlot

LEMMA LoaderStarts ==
    ASSUME Idle, rack' = rack, Steady, todo' = <<Call("handBack", NoSlot, NoDev)>>
    PROVE  Contract /\ Slot'
<1> DEFINE e == <<>>
<1>1. todo' = Do(Go("handBack"), e) BY DoOne DEF Go
<1>2. e \in AfterBack BY DEF AfterBack
<1> HIDE DEF e
<1> QED BY <1>1, <1>2, HandBackStarts

LEMMA LoadStarts ==
    ASSUME Idle, LoadExecutable
    PROVE  Contract /\ Slot'
<1> DEFINE e == <<>>
           k == <<Go("loadXex")>>
<1>1. rack' = rack /\ Steady BY DEF LoadExecutable, pointers, run, Steady
<1>2. Go("handBack") \in Calls /\ Go("loadXex") \in Calls /\ e \in Seq(Calls) BY Typed
<1>3. Do(Go("loadXex"), e) = k BY DoOne
<1>4. todo' = Before(Two(Go("handBack"), Go("loadXex")), e) BY DEF LoadExecutable, Acts, Go, Before, Two
<1>5. k \in AfterBack BY DEF AfterBack
<1> HIDE DEF e, k
<1>6. todo' = Do(Go("handBack"), k) BY <1>2, <1>3, <1>4, DoTwo
<1> QED BY <1>1, <1>5, <1>6, HandBackStarts

(* Every act of the user.                                                  *)
LEMMA UserSlot ==
    ASSUME Undisturbed, Slot, Kinds, User
    PROVE  Contract /\ Slot' /\ todo = <<>>
<1> USE DEF Steady, pointers, run, user
<1>1. todo = <<>>
  BY DEF User, MountFile, MountBadFile, EjectPressed, CreateDisk, AddSlot, SwapSlots, LoadExecutable,
         LoaderEject, StartEmulation, Acts
<1>2. Idle BY <1>1, Resting
<1> QED
  <2>1. ASSUME NEW n \in Slots, MountFile(n) PROVE Contract /\ Slot' BY <1>2, <2>1, MountStarts
  <2>2. ASSUME NEW n \in Slots, MountBadFile(n) PROVE Contract /\ Slot'
    BY <1>2, <2>2, NothingStarts DEF MountBadFile, Acts
  <2>3. ASSUME NEW n \in Slots, EjectPressed(n) PROVE Contract /\ Slot' BY <1>2, <2>3, EjectPressedStarts
  <2>4. CASE CreateDisk BY <1>1, <1>2, <2>4, CreateStarts DEF Kinds
  <2>5. CASE AddSlot BY <1>2, <2>5, NothingStarts DEF AddSlot, Acts
  <2>6. ASSUME NEW a \in Slots, NEW b \in Slots, SwapSlots(a, b) PROVE Contract /\ Slot' BY <1>2, <2>6, SwapStarts
  <2>7. CASE LoadExecutable BY <1>1, <1>2, <2>7, LoadStarts
  <2>8. CASE LoaderEject BY <1>2, <2>8, LoaderStarts DEF LoaderEject, Acts
  <2>9. CASE StartEmulation BY <1>2, <2>9, NothingStarts DEF StartEmulation, Acts
  <2> HIDE DEF Steady, pointers, run, user
  <2> QED BY <1>1, <2>1, <2>2, <2>3, <2>4, <2>5, <2>6, <2>7, <2>8, <2>9 DEF User

-----------------------------------------------------------------------------
(* The event loop.                                                         *)

(* sioStarted: nothing is armed and nothing is loaded.                     *)
LEMMA StartedSlot ==
    ASSUME Slot, Queue, Kinds, SioStarted
    PROVE  Contract /\ Slot'
<1>1. /\ rack' = rack /\ behind' = behind /\ hisio' = hisio /\ remoteShim' = remoteShim
      /\ autoBoot' = autoBoot /\ autoBootOld' = autoBootOld /\ doomed' = doomed
      /\ todo = <<>> /\ todo' = <<Go("arm")>> /\ events # <<>> /\ Head(events).ev = "started"
  BY DEF SioStarted, Start, Deliver, pointers, Go
<1>2. Idle BY <1>1, Resting
<1>3. Rest(NoDev) /\ Pointers BY <1>2 DEF Idle, Rest
<1>4. hisio = NoDev /\ autoBoot = NoDev
  <2>1. events \in Seq(Events) BY DEF Kinds
  <2>2. 1 \in DOMAIN events /\ events[1].ev = "started" BY <1>1, <2>1
  <2>3. Switching /\ hisio = NoDev BY <2>2 DEF Queue, Switching
  <2> QED BY <2>3 DEF Queue, Loading
<1>5. Bare' /\ AtFront' = AtFront BY <1>1, <1>4 DEF Bare, AtFront
<1>6. Pointers' /\ Hidden' = Hidden BY <1>1, <1>3 DEF Pointers, Hidden, BehindShim
<1>7. Rest(NoDev)' BY <1>1, <1>3, <1>5, <1>6 DEF Rest
<1>8. ToArm' BY <1>1, <1>5, <1>7 DEF ToArm
<1> QED BY <1>1, <1>8 DEF Contract, Slot, ArmSlot

(* sioFinished: the loader is taken out.                                   *)
LEMMA FinishedSlot ==
    ASSUME Slot, Queue, Kinds, SioFinished
    PROVE  Contract /\ Slot'
<1> DEFINE e == <<>>
<1>1. /\ rack' = rack /\ behind' = behind /\ hisio' = hisio /\ remoteShim' = remoteShim
      /\ autoBoot' = autoBoot /\ autoBootOld' = autoBootOld /\ doomed' = doomed
      /\ todo = <<>> /\ todo' = <<Go("disarm")>> /\ events # <<>> /\ Head(events).ev = "finished"
  BY DEF SioFinished, Start, Deliver, pointers, Go
<1>2. Idle BY <1>1, Resting
<1>3. Rest(NoDev) /\ Pointers BY <1>2 DEF Idle, Rest
<1>4. autoBoot = NoDev
  <2>1. Switching
    <3>1. events \in Seq(Events) BY DEF Kinds
    <3> QED BY <1>1, <3>1 DEF Switching
  <2> QED BY <2>1 DEF Queue, Loading
<1>5. AtFront' = AtFront /\ autoBoot' = NoDev BY <1>1, <1>4 DEF AtFront
<1>6. Pointers' /\ Hidden' = Hidden BY <1>1, <1>3 DEF Pointers, Hidden, BehindShim
<1>7. Rest(NoDev)' BY <1>1, <1>3, <1>5, <1>6 DEF Rest
<1>8. todo' = Do(Go("disarm"), e) BY <1>1, DoOne
<1>9. e \in AfterDisarm(NoDev) /\ NoDev \in OrNone(Disks) BY DEF AfterDisarm, OrNone
<1> HIDE DEF e
<1>10. ToDisarm(NoDev, e)' BY <1>5, <1>7, <1>8 DEF ToDisarm
<1>11. DisarmSlot' BY <1>9, <1>10 DEF DisarmSlot
<1> QED BY <1>1, <1>11 DEF Contract, Slot

(* deleteLater: the object has no drive, and nobody points at it.          *)
LEMMA DeleteSlot ==
    ASSUME Slot, DeferredDelete
    PROVE  Contract /\ Slot'
<1> DEFINE h == Hidden \cup New(NoDev)
<1>1. PICK o \in doomed : /\ rack' = T!Destroy(rack, o)
                          /\ behind' = [behind EXCEPT ![o] = NoDev]
                          /\ doomed' = doomed \ {o}
  BY DEF DeferredDelete
<1>2. /\ hisio' = hisio /\ remoteShim' = remoteShim /\ autoBoot' = autoBoot /\ autoBootOld' = autoBootOld
      /\ emulating' = emulating /\ todo' = todo /\ todo = <<>>
  BY DEF DeferredDelete, pointers, run
<1>3. Idle BY <1>2, Resting
<1>4. Own(rack, h) /\ Pointers /\ rack.dev[0] \in AtFront /\ remoteShim = hisio /\ Served BY <1>3 DEF Idle, Rest
<1>5. o \in rack.live /\ rack.no[o] = NoSlot /\ o \in Loaders /\ o \notin Disks BY <1>4, Nulls DEF Pointers
<1>6. h \ {o} = h /\ h = Hidden /\ New(NoDev) = {} BY <1>4, <1>5, PointersFacts DEF New
<1> HIDE DEF h
<1>7. /\ Own(rack', h \ {o}) /\ rack'.dev = rack.dev /\ rack'.live = rack.live \ {o} /\ rack'.no = rack.no /\ T!Next
  BY <1>1, <1>4, <1>5, Deletes
<1>8. hisio # o /\ autoBoot # o
  <2>1. o # NoDev BY <1>5, Nulls
  <2> QED BY <1>4, <2>1 DEF Pointers
<1>9. behind' \in [Loaders -> OrNone(Devices)] /\ \A e \in Loaders \ {o} : behind'[e] = behind[e]
  BY <1>1, <1>4 DEF Pointers, OrNone
<1>10. hisio # NoDev => hisio \in Loaders /\ behind'[hisio] = behind[hisio]
  BY <1>4, <1>8, <1>9, Nulls DEF Pointers, OrNone
<1>11. autoBoot # NoDev => autoBoot \in Loaders /\ behind'[autoBoot] = behind[autoBoot]
  BY <1>4, <1>8, <1>9, Nulls DEF Pointers, OrNone
<1>12. Hidden' = Hidden BY <1>2, <1>10 DEF Hidden, BehindShim
<1>13. Pointers'
  <2>1. hisio' # NoDev => hisio' \in rack'.live \ doomed' /\ behind'[hisio'] \in Disks \cap rack'.live
    BY <1>1, <1>2, <1>4, <1>5, <1>7, <1>8, <1>10 DEF Pointers
  <2>2. autoBoot' # NoDev => autoBoot' \in rack'.live \ doomed' /\ behind'[autoBoot'] = autoBootOld'
    BY <1>1, <1>2, <1>4, <1>7, <1>8, <1>11 DEF Pointers
  <2>3. autoBootOld' \in OrNone(rack'.live \cap Disks) \cup {hisio'}
    BY <1>2, <1>4, <1>5, <1>7 DEF Pointers, OrNone
  <2>4. \A e \in doomed' : e \in rack'.live /\ rack'.no[e] = NoSlot BY <1>1, <1>4, <1>7 DEF Pointers
  <2> QED BY <1>1, <1>2, <1>4, <1>9, <2>1, <2>2, <2>3, <2>4 DEF Pointers
<1>14. AtFront' = AtFront /\ Served' = Served BY <1>2 DEF AtFront, Served
<1>15. Own(rack', Hidden' \cup New(NoDev))
  <2>1. Hidden' \cup New(NoDev) = h BY <1>6, <1>12
  <2>2. Own(rack', h) BY <1>6, <1>7
  <2> QED BY <2>1, <2>2
<1>16. Rest(NoDev)' BY <1>2, <1>4, <1>6, <1>7, <1>13, <1>14, <1>15 DEF Rest
<1>17. Idle' BY <1>2, <1>4, <1>14, <1>16 DEF Idle
<1> QED BY <1>7, <1>17 DEF Contract, Slot

LEMMA EventSlot ==
    ASSUME Slot, Kinds, Queue, EventLoop
    PROVE  Contract /\ Slot' /\ todo = <<>>
<1>1. todo = <<>> BY DEF EventLoop, SioStarted, SioFinished, LoaderBooterDone, OnDrivesExchanged, DeferredDelete, Start
<1>2. Idle BY <1>1, Resting
<1>3. CASE SioStarted BY <1>1, <1>3, StartedSlot
<1>4. CASE SioFinished BY <1>1, <1>4, FinishedSlot
<1>5. CASE LoaderBooterDone
  <2>1. rack' = rack /\ Steady /\ todo' = <<Call("handBack", NoSlot, NoDev)>>
    BY <1>5 DEF LoaderBooterDone, Start, Steady, pointers, run
  <2> QED BY <1>1, <1>2, <2>1, LoaderStarts
<1>6. CASE OnDrivesExchanged
  <2>1. rack' = rack /\ Steady /\ todo' = <<>>
    BY <1>6 DEF OnDrivesExchanged, Start, Steady, pointers, run
  <2> QED BY <1>1, <1>2, <2>1, NothingStarts
<1>7. CASE DeferredDelete BY <1>1, <1>7, DeleteSlot
<1> QED BY <1>1, <1>3, <1>4, <1>5, <1>6, <1>7 DEF EventLoop

-----------------------------------------------------------------------------
(* The Atari.                                                              *)

(* "xc d1 d2": with a loader in front, D1: is not among them.              *)
LEMMA ExchangeSlot ==
    ASSUME Undisturbed, Slot, NEW r \in Requests, Exchange(r[1], r[2])
    PROVE  Contract /\ Slot'
<1> DEFINE a == r[1] - 1
           b == r[2] - 1
           h == Hidden \cup New(NoDev)
<1>1. a \in Slots /\ b \in Slots /\ a # b /\ b # 0 /\ (a = 0 <=> r[1] = 1)
  BY RackAssumption DEF RackAssumption, Undisturbed, Slots
<1> HIDE DEF a, b
<1>2. /\ rack' = T!Swap(rack, a, b) /\ Steady /\ todo' = todo /\ todo = <<>>
      /\ autoBoot = NoDev /\ ~(remoteShim # NoDev /\ r[1] = 1)
  BY Unloaded DEF Exchange, Steady, pointers, run, a, b
<1>3. Idle BY <1>2, Resting
<1>4. Own(rack, h) /\ Pointers /\ rack.dev[0] \in AtFront /\ remoteShim = hisio /\ Served /\ New(NoDev) \cap Hidden = {}
  BY <1>3 DEF Idle, Rest
<1>5. rack.dev[0] \in OrNone(Disks) \/ (a # 0 /\ b # 0) BY <1>1, <1>2, <1>4 DEF AtFront
<1> HIDE DEF h
<1>6. /\ Own(rack', h) /\ rack'.dev = [rack.dev EXCEPT ![a] = rack.dev[b], ![b] = rack.dev[a]]
      /\ rack'.live = rack.live
      /\ \A o \in Devices : rack.no[o] = NoSlot => rack'.no[o] = NoSlot
      /\ T!Next
  BY <1>1, <1>2, <1>4, <1>5, Swaps
<1>7. Pointers' /\ Hidden' = Hidden
  <2>1. \A o \in doomed : rack'.no[o] = NoSlot BY <1>4, <1>6, PointersFacts DEF Pointers
  <2>2. (rack.live \cap Loaders) \cup Hidden \subseteq rack'.live BY <1>4, <1>6, HiddenLive
  <2> QED BY <1>2, <1>4, <2>1, <2>2, PointersStay
<1>8. AtFront' = AtFront /\ Served' = Served BY <1>2 DEF Steady, AtFront, Served
<1>9. rack'.dev[0] \in AtFront'
  <2>1. rack.dev \in [Slots -> OrNone(Devices)] BY <1>4, OwnFacts
  <2>2. CASE a # 0
    <3>1. rack'.dev[0] = rack.dev[0] BY <1>1, <1>6, <2>1, <2>2, D1
    <3> QED BY <1>4, <1>8, <3>1
  <2>3. CASE a = 0
    <3>1. rack'.dev[0] = rack.dev[b] BY <1>1, <1>6, <2>1, <2>3, D1
    <3>2. rack.dev[b] \in OrNone(Disks) BY <1>1, <1>4, OwnFacts
    <3>3. AtFront = OrNone(Disks) BY <1>1, <1>2, <1>4, <2>3 DEF AtFront
    <3> QED BY <1>8, <3>1, <3>2, <3>3
  <2> QED BY <2>2, <2>3
<1>10. Own(rack', Hidden' \cup New(NoDev)) BY <1>6, <1>7 DEF h
<1>11. Rest(NoDev)' BY <1>2, <1>4, <1>7, <1>9, <1>10 DEF Rest, Steady
<1>12. Idle' BY <1>2, <1>4, <1>8, <1>11 DEF Idle
<1> QED BY <1>6, <1>12 DEF Contract, Slot

LEMMA WorkerSlot ==
    ASSUME Undisturbed, Slot, Worker
    PROVE  Contract /\ Slot'
<1>1. CASE \E r \in Requests : Exchange(r[1], r[2]) BY <1>1, ExchangeSlot
<1>2. CASE BootDone \/ ThreadExit
  <2>1. Quiet BY <1>2 DEF BootDone, ThreadExit, Quiet, Steady, pointers, run
  <2> QED BY <2>1, SameSlot
<1> QED BY <1>1, <1>2 DEF Worker

(* Every step of the system keeps the table's contract and the slot.       *)
LEMMA SlotStep ==
    ASSUME Undisturbed, Slot, Kinds, Queue, [Next]_vars
    PROVE  Contract /\ Slot'
<1>1. CASE User BY <1>1, UserSlot
<1>2. CASE EventLoop BY <1>2, EventSlot
<1>3. CASE EngineCall BY <1>3, SlotCalls
<1>4. CASE Worker BY <1>4, WorkerSlot
<1>5. CASE UNCHANGED vars
  <2>1. Quiet BY <1>5 DEF vars, pointers, run, Quiet, Steady
  <2> QED BY <2>1, SameSlot
<1> QED BY <1>1, <1>2, <1>3, <1>4, <1>5 DEF Next

-----------------------------------------------------------------------------
(* The calls and the signals keep their types.                             *)

(* Every set of numbers has a least one.                                   *)
LEMMA Least ==
    ASSUME NEW some, some \subseteq Nat, some # {}
    PROVE  \E n \in some : \A m \in some : n <= m
<1>1. PICK n \in some : \A y \in some : ~ (<<y, n>> \in OpToRel(<, Nat))
  BY NatLessThanWellFounded, WFMin
<1>2. ASSUME NEW m \in some, m < n PROVE FALSE
  <2>1. <<m, n>> \in OpToRel(<, Nat) BY <1>2 DEF OpToRel
  <2> QED BY <1>1, <2>1
<1>3. \A m \in some : m \in Nat /\ n \in Nat OBVIOUS
<1> QED BY <1>2, <1>3

LEMMA FirstFree ==
    ASSUME present # Slots, present \subseteq Slots
    PROVE  Min(Slots \ present) \in Slots
<1>0. Slots \ present # {} OBVIOUS
<1>1. Slots \ present \subseteq Nat /\ Slots \ present # {} BY <1>0, RackAssumption DEF RackAssumption, Slots
<1>2. \E n \in Slots \ present : \A m \in Slots \ present : n <= m BY <1>1, Least
<1> QED BY <1>2 DEF Min

(* A signal delivered, or one more.                                        *)
LEMMA EventsStay ==
    ASSUME events \in Seq(Events)
    PROVE  /\ events # <<>> => Tail(events) \in Seq(Events) /\ Head(events) \in Events
           /\ \A e \in Events : Append(events, e) \in Seq(Events)
           /\ Event("started", 0, 0) \in Events /\ Event("finished", 0, 0) \in Events
           /\ Event("loaderDone", 0, 0) \in Events
           /\ \A r \in Requests : Event("exchanged", r[1], r[2]) \in Events
<1>1. events # <<>> => Tail(events) \in Seq(Events) /\ Head(events) \in Events OBVIOUS
<1>2. \A e \in Events : Append(events, e) \in Seq(Events) OBVIOUS
<1>3. 0 \in 0 .. NumSlots BY RackAssumption DEF RackAssumption
<1>4. /\ Event("started", 0, 0) \in Events /\ Event("finished", 0, 0) \in Events
      /\ Event("loaderDone", 0, 0) \in Events
  BY <1>3 DEF Event, Events
<1>5. ASSUME NEW r \in Requests PROVE Event("exchanged", r[1], r[2]) \in Events
  <2>1. r[1] \in 1 .. NumSlots /\ r[2] \in 1 .. NumSlots BY RackAssumption DEF RackAssumption
  <2>2. r[1] \in 0 .. NumSlots /\ r[2] \in 0 .. NumSlots /\ r[1] # 0 /\ r[2] # 0
    BY <2>1, RackAssumption DEF RackAssumption
  <2> QED BY <2>2 DEF Event, Events
<1> QED BY <1>1, <1>2, <1>4, <1>5

(* Each part of Kinds by itself.                                           *)
EventKinds == events \in Seq(Events) /\ emulating \in BOOLEAN /\ thread \in BOOLEAN /\ raced \in BOOLEAN
UserKinds  == present \subseteq Slots /\ present # {} /\ session \in [Slots -> OrNone(Disks)]

LEMMA EngineKinds ==
    ASSUME EventKinds, UserKinds, todo \in Seq(Calls), EngineCall
    PROVE  EventKinds' /\ UserKinds'
<1>1. /\ events' = events /\ emulating' = emulating /\ thread' = thread /\ raced' = raced /\ present' = present
  BY DEF EngineCall, TableCall, Disarm, FindLoader, DropLoader, Arm, Armed, EjectImage, HandBack, DropBoot,
         LoadXex, Return, run, user
<1>2. CASE TableCall
  <2>1. Head(todo) \in Calls
    <3>1. todo # <<>> BY Which
    <3> QED BY <3>1
  <2>2. NoDev \in OrNone(Disks) BY DEF OrNone
  <2>3. CASE Running("mount") /\ session' = [session EXCEPT ![This.slot] = This.with]
    <3>1. This.slot \in Slots /\ This.with \in OrNone(Disks) BY <2>1, <2>3 DEF This, Running, Calls, OrNone
    <3> QED BY <1>1, <2>3, <3>1 DEF EventKinds, UserKinds
  <2>4. CASE Running("swap") /\ session' = [session EXCEPT ![This.slot] = session[This.with],
                                                           ![This.with] = session[This.slot]]
    <3>1. This.slot \in Slots /\ This.with \in Slots BY <2>1, <2>4 DEF This, Running, Calls
    <3> QED BY <1>1, <2>4, <3>1 DEF EventKinds, UserKinds
  <2>5. CASE session' = [session EXCEPT ![This.slot] = NoDev] BY <1>1, <2>2, <2>5 DEF EventKinds, UserKinds
  <2>6. CASE session' = session BY <1>1, <2>6 DEF EventKinds, UserKinds
  <2> QED BY <1>2, <2>3, <2>4, <2>5, <2>6 DEF TableCall
<1>3. CASE ~TableCall
  <2>1. session' = session
    BY <1>3 DEF EngineCall, Disarm, FindLoader, DropLoader, Arm, Armed, EjectImage, HandBack, DropBoot, LoadXex, user
  <2> QED BY <1>1, <2>1 DEF EventKinds, UserKinds
<1> QED BY <1>2, <1>3

LEMMA UserKeeps ==
    ASSUME EventKinds, UserKinds, User
    PROVE  EventKinds' /\ UserKinds'
<1>0. NoDev \in OrNone(Disks) BY DEF OrNone
<1>1. raced' \in BOOLEAN
  <2>1. raced' = (raced \/ Exchanging)
    BY DEF User, MountFile, MountBadFile, EjectPressed, CreateDisk, AddSlot, SwapSlots, LoadExecutable,
           LoaderEject, StartEmulation, Acts
  <2> QED BY <2>1
<1>2. emulating' = emulating /\ thread' \in {thread, TRUE}
  BY DEF User, MountFile, MountBadFile, EjectPressed, CreateDisk, AddSlot, SwapSlots, LoadExecutable,
         LoaderEject, StartEmulation, run
<1>3. events' \in {events, Append(events, Event("started", 0, 0))}
  BY DEF User, MountFile, MountBadFile, EjectPressed, CreateDisk, AddSlot, SwapSlots, LoadExecutable,
         LoaderEject, StartEmulation
<1>4. events' \in Seq(Events) BY <1>3, EventsStay DEF EventKinds
<1>5. EventKinds' BY <1>1, <1>2, <1>4 DEF EventKinds
<1>6. UserKinds'
  <2> USE DEF user
  <2>1. CASE \E n \in Slots : MountBadFile(n)
    <3>1. PICK n \in Slots : session' = [session EXCEPT ![n] = NoDev] /\ present' = present
      BY <2>1 DEF MountBadFile
    <3> QED BY <1>0, <3>1 DEF UserKinds
  <2>2. CASE \E n \in Slots : EjectPressed(n)
    <3>1. PICK n \in Slots : /\ session' = session
                             /\ (present' = present \/ (present # {n} /\ present' = present \ {n}))
      BY <2>2 DEF EjectPressed
    <3> QED BY <3>1 DEF UserKinds
  <2>3. CASE AddSlot
    <3>1. session' = session /\ present' = present \cup {Min(Slots \ present)} /\ present # Slots
      BY <2>3 DEF AddSlot
    <3>2. Min(Slots \ present) \in Slots BY <3>1, FirstFree DEF UserKinds
    <3> QED BY <3>1, <3>2 DEF UserKinds
  <2>4. CASE \E n \in Slots : MountFile(n) BY <2>4 DEF MountFile, UserKinds
  <2>5. CASE CreateDisk BY <2>5 DEF CreateDisk, UserKinds
  <2>6. CASE \E a, b \in Slots : SwapSlots(a, b) BY <2>6 DEF SwapSlots, UserKinds
  <2>7. CASE LoadExecutable \/ LoaderEject \/ StartEmulation
    BY <2>7 DEF LoadExecutable, LoaderEject, StartEmulation, UserKinds
  <2> HIDE DEF user
  <2> QED BY <2>1, <2>2, <2>3, <2>4, <2>5, <2>6, <2>7 DEF User
<1> QED BY <1>5, <1>6

LEMMA EventKeeps ==
    ASSUME EventKinds, UserKinds, EventLoop
    PROVE  EventKinds' /\ UserKinds'
<1>1. raced' = raced /\ thread' = thread /\ emulating' \in {emulating, TRUE, FALSE} /\ present' = present
  BY DEF EventLoop, SioStarted, SioFinished, LoaderBooterDone, OnDrivesExchanged, DeferredDelete, Start, run, user
<1>2. events' = events \/ (events # <<>> /\ events' = Tail(events))
  BY DEF EventLoop, SioStarted, SioFinished, LoaderBooterDone, OnDrivesExchanged, DeferredDelete, Deliver
<1>3. events' \in Seq(Events) BY <1>2, EventsStay DEF EventKinds
<1>4. session' \in [Slots -> OrNone(Disks)]
  <2>1. CASE OnDrivesExchanged
    <3> DEFINE a == Head(events).d1 - 1
               b == Head(events).d2 - 1
    <3>1. Head(events) \in Events /\ Head(events).ev = "exchanged"
      BY <2>1, EventsStay DEF OnDrivesExchanged, Deliver, EventKinds
    <3>2. a \in Slots /\ b \in Slots BY <3>1, RackAssumption DEF Events, RackAssumption, Slots
    <3>3. session' = session \/ session' = [session EXCEPT ![a] = session[b], ![b] = session[a]]
      BY <2>1 DEF OnDrivesExchanged
    <3> HIDE DEF a, b
    <3> QED BY <3>2, <3>3 DEF UserKinds
  <2>2. CASE ~OnDrivesExchanged
    <3>1. session' = session
      BY <2>2 DEF EventLoop, SioStarted, SioFinished, LoaderBooterDone, DeferredDelete, user
    <3> QED BY <3>1 DEF UserKinds
  <2> QED BY <2>1, <2>2
<1> QED BY <1>1, <1>3, <1>4 DEF EventKinds, UserKinds

LEMMA WorkerKeeps ==
    ASSUME EventKinds, UserKinds, Worker
    PROVE  EventKinds' /\ UserKinds'
<1>1. raced' = raced /\ thread' \in {thread, FALSE} /\ emulating' = emulating /\ present' = present /\ session' = session
  BY DEF Worker, Exchange, BootDone, ThreadExit, run, user
<1>2. \E e \in Events : events' = Append(events, e)
  BY EventsStay DEF Worker, Exchange, BootDone, ThreadExit, EventKinds
<1> QED BY <1>1, <1>2, EventsStay DEF EventKinds, UserKinds

(* The calls to come are calls, whatever the phase.                        *)
LEMMA SlotTyped == Slot => todo \in Seq(Calls)
<1>1. <<>> \in Seq(Calls) OBVIOUS
<1> QED BY <1>1, SlotPhase DEF Phase, Idle, Coming

LEMMA SlotTypedNext == Slot' => (todo \in Seq(Calls))'
<1>1. (Slot => todo \in Seq(Calls))' BY SlotTyped, PTL
<1> QED BY <1>1

LEMMA KindsStep ==
    ASSUME Kinds, Slot', [Next]_vars
    PROVE  Kinds'
<1>1. EventKinds /\ UserKinds /\ todo \in Seq(Calls) BY DEF Kinds, EventKinds, UserKinds
<1>2. EventKinds' /\ UserKinds'
  <2>1. CASE User BY <1>1, <2>1, UserKeeps
  <2>2. CASE EventLoop BY <1>1, <2>2, EventKeeps
  <2>3. CASE EngineCall BY <1>1, <2>3, EngineKinds
  <2>4. CASE Worker BY <1>1, <2>4, WorkerKeeps
  <2>5. CASE UNCHANGED vars BY <1>1, <2>5 DEF vars, run, user, EventKinds, UserKinds
  <2> QED BY <2>1, <2>2, <2>3, <2>4, <2>5 DEF Next
<1>3. todo' \in Seq(Calls) BY SlotTypedNext
<1> QED BY <1>2, <1>3 DEF Kinds, EventKinds, UserKinds

-----------------------------------------------------------------------------
(* Nothing is loaded while the emulation starts or stops.                  *)

(* A slot that loads no executable; and one made of calls that do not.     *)
Tame(s) == \A i \in DOMAIN s : s[i].fn # "loadXex"
Calm(s) == \E S : s \in Seq(S) /\ \A c \in S : c.fn # "loadXex"

LEMMA CalmTame ==
    ASSUME NEW s, Calm(s)
    PROVE  Tame(s)
<1>1. PICK S : s \in Seq(S) /\ \A c \in S : c.fn # "loadXex" BY DEF Calm
<1>2. \A i \in DOMAIN s : s[i] \in S BY <1>1
<1> QED BY <1>1, <1>2 DEF Tame

LEMMA CalmNone == Calm(<<>>)
<1> DEFINE S == {}
<1>1. <<>> \in Seq(S) /\ \A c \in S : c.fn # "loadXex" OBVIOUS
<1> HIDE DEF S
<1> QED BY <1>1 DEF Calm

LEMMA CalmOne ==
    ASSUME NEW a, a.fn # "loadXex"
    PROVE  Calm(<<a>>)
<1> DEFINE S == {a}
<1>1. <<a>> \in Seq(S) /\ \A c \in S : c.fn # "loadXex" OBVIOUS
<1> HIDE DEF S
<1> QED BY <1>1 DEF Calm

LEMMA CalmJoin ==
    ASSUME NEW s, NEW t, Calm(s), Calm(t)
    PROVE  Calm(s \o t)
<1>1. PICK S : s \in Seq(S) /\ \A c \in S : c.fn # "loadXex" BY DEF Calm
<1>2. PICK U : t \in Seq(U) /\ \A c \in U : c.fn # "loadXex" BY DEF Calm
<1> DEFINE V == S \cup U
<1>3. s \in Seq(V) /\ t \in Seq(V) BY <1>1, <1>2
<1>4. \A c \in V : c.fn # "loadXex" BY <1>1, <1>2
<1> HIDE DEF V
<1>5. s \o t \in Seq(V) BY <1>3
<1> QED BY <1>4, <1>5 DEF Calm

(* The engine's shapes of a slot: an optional call among others.           *)
LEMMA CalmMaybe ==
    ASSUME NEW c, NEW b, b.fn # "loadXex"
    PROVE  Calm(If(c, <<b>>))
BY CalmNone, CalmOne DEF If

LEMMA CalmTwo ==
    ASSUME NEW a, NEW b, a.fn # "loadXex", b.fn # "loadXex"
    PROVE  Calm(<<a, b>>)
<1> DEFINE S == {a, b}
<1>1. <<a, b>> \in Seq(S) /\ \A x \in S : x.fn # "loadXex" OBVIOUS
<1> HIDE DEF S
<1> QED BY <1>1 DEF Calm

LEMMA CalmThree ==
    ASSUME NEW a, NEW b, NEW c, a.fn # "loadXex", b.fn # "loadXex", c.fn # "loadXex"
    PROVE  Calm(<<a, b, c>>)
<1> DEFINE S == {a, b, c}
<1>1. <<a, b, c>> \in Seq(S) /\ \A x \in S : x.fn # "loadXex" OBVIOUS
<1> HIDE DEF S
<1> QED BY <1>1 DEF Calm

LEMMA CalmFour ==
    ASSUME NEW a, NEW b, NEW c, NEW d,
           a.fn # "loadXex", b.fn # "loadXex", c.fn # "loadXex", d.fn # "loadXex"
    PROVE  Calm(<<a, b, c, d>>)
<1> DEFINE S == {a, b, c, d}
<1>1. <<a, b, c, d>> \in Seq(S) /\ \A x \in S : x.fn # "loadXex" OBVIOUS
<1> HIDE DEF S
<1> QED BY <1>1 DEF Calm

(* Calls put in front of the rest load nothing the rest does not load.     *)
LEMMA CalmFirst ==
    ASSUME NEW s, Calm(s), todo \in Seq(Calls), todo # <<>>, todo' = Before(s, Tail(todo)), ~Tame(todo')
    PROVE  Loading
<1>0. PICK S : s \in Seq(S) /\ \A c \in S : c.fn # "loadXex" BY DEF Calm
<1> DEFINE U == S \cup Calls
           t == Tail(todo)
<1>1. /\ s \in Seq(U) /\ t \in Seq(U) /\ Len(t) = Len(todo) - 1
      /\ Len(todo) \in Nat /\ Len(s) \in Nat /\ Len(t) \in Nat
  BY <1>0
<1>2. \A j \in 1 .. Len(t) : t[j] = todo[j + 1] OBVIOUS
<1>3. PICK i \in DOMAIN todo' : todo'[i].fn = "loadXex" BY DEF Tame
<1>4. todo' = s \o t BY DEF Before
<1> HIDE DEF t, U
<1>5. /\ s \o t \in Seq(U) /\ Len(s \o t) = Len(s) + Len(t)
      /\ \A j \in 1 .. Len(s) + Len(t) : (s \o t)[j] = IF j <= Len(s) THEN s[j] ELSE t[j - Len(s)]
  BY <1>1, ConcatProperties
<1>6. i \in 1 .. Len(s) + Len(t) BY <1>3, <1>4, <1>5
<1>7. ~(i <= Len(s))
  <2>1. i <= Len(s) => s[i] \in S BY <1>0, <1>1, <1>6
  <2> QED BY <1>0, <1>3, <1>4, <1>5, <1>6, <2>1
<1>8. i - Len(s) \in 1 .. Len(t) /\ todo'[i] = t[i - Len(s)] BY <1>1, <1>4, <1>5, <1>6, <1>7
<1>9. todo[i - Len(s) + 1].fn = "loadXex" BY <1>2, <1>3, <1>8
<1>10. i - Len(s) + 1 \in DOMAIN todo BY <1>1, <1>8
<1> QED BY <1>9, <1>10 DEF Loading

(* A call of the engine loads what was being loaded already.               *)
LEMMA EngineLoads ==
    ASSUME EngineCall, todo \in Seq(Calls), Loading'
    PROVE  Loading
<1>0. todo # <<>> BY Which
<1>1. CASE LoadXex
  <2>1. todo[1].fn = "loadXex" /\ 1 \in DOMAIN todo BY <1>0, <1>1 DEF LoadXex, Running
  <2> QED BY <2>1 DEF Loading
<1>2. CASE ~LoadXex
  <2>1. autoBoot' # NoDev => autoBoot # NoDev
    BY <1>2 DEF EngineCall, TableCall, Disarm, FindLoader, DropLoader, Arm, Armed, EjectImage, HandBack, DropBoot, pointers
  <2>2. SUFFICES ASSUME ~Tame(todo') PROVE Loading BY <2>1 DEF Loading, Tame
  <2> DEFINE z    == <<>>
             k    == Tail(todo)
             c(f, n, w) == Call(f, n, w)
  <2>3. \A f, n, w : f # "loadXex" => c(f, n, w).fn # "loadXex" BY DEF Call
  <2> HIDE DEF c
  <2>4. \E s : Calm(s) /\ todo' = Before(s, k)
    <3>0. Calm(z) BY CalmNone
    <3>1. CASE TableCall \/ DropLoader \/ Armed \/ DropBoot
      <4>1. todo' = Before(z, k) BY <3>1 DEF TableCall, DropLoader, Armed, DropBoot, Return, Before
      <4> QED BY <3>0, <4>1
    <3>2. CASE Disarm
      <4> DEFINE s == <<c("findLoader", NoSlot, behind[hisio]), c("dropLoader", NoSlot, NoDev)>>
      <4>1. todo' = Before(z, k) \/ todo' = Before(s, k) BY <3>2 DEF Disarm, Return, Before, c
      <4>2. Calm(s) BY <2>3, CalmTwo
      <4> QED BY <3>0, <4>1, <4>2
    <3>3. CASE FindLoader
      <4>1. PICK n : \/ todo' = <<>> \o Tail(todo)
                     \/ todo' = (<<Call("uninstall", n, NoDev)>> \o If(This.with # NoDev, <<Call("install", n, This.with)>>))
                                \o Tail(todo)
        BY <3>3 DEF FindLoader, Return
      <4> DEFINE a == <<c("uninstall", n, NoDev)>>
                 b == If(This.with # NoDev, <<c("install", n, This.with)>>)
                 s == a \o b
      <4>2. todo' = Before(z, k) \/ todo' = Before(s, k) BY <4>1 DEF Before, c
      <4>3. Calm(a) /\ Calm(b) BY <2>3, CalmOne, CalmMaybe
      <4> HIDE DEF a, b
      <4>4. Calm(s) BY <4>3, CalmJoin
      <4> QED BY <3>0, <4>2, <4>4
    <3>4. CASE Arm
      <4>1. PICK o : \/ todo' = <<>> \o Tail(todo)
                     \/ todo' = <<Call("uninstall", 0, NoDev), Call("setDeviceNo", 0, rack.dev[0]),
                                  Call("install", 0, o), Call("armed", 0, o)>> \o Tail(todo)
        BY <3>4 DEF Arm, Return
      <4> DEFINE s == <<c("uninstall", 0, NoDev), c("setDeviceNo", 0, rack.dev[0]), c("install", 0, o), c("armed", 0, o)>>
      <4>2. todo' = Before(z, k) \/ todo' = Before(s, k) BY <4>1 DEF Before, c
      <4>3. Calm(s) BY <2>3, CalmFour
      <4> QED BY <3>0, <4>2, <4>3
    <3>5. CASE EjectImage
      <4>1. PICK n, img : todo' = (<<Call("uninstall", n, NoDev)>> \o If(img # NoDev, <<Call("delete", n, img)>>)) \o Tail(todo)
        BY <3>5 DEF EjectImage, Return
      <4> DEFINE a == <<c("uninstall", n, NoDev)>>
                 b == If(img # NoDev, <<c("delete", n, img)>>)
                 s == a \o b
      <4>2. todo' = Before(s, k) BY <4>1 DEF Before, c
      <4>3. Calm(a) /\ Calm(b) BY <2>3, CalmOne, CalmMaybe
      <4> HIDE DEF a, b
      <4>4. Calm(s) BY <4>3, CalmJoin
      <4> QED BY <4>2, <4>4
    <3>6. CASE HandBack
      <4> DEFINE a == <<c("uninstall", 0, NoDev)>>
                 b == If(autoBootOld # NoDev, <<c("install", 0, autoBootOld)>>)
                 d == <<c("dropBoot", NoSlot, NoDev)>>
                 s == a \o b \o d
      <4>1. todo' = Before(z, k) \/ todo' = Before(s, k) BY <3>6 DEF HandBack, Return, If, Before, c
      <4>2. Calm(a) /\ Calm(b) /\ Calm(d) BY <2>3, CalmOne, CalmMaybe
      <4> HIDE DEF a, b, d
      <4>3. Calm(s) BY <4>2, CalmJoin
      <4> QED BY <3>0, <4>1, <4>3
    <3> QED BY <1>2, <3>1, <3>2, <3>3, <3>4, <3>5, <3>6 DEF EngineCall
  <2> QED BY <1>0, <2>2, <2>4, CalmFirst
<1> QED BY <1>1, <1>2

(* What ejectImage's calls and those after it load: nothing.               *)
LEMMA CalmEject ==
    ASSUME NEW n
    PROVE  Calm(Eject(n))
<1> DEFINE a == Call("disarm", NoSlot, NoDev)
           b == Call("eject", n, NoDev)
           e == If(n = 0, <<a>>)
<1>1. a.fn # "loadXex" /\ b.fn # "loadXex" BY DEF Call
<1>2. Eject(n) = e \o <<b>> BY DEF Eject
<1> HIDE DEF a, b
<1>3. Calm(e) /\ Calm(<<b>>) BY <1>1, CalmMaybe, CalmOne
<1> HIDE DEF e
<1> QED BY <1>2, <1>3, CalmJoin

(* What the user starts, but an executable, loads nothing.                 *)
LEMMA UserLoads ==
    ASSUME User, ~LoadExecutable
    PROVE  Tame(todo') /\ autoBoot' = autoBoot
<1>1. autoBoot' = autoBoot
  BY DEF User, MountFile, MountBadFile, EjectPressed, CreateDisk, AddSlot, SwapSlots, LoaderEject, StartEmulation, pointers
<1>2. Calm(todo')
  <2>1. ASSUME NEW n \in Slots, MountFile(n) PROVE Calm(todo')
    <3>1. PICK d : todo' = Eject(n) \o <<Call("mount", n, d)>> \o If(n = 0, <<Call("arm", NoSlot, NoDev)>>)
      BY <2>1 DEF MountFile, Acts
    <3> DEFINE a == Call("mount", n, d)
               b == Call("arm", NoSlot, NoDev)
               s == <<a>>
               t == If(n = 0, <<b>>)
    <3>2. a.fn # "loadXex" /\ b.fn # "loadXex" BY DEF Call
    <3>3. todo' = Eject(n) \o s \o t BY <3>1
    <3> HIDE DEF a, b
    <3>4. Calm(s) /\ Calm(t) BY <3>2, CalmOne, CalmMaybe
    <3> HIDE DEF s, t
    <3> QED BY <3>3, <3>4, CalmEject, CalmJoin
  <2>2. CASE CreateDisk
    <3>1. PICK n, d : todo' = Eject(n) \o <<Call("install", n, d)>> BY <2>2 DEF CreateDisk, Acts
    <3> DEFINE a == Call("install", n, d)
               s == <<a>>
    <3>2. a.fn # "loadXex" BY DEF Call
    <3>3. todo' = Eject(n) \o s BY <3>1
    <3> HIDE DEF a
    <3>4. Calm(s) BY <3>2, CalmOne
    <3> HIDE DEF s
    <3> QED BY <3>3, <3>4, CalmEject, CalmJoin
  <2>3. ASSUME NEW n \in Slots, EjectPressed(n) PROVE Calm(todo')
    <3>1. todo' = Eject(n) \/ todo' = <<>> BY <2>3 DEF EjectPressed, Acts
    <3> QED BY <3>1, CalmEject, CalmNone
  <2>4. ASSUME NEW a \in Slots, NEW b \in Slots, SwapSlots(a, b) PROVE Calm(todo')
    <3> DEFINE x == Call("disarm", NoSlot, NoDev)
               y == Call("swap", b, a)
               z == Call("arm", NoSlot, NoDev)
    <3>1. todo' = <<x, y, z>> BY <2>4 DEF SwapSlots, Acts
    <3>2. x.fn # "loadXex" /\ y.fn # "loadXex" /\ z.fn # "loadXex" BY DEF Call
    <3> HIDE DEF x, y, z
    <3> QED BY <3>1, <3>2, CalmThree
  <2>5. CASE LoaderEject
    <3> DEFINE x == Call("handBack", NoSlot, NoDev)
    <3>1. todo' = <<x>> BY <2>5 DEF LoaderEject, Acts
    <3>2. x.fn # "loadXex" BY DEF Call
    <3> HIDE DEF x
    <3> QED BY <3>1, <3>2, CalmOne
  <2>6. CASE (\E n \in Slots : MountBadFile(n)) \/ AddSlot \/ StartEmulation
    <3>1. todo' = <<>> BY <2>6 DEF MountBadFile, AddSlot, StartEmulation, Acts
    <3> QED BY <3>1, CalmNone
  <2> QED BY <2>1, <2>2, <2>3, <2>4, <2>5, <2>6 DEF User
<1> QED BY <1>1, <1>2, CalmTame

(* Nor does a signal.                                                      *)
LEMMA EventLoads ==
    ASSUME EventLoop
    PROVE  Tame(todo') /\ autoBoot' = autoBoot
<1>1. autoBoot' = autoBoot
  BY DEF EventLoop, SioStarted, SioFinished, LoaderBooterDone, OnDrivesExchanged, DeferredDelete, pointers
<1>2. PICK f \in {"arm", "disarm", "handBack"} : todo' = <<>> \/ todo' = <<Call(f, NoSlot, NoDev)>>
  BY DEF EventLoop, SioStarted, SioFinished, LoaderBooterDone, OnDrivesExchanged, DeferredDelete, Start
<1> DEFINE a == Call(f, NoSlot, NoDev)
<1>3. a.fn # "loadXex" /\ todo' \in {<<>>, <<a>>} BY <1>2 DEF Call
<1> HIDE DEF a
<1>4. Calm(<<>>) /\ Calm(<<a>>) BY <1>3, CalmNone, CalmOne
<1>5. Tame(<<>>) /\ Tame(<<a>>) BY <1>4, CalmTame
<1> QED BY <1>1, <1>3, <1>5

-----------------------------------------------------------------------------
(* The queue of signals.                                                   *)
LEMMA EventsMove ==
    ASSUME events \in Seq(Events), NEW e \in Events
    PROVE  /\ events' = Append(events, e) =>
                 /\ \A i \in DOMAIN events' : (i \in DOMAIN events /\ events'[i] = events[i]) \/ (i = Len(events) + 1 /\ events'[i] = e)
                 /\ Len(events) + 1 \notin DOMAIN events
           /\ events # <<>> /\ events' = Tail(events) =>
                 /\ \A i \in DOMAIN events' : i + 1 \in DOMAIN events /\ i \in Nat /\ i # 0 /\ events'[i] = events[i + 1]
                 /\ 1 \in DOMAIN events /\ Head(events) = events[1]
<1>1. CASE events' = Append(events, e) BY <1>1
<1>2. CASE events # <<>> /\ events' = Tail(events) BY <1>2
<1>3. events # <<>> /\ events' = Append(events, e) => events' # Tail(events)
  <2>1. Len(Append(events, e)) # Len(Tail(events)) \/ events = <<>> OBVIOUS
  <2> QED BY <2>1
<1> QED BY <1>1, <1>2, <1>3

(* The parts of Queue.                                                     *)
Once      == \A i, j \in DOMAIN events : events[i].ev = "started" /\ events[j].ev = "started" => i = j
Unstarted == \A i \in DOMAIN events : events[i].ev = "started" => ~emulating /\ hisio = NoDev
Free      == Switching => ~Loading

LEMMA EngineQueue ==
    ASSUME Slot, Kinds, Queue, EngineCall
    PROVE  Queue'
<1>1. Once /\ Unstarted /\ Free BY DEF Queue, Once, Unstarted, Free
<1>2. events' = events /\ emulating' = emulating
  BY DEF EngineCall, TableCall, Disarm, FindLoader, DropLoader, Arm, Armed, EjectImage, HandBack, DropBoot, LoadXex, run
<1>3. hisio' # NoDev => hisio' = hisio \/ emulating
  <2>1. CASE Armed
    <3>1. todo # <<>> /\ Head(todo).fn = "armed" BY <2>1 DEF Armed, Running
    <3> QED BY <3>1, SlotPhase DEF Phase, Idle, Coming
  <2>2. CASE ~Armed
    <3>1. hisio' = hisio \/ hisio' = NoDev
      BY <2>2 DEF EngineCall, TableCall, Disarm, FindLoader, DropLoader, Arm, EjectImage, HandBack, DropBoot, LoadXex, pointers
    <3> QED BY <3>1
  <2> QED BY <2>1, <2>2
<1>4. Free'
  <2>1. Switching' = Switching BY <1>2 DEF Switching
  <2>2. Loading' => Loading BY EngineLoads DEF Kinds
  <2> QED BY <1>1, <2>1, <2>2 DEF Free
<1>5. Once' BY <1>1, <1>2 DEF Once
<1>6. Unstarted' BY <1>1, <1>2, <1>3 DEF Unstarted
<1> QED BY <1>4, <1>5, <1>6 DEF Queue, Once, Unstarted, Free

LEMMA UserQueue ==
    ASSUME Undisturbed, Slot, Kinds, Queue, User
    PROVE  Queue'
<1>1. Once /\ Unstarted /\ Free /\ events \in Seq(Events) BY DEF Queue, Once, Unstarted, Free, Kinds
<1>2. emulating' = emulating /\ hisio' = hisio
  BY DEF User, MountFile, MountBadFile, EjectPressed, CreateDisk, AddSlot, SwapSlots, LoadExecutable,
         LoaderEject, StartEmulation, run, pointers
<1>3. CASE StartEmulation
  <2>1. /\ events' = Append(events, Event("started", 0, 0)) /\ todo = <<>> /\ todo' = <<>>
        /\ ~emulating /\ ~Switching /\ D1Free /\ autoBoot' = autoBoot
    BY <1>3 DEF StartEmulation, Acts, pointers
  <2>2. autoBoot = NoDev BY <2>1, Unloaded
  <2>3. hisio = NoDev BY <2>1, Resting DEF Idle, Served
  <2>4. \A i \in DOMAIN events : events[i].ev # "started" BY <2>1 DEF Switching
  <2>5. \A i \in DOMAIN events' : (i \in DOMAIN events /\ events'[i] = events[i]) \/ i = Len(events) + 1
    BY <1>1, <2>1, EventsMove, EventsStay
  <2>6. Once' BY <2>4, <2>5 DEF Once
  <2>7. Unstarted' BY <1>2, <2>1, <2>3 DEF Unstarted
  <2>8. Free' BY <2>1, <2>2 DEF Free, Loading
  <2> QED BY <2>6, <2>7, <2>8 DEF Queue, Once, Unstarted, Free
<1>4. CASE ~StartEmulation
  <2>1. events' = events
    BY <1>4 DEF User, MountFile, MountBadFile, EjectPressed, CreateDisk, AddSlot, SwapSlots, LoadExecutable, LoaderEject
  <2>2. Switching' = Switching BY <2>1 DEF Switching
  <2>3. Free'
    <3>1. CASE LoadExecutable
      <4>1. ~Switching BY <3>1, Unloaded DEF LoadExecutable
      <4> QED BY <2>2, <4>1 DEF Free
    <3>2. CASE ~LoadExecutable
      <4>1. Tame(todo') /\ autoBoot' = autoBoot BY <3>2, UserLoads
      <4>2. Loading' => Loading BY <4>1 DEF Tame, Loading
      <4> QED BY <1>1, <2>2, <4>2 DEF Free
    <3> QED BY <3>1, <3>2
  <2>4. Once' BY <1>1, <2>1 DEF Once
  <2>5. Unstarted' BY <1>1, <1>2, <2>1 DEF Unstarted
  <2> QED BY <2>3, <2>4, <2>5 DEF Queue, Once, Unstarted, Free
<1> QED BY <1>3, <1>4

LEMMA EventQueue ==
    ASSUME Kinds, Queue, EventLoop
    PROVE  Queue'
<1>1. Once /\ Unstarted /\ Free /\ events \in Seq(Events) BY DEF Queue, Once, Unstarted, Free, Kinds
<1>2. hisio' = hisio
  BY DEF EventLoop, SioStarted, SioFinished, LoaderBooterDone, OnDrivesExchanged, DeferredDelete, pointers
<1>3. Loading' => Loading BY EventLoads DEF Tame, Loading
<1>4. CASE DeferredDelete
  <2>1. events' = events /\ emulating' = emulating BY <1>4 DEF DeferredDelete, run
  <2>2. Once' BY <1>1, <2>1 DEF Once
  <2>3. Unstarted' BY <1>1, <1>2, <2>1 DEF Unstarted
  <2>4. Free' BY <1>1, <1>3, <2>1 DEF Free, Switching
  <2> QED BY <2>2, <2>3, <2>4 DEF Queue, Once, Unstarted, Free
<1>5. CASE ~DeferredDelete
  <2>1. events # <<>> /\ events' = Tail(events)
    BY <1>5 DEF EventLoop, SioStarted, SioFinished, LoaderBooterDone, OnDrivesExchanged, Deliver
  <2>2. /\ \A i \in DOMAIN events' : i + 1 \in DOMAIN events /\ i \in Nat /\ i # 0 /\ events'[i] = events[i + 1]
        /\ 1 \in DOMAIN events /\ Head(events) = events[1]
    BY <1>1, <2>1, EventsMove, EventsStay
  <2>3. Once'
    <3> SUFFICES ASSUME NEW i \in DOMAIN events', NEW j \in DOMAIN events',
                        events'[i].ev = "started", events'[j].ev = "started"
                 PROVE  i = j
      BY DEF Once
    <3>1. i + 1 = j + 1 BY <1>1, <2>2 DEF Once
    <3> QED BY <2>2, <3>1
  <2>4. Free'
    <3>1. Switching' => Switching
      <4>1. ASSUME NEW i \in DOMAIN events', events'[i].ev \in {"started", "finished"} PROVE Switching
        BY <2>2, <4>1 DEF Switching
      <4> QED BY <4>1 DEF Switching
    <3> QED BY <1>1, <1>3, <3>1 DEF Free
  <2>5. Unstarted'
    <3> SUFFICES ASSUME NEW i \in DOMAIN events', events'[i].ev = "started" PROVE ~emulating' /\ hisio' = NoDev
      BY DEF Unstarted
    <3>1. i + 1 \in DOMAIN events /\ events[i + 1].ev = "started" /\ i + 1 # 1 BY <2>2
    <3>2. ~emulating /\ hisio = NoDev BY <1>1, <3>1 DEF Unstarted
    <3>3. ~SioStarted
      <4>1. SioStarted => events[1].ev = "started" BY <2>2 DEF SioStarted, Deliver
      <4> QED BY <1>1, <2>2, <3>1, <4>1 DEF Once
    <3>4. ~emulating' BY <1>5, <3>2, <3>3 DEF EventLoop, SioFinished, LoaderBooterDone, OnDrivesExchanged, run
    <3> QED BY <1>2, <3>2, <3>4
  <2> QED BY <2>3, <2>4, <2>5 DEF Queue, Once, Unstarted, Free
<1> QED BY <1>4, <1>5

LEMMA WorkerQueue ==
    ASSUME Undisturbed, Kinds, Queue, Worker
    PROVE  Queue'
<1>1. Once /\ Unstarted /\ Free /\ events \in Seq(Events) BY DEF Queue, Once, Unstarted, Free, Kinds
<1>2. emulating' = emulating /\ hisio' = hisio /\ autoBoot' = autoBoot /\ todo' = todo
  BY DEF Worker, Exchange, BootDone, ThreadExit, run, pointers
<1>3. PICK e \in Events : events' = Append(events, e) /\ e.ev # "started" /\ (e.ev = "finished" => ~Loading)
  <2>1. CASE \E r \in Requests : Exchange(r[1], r[2])
    <3>1. PICK r \in Requests : events' = Append(events, Event("exchanged", r[1], r[2])) BY <2>1 DEF Exchange
    <3>2. Event("exchanged", r[1], r[2]).ev = "exchanged" BY DEF Event
    <3> QED BY <1>1, <3>1, <3>2, EventsStay
  <2>2. CASE BootDone
    <3>1. Event("loaderDone", 0, 0).ev = "loaderDone" BY DEF Event
    <3> QED BY <1>1, <2>2, <3>1, EventsStay DEF BootDone
  <2>3. CASE ThreadExit
    <3>1. Event("finished", 0, 0).ev = "finished" BY DEF Event
    <3>2. ~Loading BY <2>3, Unloaded DEF ThreadExit
    <3> QED BY <1>1, <2>3, <3>1, <3>2, EventsStay DEF ThreadExit
  <2> QED BY <2>1, <2>2, <2>3 DEF Worker
<1>4. \A i \in DOMAIN events' : (i \in DOMAIN events /\ events'[i] = events[i]) \/ (i = Len(events) + 1 /\ events'[i] = e)
  BY <1>1, <1>3, EventsMove
<1>5. Once' BY <1>1, <1>3, <1>4 DEF Once
<1>6. Unstarted' BY <1>1, <1>2, <1>3, <1>4 DEF Unstarted
<1>7. Free'
  <2>1. Loading' = Loading BY <1>2 DEF Loading
  <2>2. Switching' => Switching \/ e.ev = "finished"
    <3>1. ASSUME NEW i \in DOMAIN events', events'[i].ev \in {"started", "finished"}
          PROVE  Switching \/ e.ev = "finished"
      BY <1>3, <1>4, <3>1 DEF Switching
    <3> QED BY <3>1 DEF Switching
  <2> QED BY <1>1, <1>3, <2>1, <2>2 DEF Free
<1> QED BY <1>5, <1>6, <1>7 DEF Queue, Once, Unstarted, Free

LEMMA QueueStep ==
    ASSUME Undisturbed, Slot, Kinds, Queue, [Next]_vars
    PROVE  Queue'
<1>1. CASE User BY <1>1, UserQueue
<1>2. CASE EventLoop BY <1>2, EventQueue
<1>3. CASE EngineCall BY <1>3, EngineQueue
<1>4. CASE Worker BY <1>4, WorkerQueue
<1>5. CASE UNCHANGED vars BY <1>5 DEF vars, pointers, run, Queue, Switching, Loading
<1> QED BY <1>1, <1>2, <1>3, <1>4, <1>5 DEF Next

-----------------------------------------------------------------------------
(* The invariant.                                                          *)
LEMMA RackInit == Init => RackInv /\ T!Init
<1> SUFFICES ASSUME Init PROVE RackInv /\ T!Init OBVIOUS
<1>1. /\ rack = [dev |-> [n \in Slots |-> NoDev], no |-> [o \in Devices |-> NoSlot], live |-> {}]
      /\ T!Init
  BY DEF Init, T!Init
<1>2. rack \in T!Racks BY <1>1 DEF T!Racks
<1>3. Own(rack, {})
  <2>1. T!Sound(rack) BY <1>1 DEF T!Sound
  <2> QED BY <1>1, <1>2, <2>1, OwnIs DEF OrNone
<1>4. Pointers BY <1>1, Nulls DEF Init, Pointers, OrNone
<1>5. Hidden = {} /\ New(NoDev) = {} BY Nulls DEF Init, Hidden, BehindShim, New
<1>6. Rest(NoDev)
  <2>1. Hidden \cup New(NoDev) = {} BY <1>5
  <2>2. rack.dev[0] = NoDev BY <1>1, D1
  <2> QED BY <1>3, <1>4, <1>5, <2>1, <2>2 DEF Rest, Init, AtFront, OrNone
<1>7. Slot BY <1>6 DEF Slot, Idle, Init, Served
<1>8. Kinds
  <2>1. Slots # {} BY D1
  <2>2. session \in [Slots -> OrNone(Disks)] BY DEF Init, OrNone
  <2>3. /\ todo = <<>> /\ events = <<>> /\ present = Slots
        /\ emulating \in BOOLEAN /\ thread \in BOOLEAN /\ raced \in BOOLEAN
    BY DEF Init
  <2>4. <<>> \in Seq(Calls) /\ <<>> \in Seq(Events) OBVIOUS
  <2> QED BY <2>1, <2>2, <2>3, <2>4 DEF Kinds
<1>9. Queue BY DEF Queue, Init, Switching
<1> QED BY <1>1, <1>7, <1>8, <1>9 DEF RackInv

LEMMA RackStep == Undisturbed /\ RackInv /\ [Next]_vars => RackInv' /\ Contract
<1> SUFFICES ASSUME Undisturbed, RackInv, [Next]_vars PROVE RackInv' /\ Contract OBVIOUS
<1>1. Contract /\ Slot' BY SlotStep DEF RackInv
<1>2. Kinds' BY <1>1, KindsStep DEF RackInv
<1>3. Queue' BY QueueStep DEF RackInv
<1> QED BY <1>1, <1>2, <1>3 DEF RackInv

-----------------------------------------------------------------------------
(* What the invariant gives.                                               *)

(* Nothing stands behind a disk.                                           *)
LEMMA BehindDisk == \A d \in OrNone(Disks) : Behind(d) = NoDev
BY Nulls DEF Behind, OrNone

LEMMA Typing == RackInv => TypeOK
<1> SUFFICES ASSUME RackInv PROVE TypeOK OBVIOUS
<1>1. Standing /\ Kinds BY SlotPhase DEF RackInv, Phase
<1>2. T!TypeOK BY <1>1 DEF Standing, Own, T!TypeOK
<1>3. Pointers /\ autoBootOld \in OrNone(Devices) /\ remoteShim \in {hisio, NoDev}
  BY <1>1, PointersFacts DEF Standing
<1>4. remoteShim \in OrNone(Shims) BY <1>3 DEF Pointers, OrNone
<1>5. \A i \in DOMAIN events : events[i].ev \in {"started", "finished", "loaderDone", "exchanged"}
  <2>1. events \in Seq(Events) BY <1>1 DEF Kinds
  <2>2. \A i \in DOMAIN events : events[i] \in Events BY <2>1
  <2> QED BY <2>2 DEF Events
<1>6. \A i \in DOMAIN todo : todo[i].slot \in Slots \cup {NoSlot} /\ todo[i].with \in OrNone(Devices) \cup Slots
  <2>1. todo \in Seq(Calls) BY <1>1 DEF Kinds
  <2>2. \A i \in DOMAIN todo : todo[i] \in Calls BY <2>1
  <2> QED BY <2>2 DEF Calls
<1>7. {emulating, thread, raced} \subseteq BOOLEAN BY <1>1 DEF Kinds
<1>8. /\ behind \in [Loaders -> OrNone(Devices)] /\ hisio \in OrNone(Shims) /\ autoBoot \in OrNone(Boots)
      /\ doomed \subseteq Loaders
  BY <1>3 DEF Pointers
<1>9. /\ present \subseteq Slots /\ present # {}
      /\ session \in [Slots -> OrNone(Disks)]
  BY <1>1 DEF Kinds
<1> QED BY <1>2, <1>3, <1>4, <1>5, <1>6, <1>7, <1>8, <1>9 DEF TypeOK

LEMMA Pointing == RackInv => NoDangling
<1> SUFFICES ASSUME RackInv PROVE NoDangling OBVIOUS
<1>1. Standing BY SlotPhase DEF RackInv, Phase
<1>2. PICK hid : Own(rack, hid) BY <1>1 DEF Standing
<1>3. \A n \in Slots : rack.dev[n] # NoDev => rack.dev[n] \in rack.live BY <1>2, OwnFacts
<1>4. {hisio, remoteShim, autoBootOld} \subseteq rack.live \cup {NoDev}
  BY <1>1 DEF Standing, Pointers, OrNone
<1>5. ASSUME NEW n \in Slots, n # 0 PROVE Chain(n) \subseteq rack.live
  <2>1. rack.dev[n] \in OrNone(Disks) BY <1>2, <1>5, OwnFacts
  <2>2. Behind(rack.dev[n]) = NoDev /\ Behind(NoDev) = NoDev BY <2>1, BehindDisk DEF OrNone
  <2> QED BY <1>3, <2>2 DEF Chain
<1>6. Chain(0) \subseteq rack.live
  <2> DEFINE a == rack.dev[0]
             b == Behind(a)
             c == Behind(b)
  <2>0. Chain(0) = {a, b, c, Behind(c)} \ {NoDev} BY DEF Chain
  <2>1. Behind(NoDev) = NoDev /\ (a = NoDev \/ a \in rack.live) BY <1>3, D1, BehindDisk DEF OrNone
  <2>2. AtD1(a) BY <1>1 DEF Standing
  <2>3. ASSUME b \in Disks PROVE c = NoDev BY <2>3, BehindDisk DEF OrNone
  <2>4. CASE a \in OrNone(Disks)
    <3>1. b = NoDev BY <2>4, BehindDisk
    <3> QED BY <2>0, <2>1, <3>1
  <2>5. CASE a \in Shims /\ behind[a] \in Disks \cap rack.live
    <3>1. b = behind[a] BY <2>5, Nulls DEF Behind
    <3> QED BY <2>0, <2>1, <2>3, <2>5, <3>1
  <2>6. CASE autoBoot # NoDev /\ a = autoBoot
    <3>1. b = autoBootOld BY <1>1, <2>6, Nulls DEF Standing, Pointers, Behind, OrNone
    <3>2. b \in OrNone(rack.live \cap Disks) \cup {hisio} BY <1>1, <3>1 DEF Standing, Pointers
    <3>3. CASE b \in Disks \cap rack.live BY <2>0, <2>1, <2>3, <3>3
    <3>4. CASE b = NoDev BY <2>0, <2>1, <3>4
    <3>5. CASE b = hisio /\ hisio # NoDev
      <4>1. hisio \in Loaders /\ hisio \in rack.live /\ behind[hisio] \in Disks \cap rack.live
        BY <1>1, <3>5, Nulls DEF Standing, Pointers, OrNone
      <4>2. c = behind[hisio] BY <3>5, <4>1 DEF Behind
      <4>3. Behind(c) = NoDev BY <4>1, <4>2, BehindDisk DEF OrNone
      <4> QED BY <2>0, <2>1, <3>5, <4>1, <4>2, <4>3
    <3> QED BY <3>2, <3>3, <3>4, <3>5 DEF OrNone
  <2> QED BY <2>2, <2>4, <2>5, <2>6 DEF AtD1
<1> QED BY <1>4, <1>5, <1>6 DEF NoDangling

(* Between two slots a frame for D1: comes past the loaders to the hidden  *)
(* disks.                                                                  *)
LEMMA Chains ==
    ASSUME Idle
    PROVE  /\ Own(rack, Hidden)
           /\ \A n \in Slots \ {0} : Chain(n) \cap Disks = {rack.dev[n]} \cap Disks
           /\ Chain(0) \cap Disks = ({rack.dev[0]} \cap Disks) \cup Hidden
<1>1. Pointers /\ rack.dev[0] \in AtFront BY DEF Idle, Rest
<1>2. Own(rack, Hidden)
  <2>1. Hidden \cup New(NoDev) = Hidden BY DEF New
  <2> QED BY <2>1 DEF Idle, Rest
<1>3. Behind(NoDev) = NoDev BY BehindDisk DEF OrNone
<1>4. ASSUME NEW n \in Slots \ {0} PROVE Chain(n) \cap Disks = {rack.dev[n]} \cap Disks
  <2>1. rack.dev[n] \in OrNone(Disks) BY <1>2, OwnFacts
  <2>2. Behind(rack.dev[n]) = NoDev BY <2>1, BehindDisk
  <2> QED BY <1>3, <2>2, Nulls DEF Chain
<1>5. Chain(0) \cap Disks = ({rack.dev[0]} \cap Disks) \cup Hidden
  <2> DEFINE a == rack.dev[0]
             b == Behind(a)
             c == Behind(b)
  <2>0. Chain(0) = {a, b, c, Behind(c)} \ {NoDev} BY DEF Chain
  <2>1. hisio # NoDev => /\ hisio \in Loaders /\ hisio \notin Disks /\ Behind(hisio) = behind[hisio]
                         /\ behind[hisio] \in Disks /\ Behind(behind[hisio]) = NoDev
    BY <1>1, Nulls, BehindDisk DEF Pointers, OrNone, Behind
  <2>2. autoBoot # NoDev => /\ autoBoot \notin Disks /\ Behind(autoBoot) = autoBootOld
                            /\ autoBootOld \in OrNone(Disks) \cup {hisio}
                            /\ hisio # NoDev => autoBootOld = hisio
    BY <1>1, Nulls DEF Pointers, OrNone, Behind
  <2>3. autoBoot = NoDev => autoBootOld = NoDev BY <1>1 DEF Pointers
  <2>4. Hidden = (IF hisio = NoDev THEN {} ELSE {behind[hisio]}) \cup ({autoBootOld} \cap Disks)
    BY DEF Hidden, BehindShim
  <2>5. CASE autoBoot # NoDev /\ hisio # NoDev
    <3>1. a = autoBoot /\ b = hisio /\ c = behind[hisio] /\ Behind(c) = NoDev
      BY <1>1, <2>1, <2>2, <2>5 DEF AtFront
    <3>2. Hidden = {behind[hisio]} BY <2>1, <2>2, <2>4, <2>5
    <3> QED BY <2>0, <2>1, <2>2, <2>5, <3>1, <3>2, Nulls
  <2>6. CASE autoBoot # NoDev /\ hisio = NoDev
    <3>1. a = autoBoot /\ b = autoBootOld /\ b \in OrNone(Disks) BY <1>1, <2>2, <2>6 DEF AtFront, OrNone
    <3>2. c = NoDev BY <3>1, BehindDisk
    <3>3. Hidden = {autoBootOld} \cap Disks BY <2>4, <2>6
    <3> QED BY <1>3, <2>0, <2>2, <2>6, <3>1, <3>2, <3>3, Nulls
  <2>7. CASE autoBoot = NoDev /\ hisio # NoDev
    <3>1. a = hisio /\ b = behind[hisio] /\ c = NoDev BY <1>1, <2>1, <2>7 DEF AtFront
    <3>2. Hidden = {behind[hisio]} BY <2>3, <2>4, <2>7, Nulls
    <3> QED BY <1>3, <2>0, <2>1, <2>7, <3>1, <3>2, Nulls
  <2>8. CASE autoBoot = NoDev /\ hisio = NoDev
    <3>1. a \in OrNone(Disks) BY <1>1, <2>8 DEF AtFront
    <3>2. b = NoDev BY <3>1, BehindDisk
    <3>3. Hidden = {} BY <2>3, <2>4, <2>8, Nulls
    <3> QED BY <1>3, <2>0, <3>1, <3>2, <3>3, Nulls
  <2> QED BY <2>5, <2>6, <2>7, <2>8
<1> QED BY <1>2, <1>4, <1>5

LEMMA Keeping == RackInv => NoDiskLost
<1> SUFFICES ASSUME RackInv, todo = <<>>, NEW d \in rack.live \cap Disks
             PROVE  Cardinality({n \in Slots : d \in Chain(n)}) = 1
  BY DEF NoDiskLost
<1>1. Idle BY Resting DEF RackInv
<1>2. /\ Own(rack, Hidden) /\ d # NoDev
      /\ \A n \in Slots \ {0} : d \in Chain(n) <=> d = rack.dev[n]
      /\ d \in Chain(0) <=> (d = rack.dev[0] \/ d \in Hidden)
  <2>1. Own(rack, Hidden) /\ d # NoDev BY <1>1, Chains, Nulls
  <2>2. \A n \in Slots \ {0} : d \in Chain(n) <=> d = rack.dev[n] BY <1>1, Chains
  <2>3. d \in Chain(0) <=> (d = rack.dev[0] \/ d \in Hidden) BY <1>1, Chains
  <2> QED BY <2>1, <2>2, <2>3
<1>3. \E n \in Slots : d \in Chain(n)
  <2>1. d \in Hidden \/ \E n \in Slots : rack.dev[n] = d BY <1>2, OwnFacts
  <2>2. CASE d \in Hidden BY <1>2, <2>2, D1
  <2>3. ASSUME NEW n \in Slots, rack.dev[n] = d PROVE d \in Chain(n)
    <3>1. CASE n = 0 BY <1>2, <2>3, <3>1
    <3>2. CASE n # 0 BY <1>2, <2>3, <3>2
    <3> QED BY <3>1, <3>2
  <2> QED BY <2>1, <2>2, <2>3
<1>4. ASSUME NEW a \in Slots, NEW b \in Slots, d \in Chain(a), d \in Chain(b) PROVE a = b
  <2>1. ASSUME NEW m \in Slots, d \in Chain(m) PROVE d = rack.dev[m] \/ (m = 0 /\ d \in Hidden)
    BY <1>2, <2>1
  <2>2. CASE d \in Hidden
    <3>1. d # rack.dev[a] /\ d # rack.dev[b] BY <1>2, <2>2, OwnFacts
    <3> QED BY <1>4, <2>1, <3>1
  <2>3. CASE d \notin Hidden
    <3>1. d = rack.dev[a] /\ d = rack.dev[b] BY <1>4, <2>1, <2>3
    <3> QED BY <1>2, <3>1, InOneSlot
  <2> QED BY <2>2, <2>3
<1>5. PICK n \in Slots : d \in Chain(n) BY <1>3
<1>6. {m \in Slots : d \in Chain(m)} = {n} BY <1>4, <1>5
<1> QED BY <1>6, FS_Singleton

LEMMA Leaving == RackInv => ShimGone
<1> SUFFICES ASSUME RackInv, AtRest, ~emulating PROVE T!Installed(rack) \cap Shims = {}
  BY DEF ShimGone
<1>1. Idle BY Resting DEF RackInv, AtRest
<1>2. hisio = NoDev BY <1>1 DEF Idle, Served
<1>3. Own(rack, Hidden) BY <1>1, Chains
<1>4. rack.dev[0] \notin Shims
  <2>1. Pointers /\ rack.dev[0] \in AtFront BY <1>1 DEF Idle, Rest
  <2> QED BY <1>2, <2>1, Nulls DEF AtFront, OrNone, Pointers
<1>5. \A n \in Slots \ {0} : rack.dev[n] \notin Shims BY <1>3, OwnFacts, Nulls DEF OrNone
<1> QED BY <1>4, <1>5 DEF T!Installed

LEMMA Armament == RackInv => ArmedAtD1
<1> SUFFICES ASSUME RackInv, todo = <<>>, remoteShim # NoDev PROVE remoteShim \in Chain(0)
  BY DEF ArmedAtD1
<1>1. Idle BY Resting DEF RackInv
<1>2. Pointers /\ rack.dev[0] \in AtFront /\ remoteShim = hisio BY <1>1 DEF Idle, Rest
<1>3. CASE autoBoot = NoDev BY <1>2, <1>3 DEF AtFront, Chain
<1>4. CASE autoBoot # NoDev
  <2>1. rack.dev[0] = autoBoot /\ autoBoot \in Loaders /\ behind[autoBoot] = hisio
    BY <1>2, <1>4, Nulls DEF AtFront, Pointers, OrNone
  <2>2. Behind(rack.dev[0]) = hisio BY <2>1 DEF Behind
  <2> QED BY <1>2, <2>2 DEF Chain
<1> QED BY <1>3, <1>4

-----------------------------------------------------------------------------
(* The session. What it says of a drive is right, or about to be recorded: *)
(* of D1:, when it names a disk that is nowhere else and bound for no      *)
(* other drive, whichever loader stands in front; of another drive, when   *)
(* it names the disk in it. It may name nothing.                           *)
Marking       == {"install", "mount", "delete"}
Records(s, n) == \E c \in Range(s) : c.fn \in {"mount", "delete"} /\ c.slot = n
Sends(s, d)   == \E c \in Range(s) : c.fn \in Marking /\ c.slot \in Slots \ {0} /\ c.with = d
Still(s)      == \A c \in Range(s) : c.fn \notin Marking

Elsewhere(d) == (\E n \in Slots \ {0} : rack.dev[n] = d) \/ Sends(todo, d)
Holds(n, d)  == IF n = 0 THEN d \in rack.live \cap Disks /\ ~Elsewhere(d) ELSE d = rack.dev[n]
Fits(v)      == \A n \in Slots : Records(todo, n) \/ v[n] = NoDev \/ Holds(n, v[n])

(* What an exchange the engine hears of does to the session; the session   *)
(* as it will be, one queued signal after the other.                       *)
Sessions   == [Slots -> OrNone(Disks)]
Hears(e, v) == IF e.ev = "exchanged" THEN [v EXCEPT ![e.d1 - 1] = v[e.d2 - 1], ![e.d2 - 1] = v[e.d1 - 1]] ELSE v
Told == \E s \in [0 .. Len(events) -> Sessions] :
           /\ s[0] = session
           /\ \A i \in 1 .. Len(events) : s[i] = Hears(events[i], s[i - 1])
           /\ Fits(s[Len(events)])

(* The invariant: the session will be right once the engine has heard of   *)
(* every exchange; a slot that writes it runs with none to hear of.        *)
Writers == {"eject", "mount", "delete", "swap"}
Writes  == \E c \in Range(todo) : c.fn \in Writers
Clear   == Writes => ~Exchanging
Visible == \A i \in DOMAIN events : events[i].ev = "exchanged" => {events[i].d1 - 1, events[i].d2 - 1} \subseteq present
SessionInv == ~raced => Clear /\ Visible /\ Told

-----------------------------------------------------------------------------
(* The calls of a sequence.                                                *)
LEMMA CallsOf ==
    ASSUME NEW S
    PROVE  /\ Range(<<>>) = {}
           /\ \A c : Range(<<c>>) = {c}
           /\ \A s \in Seq(S), t \in Seq(S) : Range(s \o t) = Range(s) \cup Range(t)
           /\ \A c \in S, s \in Seq(S) : Range(Do(c, s)) = {c} \cup Range(s)
           /\ \A s \in Seq(S) : Range(s) \subseteq S
           /\ \A s \in Seq(S) : s # <<>> => Tail(s) \in Seq(S) /\ Head(s) \in S /\ Range(s) = {Head(s)} \cup Range(Tail(s))
<1>1. Range(<<>>) = {} BY DEF Range
<1>2. ASSUME NEW c PROVE Range(<<c>>) = {c} BY DEF Range
<1>3. \A s \in Seq(S), t \in Seq(S) : Range(s \o t) = Range(s) \cup Range(t) BY RangeConcatenation
<1>4. ASSUME NEW c \in S, NEW s \in Seq(S) PROVE Range(Do(c, s)) = {c} \cup Range(s)
  <2>1. <<c>> \in Seq(S) OBVIOUS
  <2> QED BY <1>2, <1>3, <2>1 DEF Do
<1>5. \A s \in Seq(S) : Range(s) \subseteq S BY RangeOfSeq
<1>6. ASSUME NEW s \in Seq(S), s # <<>>
      PROVE  Tail(s) \in Seq(S) /\ Head(s) \in S /\ Range(s) = {Head(s)} \cup Range(Tail(s))
  <2>1. Tail(s) \in Seq(S) /\ Head(s) \in S /\ Len(Tail(s)) = Len(s) - 1 /\ Head(s) = s[1] /\ Len(s) \in Nat \ {0}
    BY <1>6
  <2>2. \A i \in 1 .. Len(Tail(s)) : Tail(s)[i] = s[i + 1] BY <1>6, <2>1
  <2>3. Range(s) = {s[i] : i \in 1 .. Len(s)} BY RangeEquality
  <2>4. Range(Tail(s)) = {Tail(s)[i] : i \in 1 .. Len(Tail(s))} BY <2>1, RangeEquality
  <2>5. ASSUME NEW i \in 1 .. Len(s) PROVE i = 1 \/ (i - 1 \in 1 .. Len(Tail(s)) /\ s[i] = Tail(s)[i - 1]) BY <2>1, <2>2
  <2>6. ASSUME NEW i \in 1 .. Len(Tail(s)) PROVE i + 1 \in 1 .. Len(s) /\ s[i + 1] = Tail(s)[i] BY <2>1, <2>2
  <2>7. 1 \in 1 .. Len(s) BY <2>1
  <2>8. Range(s) \subseteq {Head(s)} \cup Range(Tail(s)) BY <2>1, <2>3, <2>4, <2>5
  <2>9. {Head(s)} \cup Range(Tail(s)) \subseteq Range(s) BY <2>1, <2>3, <2>4, <2>6, <2>7
  <2> QED BY <2>1, <2>8, <2>9
<1> QED BY <1>1, <1>2, <1>3, <1>4, <1>5, <1>6

(* What the next call finds.                                               *)
Ready(c, k) ==
    /\ c.fn = "findLoader" => hisio # NoDev /\ c.with \in OrNone(Devices)
    /\ c.fn = "eject" => c.slot \in Slots /\ DiskAt(c.slot) \in OrNone({rack.dev[c.slot]})
    /\ c.fn = "uninstall" => c.slot \in Slots /\ (c.slot = 0 \/ rack.dev[c.slot] = NoDev \/ Records(k, c.slot))
    /\ c.fn \in {"install", "mount"} => c.slot \in Slots /\ c.with \in Devices /\ Vacant(c.slot)
    /\ c.fn = "mount" => c.with \in rack.live \cap Disks /\ (\A n \in Slots : rack.dev[n] # c.with) /\ Still(k)
    /\ c.fn = "delete" => c.with \in rack.live \cap Disks /\ rack.no[c.with] = NoSlot
    /\ c.fn = "swap" => c.slot # c.with /\ Own(rack, {}) /\ rack.dev[0] \in OrNone(Disks) /\ Still(k)
Prepared == todo = <<>> \/ Ready(Head(todo), Tail(todo))

LEMMA Prepares ==
    ASSUME NEW c \in Calls, NEW k \in Seq(Calls), todo = Do(c, k), Ready(c, k)
    PROVE  Prepared
BY DoIs DEF Prepared

(* Calls that find nothing in particular.                                  *)
Plain == {"arm", "armed", "disarm", "dropLoader", "handBack", "dropBoot", "loadXex", "setDeviceNo"}
LEMMA PlainReady == \A c, k : c.fn \in Plain => Ready(c, k)
BY DEF Plain, Ready

LEMMA ArmReady == ArmSlot => Prepared
<1>1. ASSUME ToArm PROVE Prepared
  <2>1. Go("arm") \in Calls /\ <<>> \in Seq(Calls) /\ todo = Do(Go("arm"), <<>>) BY <1>1, Typed, DoOne DEF ToArm
  <2>2. Go("arm").fn \in Plain BY DEF Go, Call, Plain
  <2> QED BY <2>1, <2>2, PlainReady, Prepares
<1>2. ASSUME NEW s \in Shims, NEW d \in Disks PROVE
         /\ InPlace(s, d) => Prepared
         /\ Lifted(s, d) => Prepared
         /\ Numbered(s, d) => Prepared
         /\ Covered(s, d) => Prepared
  <2> DEFINE c0 == Call("uninstall", 0, NoDev)
             c1 == Call("setDeviceNo", 0, d)
             c2 == Call("install", 0, s)
             c3 == Call("armed", 0, s)
             k0 == <<>>
             k1 == <<c3>>
             k2 == Do(c2, k1)
             k3 == Do(c1, k2)
  <2>1. /\ c0 \in Calls /\ c1 \in Calls /\ c2 \in Calls /\ c3 \in Calls
        /\ k0 \in Seq(Calls) /\ k1 \in Seq(Calls) /\ k2 \in Seq(Calls) /\ k3 \in Seq(Calls)
    BY ArmRests, Typed, D1
  <2>2. c1.fn \in Plain /\ c3.fn \in Plain BY DEF Call, Plain
  <2>3. Do(c3, k0) = k1 BY DoOne
  <2>4. /\ InPlace(s, d) => todo = Do(c0, k3)
        /\ Lifted(s, d) => todo = Do(c1, k2)
        /\ Numbered(s, d) => todo = Do(c2, k1) /\ Vacant(0)
        /\ Covered(s, d) => todo = k1
    BY DEF InPlace, Lifted, Numbered, Covered, Vacant
  <2>5. \A k : Ready(c0, k) BY D1 DEF Ready, Call
  <2>6. Vacant(0) => \A k : Ready(c2, k) BY D1, Nulls DEF Ready, Call
  <2> HIDE DEF c0, c1, c2, c3, k0, k1, k2, k3
  <2>7. InPlace(s, d) => Prepared BY <2>1, <2>4, <2>5, Prepares
  <2>8. Lifted(s, d) => Prepared BY <2>1, <2>2, <2>4, PlainReady, Prepares
  <2>9. Numbered(s, d) => Prepared BY <2>1, <2>4, <2>6, Prepares
  <2>10. Covered(s, d) => Prepared BY <2>1, <2>2, <2>3, <2>4, PlainReady, Prepares
  <2> QED BY <2>7, <2>8, <2>9, <2>10
<1> QED BY <1>1, <1>2 DEF ArmSlot

LEMMA DisarmReady == DisarmSlot => Prepared
<1> SUFFICES ASSUME NEW p \in OrNone(Disks), NEW k \in AfterDisarm(p),
                    ToDisarm(p, k) \/ Finding(p, k) \/ Found(p, k) \/ Taken(p, k) \/ Restored(p, k)
             PROVE  Prepared
  BY DEF DisarmSlot
<1>1. CASE ToDisarm(p, k)
  <2>1. todo = Do(Go("disarm"), k) BY <1>1 DEF ToDisarm
  <2>2. k \in Seq(Calls) /\ Go("disarm") \in Calls BY Rests, Typed
  <2>3. Go("disarm").fn \in Plain BY DEF Go, Call, Plain
  <2> QED BY <2>1, <2>2, <2>3, PlainReady, Prepares
<1>2. CASE Finding(p, k) \/ Found(p, k) \/ Taken(p, k) \/ Restored(p, k)
  <2>1. Disarming(p) /\ Pointers /\ hisio # NoDev BY <1>2 DEF Finding, Found, Taken, Restored, Disarming
  <2>2. PICK d \in Disks : d = behind[hisio] BY <2>1, PointersFacts
  <2> DEFINE c1 == Call("findLoader", NoSlot, d)
             c2 == Call("uninstall", 0, NoDev)
             c3 == Call("install", 0, d)
             c4 == Go("dropLoader")
             k4 == Do(c4, k)
             k3 == Do(c3, k4)
  <2>3. /\ c1 \in Calls /\ c2 \in Calls /\ c3 \in Calls /\ c4 \in Calls
        /\ k \in Seq(Calls) /\ k4 \in Seq(Calls) /\ k3 \in Seq(Calls)
    BY DisarmRests
  <2>4. c4.fn \in Plain BY DEF Go, Call, Plain
  <2>5. /\ Finding(p, k) => todo = Do(c1, k4)
        /\ Found(p, k) => todo = Do(c2, k3)
        /\ Taken(p, k) => todo = Do(c3, k4) /\ Vacant(0)
        /\ Restored(p, k) => todo = Do(c4, k)
    BY <2>2 DEF Finding, Found, Taken, Restored, Vacant
  <2>6. (\A j : Ready(c1, j)) /\ \A j : Ready(c2, j) BY <2>1, D1, Nulls DEF Ready, Call, OrNone
  <2>7. Vacant(0) => \A j : Ready(c3, j) BY D1, Nulls DEF Ready, Call
  <2> HIDE DEF c1, c2, c3, c4, k3, k4
  <2>8. Finding(p, k) => Prepared BY <2>3, <2>5, <2>6, Prepares
  <2>9. Found(p, k) => Prepared BY <2>3, <2>5, <2>6, Prepares
  <2>10. Taken(p, k) => Prepared BY <2>3, <2>5, <2>7, Prepares
  <2>11. Restored(p, k) => Prepared BY <2>3, <2>4, <2>5, PlainReady, Prepares
  <2> QED BY <1>2, <2>8, <2>9, <2>10, <2>11
<1> QED BY <1>1, <1>2

LEMMA EjectReady == EjectSlot => Prepared
<1> SUFFICES ASSUME NEW n \in Slots, NEW p \in OrNone(Disks), NEW k \in Puts(n, p),
                    \/ ToEject(n, p, k) \/ Full(n, p, k) \/ Empty(n, p, k) \/ ToPut(n, p, k)
                    \/ \E i \in Disks : Out(n, p, i, k)
             PROVE  Prepared
  BY DEF EjectSlot
<1>1. /\ k \in Seq(Calls)
      /\ Call("uninstall", n, NoDev) \in Calls /\ Call("eject", n, NoDev) \in Calls
      /\ \A d \in Disks : Call("delete", n, d) \in Calls /\ Do(Call("delete", n, d), k) \in Seq(Calls)
  BY PutRests
<1>3. CASE ToEject(n, p, k)
  <2>1. todo = Do(Call("eject", n, NoDev), k) /\ Ejectable(n, p) BY <1>3 DEF ToEject
  <2>2. DiskAt(n) = rack.dev[n] BY <2>1, SlotDisk
  <2>3. Ready(Call("eject", n, NoDev), k) BY <2>2 DEF Ready, Call, OrNone
  <2> QED BY <1>1, <2>1, <2>3, Prepares
<1>4. CASE Full(n, p, k)
  <2>1. Ejectable(n, p) /\ rack.dev[n] # NoDev BY <1>4 DEF Full
  <2>2. PICK i \in Disks : i = rack.dev[n] BY <2>1, SlotDisk DEF OrNone
  <2> DEFINE c == Call("delete", n, i)
             j == Do(c, k)
  <2>3. todo = Do(Call("uninstall", n, NoDev), j) BY <1>4, <2>2 DEF Full
  <2>4. j \in Seq(Calls) /\ c \in Calls BY <1>1
  <2>5. c.fn = "delete" /\ c.slot = n BY DEF Call
  <2> HIDE DEF c
  <2>6. c \in Range(j) BY <1>1, <2>4, CallsOf
  <2> HIDE DEF j
  <2>7. Records(j, n) BY <2>5, <2>6 DEF Records
  <2>8. Ready(Call("uninstall", n, NoDev), j) BY <2>7 DEF Ready, Call
  <2> QED BY <1>1, <2>3, <2>4, <2>8, Prepares
<1>5. CASE Empty(n, p, k)
  <2>1. todo = Do(Call("uninstall", n, NoDev), k) /\ rack.dev[n] = NoDev BY <1>5 DEF Empty
  <2>2. Ready(Call("uninstall", n, NoDev), k) BY <2>1 DEF Ready, Call
  <2> QED BY <1>1, <2>1, <2>2, Prepares
<1>6. CASE ToPut(n, p, k)
  <2> DEFINE e == <<>>
             h == Hidden \cup New(p)
  <2>1. todo = k /\ p # NoDev /\ p \in Disks /\ p \in Devices /\ Own(rack, h) /\ p \in h /\ Vacant(n)
    BY <1>6, Nulls DEF ToPut, Ejectable, OrNone, Rest, New, Vacant
  <2>2. PICK f \in {"install", "mount"}, r \in {e, <<Go("arm")>>} : todo = Do(Call(f, n, p), r)
    <3>1. Do(Call("install", n, p), e) = <<Call("install", n, p)>> BY DoOne
    <3> QED BY <2>1, <3>1 DEF Puts
  <2>3. r \in Seq(Calls)
    <3>1. <<>> \in Seq(Calls) /\ <<Go("arm")>> \in Seq(Calls) BY Typed
    <3> QED BY <2>2, <3>1
  <2>4. Still(r)
    <3>1. Range(<<>>) = {} /\ Range(<<Go("arm")>>) = {Go("arm")} BY CallsOf
    <3>2. Go("arm").fn \notin Marking BY DEF Go, Call, Marking
    <3> QED BY <2>2, <3>1, <3>2 DEF Still
  <2> HIDE DEF e, h
  <2>5. Call(f, n, p) \in Calls
    <3>1. Call("install", n, p) \in Calls /\ Call("mount", n, p) \in Calls BY <2>1, Typed
    <3> QED BY <3>1
  <2>6. p \in rack.live /\ \A m \in Slots : rack.dev[m] # p BY <2>1, OwnFacts
  <2>7. Call(f, n, p).fn \in {"install", "mount"} /\ Call(f, n, p).slot = n /\ Call(f, n, p).with = p BY DEF Call
  <2>8. Ready(Call(f, n, p), r)
    <3> DEFINE c == Call(f, n, p)
    <3> HIDE DEF c
    <3>1. c.fn \in {"install", "mount"} /\ c.slot = n /\ c.with = p BY <2>7 DEF c
    <3>2. Ready(c, r) BY <2>1, <2>4, <2>6, <3>1 DEF Ready
    <3> QED BY <3>2 DEF c
  <2> QED BY <2>2, <2>3, <2>5, <2>8, Prepares
<1>7. ASSUME NEW i \in Disks, Out(n, p, i, k) PROVE Prepared
  <2> DEFINE h == Hidden \cup New(p) \cup {i}
  <2>1. todo = Do(Call("delete", n, i), k) /\ Own(rack, h) /\ i \in h /\ rack.no[i] = NoSlot BY <1>7 DEF Out
  <2> HIDE DEF h
  <2>2. i \in rack.live BY <2>1, OwnFacts
  <2>3. Ready(Call("delete", n, i), k) BY <2>1, <2>2 DEF Ready, Call
  <2> QED BY <1>1, <2>1, <2>3, Prepares
<1> QED BY <1>3, <1>4, <1>5, <1>6, <1>7

LEMMA SwapReady == SwapSlot => Prepared
<1> SUFFICES ASSUME NEW a \in Slots, NEW b \in Slots, a # b, ToSwap(a, b) PROVE Prepared BY DEF SwapSlot
<1> DEFINE k == <<Go("arm")>>
           h == Hidden \cup New(NoDev)
<1>1. todo = Do(Call("swap", b, a), k) /\ Rest(NoDev) /\ Bare BY DEF ToSwap
<1>2. k \in Seq(Calls) /\ Call("swap", b, a) \in Calls BY Typed
<1>3. Still(k)
  <2>1. Range(k) = {Go("arm")} BY CallsOf
  <2>2. Go("arm").fn \notin Marking BY DEF Go, Call, Marking
  <2> QED BY <2>1, <2>2 DEF Still
<1>4. Own(rack, h) /\ Pointers /\ rack.dev[0] \in OrNone(Disks) BY <1>1 DEF Rest, Bare, AtFront
<1>5. h = {} BY <1>1, <1>4, NoneHidden DEF New
<1> HIDE DEF k, h
<1>6. Own(rack, {}) BY <1>4, <1>5
<1>7. Ready(Call("swap", b, a), k) BY <1>3, <1>4, <1>6 DEF Ready, Call
<1> QED BY <1>1, <1>2, <1>7, Prepares

LEMMA BackReady == BackSlot => Prepared
<1> SUFFICES ASSUME NEW k \in AfterBack, ToHandBack(k) \/ Booting(k) \/ Between(k) \/ Returned(k) PROVE Prepared
  BY DEF BackSlot
<1>1. CASE ToHandBack(k)
  <2>1. todo = Do(Go("handBack"), k) BY <1>1 DEF ToHandBack
  <2>2. k \in Seq(Calls) /\ Go("handBack") \in Calls BY BackRests
  <2>3. Go("handBack").fn \in Plain BY DEF Go, Call, Plain
  <2> QED BY <2>1, <2>2, <2>3, PlainReady, Prepares
<1>2. CASE Booting(k) \/ Between(k) \/ Returned(k)
  <2>1. Loaded /\ Pointers BY <1>2 DEF Booting, Between, Returned, Loaded
  <2>2. PICK o \in OrNone(Devices) : o = autoBootOld BY <2>1, PointersFacts
  <2> DEFINE c1 == Call("uninstall", 0, NoDev)
             c2 == Call("install", 0, o)
             c3 == Go("dropBoot")
             k3 == Do(c3, k)
             k2 == Do(c2, k3)
  <2>3. /\ c1 \in Calls /\ c3 \in Calls /\ k \in Seq(Calls) /\ k3 \in Seq(Calls)
        /\ o # NoDev => c2 \in Calls /\ k2 \in Seq(Calls)
    BY BackRests DEF OrNone
  <2>4. c3.fn \in Plain BY DEF Call, Go, Plain
  <2>5. /\ Booting(k) => todo = Do(c1, IF o = NoDev THEN k3 ELSE k2)
        /\ Between(k) => todo = Do(c2, k3) /\ o # NoDev /\ Vacant(0)
        /\ Returned(k) => todo = Do(c3, k)
    BY <2>2 DEF Booting, Between, Returned, Vacant
  <2>6. \A j : Ready(c1, j) BY D1 DEF Ready, Call
  <2>7. Vacant(0) /\ o # NoDev => \A j : Ready(c2, j) BY D1 DEF Ready, Call, OrNone
  <2> HIDE DEF c1, c2, c3, k2, k3
  <2>8. Booting(k) => Prepared BY <2>3, <2>5, <2>6, Prepares
  <2>9. Between(k) => Prepared BY <2>3, <2>5, <2>7, Prepares
  <2>10. Returned(k) => Prepared BY <2>3, <2>4, <2>5, PlainReady, Prepares
  <2> QED BY <1>2, <2>8, <2>9, <2>10
<1> QED BY <1>1, <1>2

LEMMA LoadReady == LoadSlot => Prepared
<1>1. ASSUME ToLoad PROVE Prepared
  <2>1. Go("loadXex") \in Calls /\ <<>> \in Seq(Calls) /\ todo = Do(Go("loadXex"), <<>>) BY <1>1, Typed, DoOne DEF ToLoad
  <2>2. Go("loadXex").fn \in Plain BY DEF Go, Call, Plain
  <2> QED BY <2>1, <2>2, PlainReady, Prepares
<1>2. ASSUME Aside \/ Alone PROVE Prepared
  <2>1. Loaded /\ Pointers /\ autoBoot # NoDev BY <1>2 DEF Aside, Alone, Loaded
  <2>2. PICK b \in Boots : b = autoBoot BY <2>1, PointersFacts
  <2> DEFINE c1 == Call("uninstall", 0, NoDev)
             c2 == Call("install", 0, b)
             k2 == <<c2>>
             e == <<>>
  <2>3. c1 \in Calls /\ c2 \in Calls /\ k2 \in Seq(Calls) /\ e \in Seq(Calls) BY Typed, D1, Nulls
  <2>4. Do(c2, e) = k2 BY DoOne
  <2>5. /\ Aside => todo = Do(c1, k2)
        /\ Alone => todo = k2 /\ Vacant(0)
    BY <2>2 DEF Aside, Alone, Vacant
  <2>6. \A j : Ready(c1, j) BY D1 DEF Ready, Call
  <2>7. Vacant(0) => \A j : Ready(c2, j) BY D1, Nulls DEF Ready, Call
  <2> HIDE DEF c1, c2, k2, e
  <2>8. Aside => Prepared BY <2>3, <2>5, <2>6, Prepares
  <2>9. Alone => Prepared BY <2>3, <2>4, <2>5, <2>7, Prepares
  <2> QED BY <1>2, <2>8, <2>9
<1> QED BY <1>1, <1>2 DEF LoadSlot

LEMMA SlotReady == Slot => Prepared
BY ArmReady, DisarmReady, EjectReady, SwapReady, BackReady, LoadReady DEF Slot, Idle, Prepared

-----------------------------------------------------------------------------
(* The engine's calls, and the session.                                    *)

(* A call the engine may add without the session noticing: about D1:, or   *)
(* about a disk that was elsewhere anyway; only an eject adds a delete.    *)
Fair == {c \in Calls : /\ c.fn \in Marking => c.slot = 0 \/ Elsewhere(c.with)
                       /\ c.fn \in Writers => Head(todo).fn = "eject"}

(* What each call puts in its place.                                       *)
LEMMA CallsMade ==
    ASSUME Slot, EngineCall
    PROVE  \E calls \in Seq(Fair) : todo' = calls \o Tail(todo)
<1>0. todo # <<>> /\ Head(todo).fn \in Functions BY Which
<1>1. Ready(Head(todo), Tail(todo)) /\ Standing BY <1>0, SlotReady, SlotPhase DEF Prepared, Phase
<1>2. PICK hid : Own(rack, hid) /\ Pointers BY <1>1 DEF Standing
<1>3. /\ rack.dev \in [Slots -> OrNone(Devices)]
      /\ \A n \in Slots \ {0} : rack.dev[n] \in OrNone(Disks)
      /\ hisio # NoDev => hisio \in Devices /\ hisio \notin Disks /\ behind[hisio] \in Disks /\ behind[hisio] \in Devices
      /\ autoBootOld \in OrNone(Devices)
  BY <1>2, OwnFacts, PointersFacts
<1>4. <<>> \in Seq(Fair) OBVIOUS
<1>5. {Go("dropLoader"), Go("dropBoot"), Call("uninstall", 0, NoDev)} \subseteq Fair
  <2>1. Go("dropLoader") \in Calls /\ Go("dropBoot") \in Calls /\ Call("uninstall", 0, NoDev) \in Calls BY Typed, D1
  <2> QED BY <2>1 DEF Fair, Go, Call, Marking, Writers
<1>6. ASSUME NEW o \in Devices PROVE Call("install", 0, o) \in Fair /\ Call("setDeviceNo", 0, o) \in Fair /\ Call("armed", 0, o) \in Fair
  <2>1. Call("install", 0, o) \in Calls /\ Call("setDeviceNo", 0, o) \in Calls /\ Call("armed", 0, o) \in Calls BY Typed, D1
  <2> QED BY <2>1 DEF Fair, Call, Marking, Writers
<1>7. ASSUME NEW o \in OrNone(Devices)
      PROVE  If(o # NoDev, <<Call("install", 0, o)>>) \in Seq(Fair)
  <2>1. CASE o = NoDev BY <1>4, <2>1 DEF If
  <2>2. CASE o # NoDev
    <3>1. Call("install", 0, o) \in Fair BY <1>6, <2>2 DEF OrNone
    <3>2. <<Call("install", 0, o)>> \in Seq(Fair) BY <3>1
    <3> QED BY <2>2, <3>2 DEF If
  <2> QED BY <2>1, <2>2
<1>8. <<Call("uninstall", 0, NoDev)>> \in Seq(Fair) BY <1>5
<1>9. CASE Return(<<>>) BY <1>4, <1>9 DEF Return
<1>10. CASE Head(todo).fn \in TableFunctions \cup {"dropLoader", "armed", "dropBoot"}
  BY <1>9, <1>10, Which DEF TableCall, DropLoader, Armed, DropBoot
<1>11. CASE Head(todo).fn = "disarm"
  <2>1. Disarm BY <1>11, Which
  <2>2. CASE hisio = NoDev BY <1>9, <2>1, <2>2 DEF Disarm
  <2>3. CASE hisio # NoDev
    <3> DEFINE c1 == Call("findLoader", NoSlot, behind[hisio])
               c2 == Go("dropLoader")
    <3>1. todo' = <<c1, c2>> \o Tail(todo) BY <2>1, <2>3 DEF Disarm, Return, Go
    <3>2. c1 \in Calls BY <1>3, <2>3, Typed DEF OrNone
    <3>3. c1 \in Fair /\ c2 \in Fair BY <1>5, <3>2 DEF Fair, Call, Marking, Writers
    <3> HIDE DEF c1, c2
    <3>4. <<c1, c2>> \in Seq(Fair) BY <3>3
    <3> QED BY <3>1, <3>4
  <2> QED BY <2>2, <2>3
<1>12. CASE Head(todo).fn = "findLoader"
  <2>1. FindLoader /\ hisio # NoDev BY <1>1, <1>12, Which DEF Ready
  <2>2. Head(todo).with \in OrNone(Devices) BY <1>1, <1>12 DEF Ready
  <2>3. CASE \E n \in Slots : /\ rack.dev[n] = hisio
                              /\ Return(<<Call("uninstall", n, NoDev)>>
                                        \o If(This.with # NoDev, <<Call("install", n, This.with)>>))
    <3>1. PICK n \in Slots : /\ rack.dev[n] = hisio
                             /\ Return(<<Call("uninstall", n, NoDev)>>
                                       \o If(This.with # NoDev, <<Call("install", n, This.with)>>))
      BY <2>3
    <3>2. n = 0 BY <1>3, <2>1, <3>1 DEF OrNone
    <3> DEFINE u == <<Call("uninstall", 0, NoDev)>>
               i == If(This.with # NoDev, <<Call("install", 0, This.with)>>)
    <3>3. todo' = (u \o i) \o Tail(todo) BY <3>1, <3>2 DEF Return
    <3>4. u \in Seq(Fair) /\ i \in Seq(Fair) BY <1>7, <1>8, <2>2 DEF This
    <3> HIDE DEF u, i
    <3>5. u \o i \in Seq(Fair) BY <3>4
    <3> QED BY <3>3, <3>5
  <2> QED BY <1>9, <2>1, <2>3 DEF FindLoader
<1>13. CASE Head(todo).fn = "arm"
  <2>1. Arm BY <1>13, Which
  <2>2. ASSUME rack.dev[0] # NoDev, NEW s \in Fresh(Shims),
               Return(<<Call("uninstall", 0, NoDev), Call("setDeviceNo", 0, rack.dev[0]),
                        Call("install", 0, s), Call("armed", 0, s)>>)
        PROVE  \E calls \in Seq(Fair) : todo' = calls \o Tail(todo)
    <3> DEFINE c1 == Call("uninstall", 0, NoDev)
               c2 == Call("setDeviceNo", 0, rack.dev[0])
               c3 == Call("install", 0, s)
               c4 == Call("armed", 0, s)
    <3>1. rack.dev[0] \in Devices /\ s \in Devices BY <1>3, <2>2, D1 DEF OrNone, Fresh, Devices
    <3>2. c1 \in Fair /\ c2 \in Fair /\ c3 \in Fair /\ c4 \in Fair BY <1>5, <1>6, <3>1
    <3>3. todo' = <<c1, c2, c3, c4>> \o Tail(todo) BY <2>2 DEF Return
    <3> HIDE DEF c1, c2, c3, c4
    <3>4. <<c1, c2, c3, c4>> \in Seq(Fair) BY <3>2
    <3> QED BY <3>3, <3>4
  <2> QED BY <1>9, <2>1, <2>2 DEF Arm
<1>14. CASE Head(todo).fn = "eject"
  <2> DEFINE n   == This.slot
             img == DiskAt(n)
             u   == <<Call("uninstall", n, NoDev)>>
             d   == If(img # NoDev, <<Call("delete", n, img)>>)
  <2>1. EjectImage BY <1>14, Which
  <2>2. todo' = (u \o d) \o Tail(todo) BY <2>1 DEF EjectImage, Return
  <2>3. n \in Slots /\ img \in OrNone({rack.dev[n]}) BY <1>1, <1>14 DEF Ready, This
  <2>4. Call("uninstall", n, NoDev) \in Fair
    <3>1. Call("uninstall", n, NoDev) \in Calls BY <2>3, Typed
    <3> QED BY <3>1 DEF Fair, Call, Marking, Writers
  <2>5. u \in Seq(Fair) BY <2>4
  <2>6. d \in Seq(Fair)
    <3>1. CASE img = NoDev BY <1>4, <3>1 DEF If
    <3>2. CASE img # NoDev
      <4>1. img = rack.dev[n] /\ img \in Devices BY <1>3, <2>3, <3>2 DEF OrNone
      <4>2. Call("delete", n, img) \in Calls BY <2>3, <4>1, Typed
      <4>3. n = 0 \/ Elsewhere(img) BY <2>3, <4>1 DEF Elsewhere
      <4> HIDE DEF n, img
      <4>4. Call("delete", n, img) \in Fair BY <1>14, <4>2, <4>3 DEF Fair, Call
      <4>5. <<Call("delete", n, img)>> \in Seq(Fair) BY <4>4
      <4> QED BY <3>2, <4>5 DEF If
    <3> QED BY <3>1, <3>2
  <2> HIDE DEF u, d
  <2>7. u \o d \in Seq(Fair) BY <2>5, <2>6
  <2> QED BY <2>2, <2>7
<1>15. CASE Head(todo).fn = "handBack"
  <2>1. HandBack BY <1>15, Which
  <2>2. CASE autoBoot = NoDev BY <1>9, <2>1, <2>2 DEF HandBack, If
  <2>3. CASE autoBoot # NoDev
    <3> DEFINE u == <<Call("uninstall", 0, NoDev)>>
               i == If(autoBootOld # NoDev, <<Call("install", 0, autoBootOld)>>)
               d == <<Go("dropBoot")>>
    <3>1. todo' = ((u \o i) \o d) \o Tail(todo) BY <2>1, <2>3 DEF HandBack, Return, If, Go
    <3>2. u \in Seq(Fair) /\ i \in Seq(Fair) /\ d \in Seq(Fair) BY <1>3, <1>5, <1>7, <1>8
    <3> HIDE DEF u, i, d
    <3>3. (u \o i) \o d \in Seq(Fair) BY <3>2
    <3> QED BY <3>1, <3>3
  <2> QED BY <2>2, <2>3
<1>16. CASE Head(todo).fn = "loadXex"
  <2>1. LoadXex BY <1>16, Which
  <2>2. ASSUME NEW b \in Fresh(Boots), Return(<<Call("uninstall", 0, NoDev), Call("install", 0, b)>>)
        PROVE  \E calls \in Seq(Fair) : todo' = calls \o Tail(todo)
    <3> DEFINE c1 == Call("uninstall", 0, NoDev)
               c2 == Call("install", 0, b)
    <3>1. b \in Devices BY DEF Fresh, Devices
    <3>2. c1 \in Fair /\ c2 \in Fair BY <1>5, <1>6, <3>1
    <3>3. todo' = <<c1, c2>> \o Tail(todo) BY <2>2 DEF Return
    <3> HIDE DEF c1, c2
    <3>4. <<c1, c2>> \in Seq(Fair) BY <3>2
    <3> QED BY <3>3, <3>4
  <2> QED BY <1>9, <2>1, <2>2 DEF LoadXex
<1> QED BY <1>0, <1>10, <1>11, <1>12, <1>13, <1>14, <1>15, <1>16 DEF Functions, TableFunctions

(* An entry in an empty slot.                                              *)
LEMMA InstallsEmpty ==
    ASSUME rack \in T!Racks, NEW n \in Slots, NEW o \in Devices, rack.dev[n] = NoDev, rack' = T!Install(rack, n, o)
    PROVE  rack'.live = rack.live /\ rack'.dev = [rack.dev EXCEPT ![n] = o]
<1>1. rack \in TP!Racks /\ rack' = TP!Install(rack, n, o) BY SameTable
<1>2. /\ rack' \in TP!Racks /\ rack'.live = rack.live
      /\ rack'.dev = [rack.dev EXCEPT ![n] = o] /\ rack'.no = [rack.no EXCEPT ![o] = n]
  BY <1>1, TableNulls, TP!InstallEmpty
<1> QED BY <1>2

(* What each call that leaves the session alone does to the drives: to     *)
(* another drive than D1:, nothing, but a device taken out of a drive that *)
(* is to be recorded as empty, or put into an empty one.                   *)
Moved(n) == \/ rack'.dev[n] = rack.dev[n]
            \/ rack'.dev[n] = NoDev /\ Records(Tail(todo), n)
            \/ rack.dev[n] = NoDev /\ Sends(todo, rack'.dev[n])

LEMMA Moves ==
    ASSUME Slot, EngineCall, Head(todo).fn \notin {"mount", "delete", "swap"}
    PROVE  /\ session' = session
           /\ rack.live \subseteq rack'.live
           /\ \A n \in Slots \ {0} : Moved(n)
<1>0. todo # <<>> /\ todo \in Seq(Calls) BY Which, SlotTyped
<1>1. Ready(Head(todo), Tail(todo)) /\ Standing BY <1>0, SlotReady, SlotPhase DEF Prepared, Phase
<1>2. rack \in T!Racks /\ rack \in TP!Racks BY <1>1, SameTable DEF Standing, Own
<1>3. rack.dev \in [Slots -> OrNone(Devices)] BY <1>2 DEF T!Racks, OrNone
<1>4. session' = session
  BY DEF EngineCall, TableCall, Disarm, FindLoader, DropLoader, Arm, Armed, EjectImage, HandBack, DropBoot,
         LoadXex, Running, user
<1>5. CASE Head(todo).fn = "uninstall"
  <2> DEFINE m == Head(todo).slot
  <2>1. rack' = T!Uninstall(rack, m) /\ m \in Slots /\ (m = 0 \/ rack.dev[m] = NoDev \/ Records(Tail(todo), m))
    BY <1>1, <1>5, Which DEF TableCall, Running, This, Ready, TableFunctions
  <2> HIDE DEF m
  <2>2. rack'.live = rack.live /\ rack'.dev = [rack.dev EXCEPT ![m] = NoDev]
    BY <1>2, <2>1, TableNulls, SameTable, TP!UninstallFields
  <2>3. rack'.dev[m] = NoDev /\ \A n \in Slots \ {m} : rack'.dev[n] = rack.dev[n] BY <1>3, <2>1, <2>2
  <2> QED BY <1>4, <2>1, <2>2, <2>3 DEF Moved
<1>6. CASE Head(todo).fn = "install"
  <2> DEFINE m == Head(todo).slot
             o == Head(todo).with
  <2>1. rack' = T!Install(rack, m, o) /\ m \in Slots /\ o \in Devices /\ rack.dev[m] = NoDev
    BY <1>1, <1>6, Which DEF TableCall, Running, This, Ready, TableFunctions, Vacant
  <2>2. m # 0 => Sends(todo, o)
    <3>1. Head(todo) \in Range(todo) BY <1>0, CallsOf
    <3> QED BY <1>6, <2>1, <3>1 DEF Sends, Marking
  <2> HIDE DEF m, o
  <2>3. rack'.live = rack.live /\ rack'.dev = [rack.dev EXCEPT ![m] = o]
    BY <1>2, <2>1, InstallsEmpty
  <2>4. rack'.dev[m] = o /\ \A n \in Slots \ {m} : rack'.dev[n] = rack.dev[n] BY <1>3, <2>1, <2>3
  <2> QED BY <1>4, <2>1, <2>2, <2>3, <2>4 DEF Moved
<1>7. CASE rack'.dev = rack.dev /\ rack.live \subseteq rack'.live BY <1>4, <1>7 DEF Moved
<1>8. CASE Head(todo).fn = "setDeviceNo"
  <2>1. rack' = T!SetDeviceNo(rack, Head(todo).with, Head(todo).slot)
    BY <1>8, Which DEF TableCall, Running, This, TableFunctions
  <2>2. rack'.dev = rack.dev /\ rack'.live = rack.live BY <1>2, <2>1 DEF T!SetDeviceNo, T!Racks
  <2> QED BY <1>7, <2>2
<1>9. CASE rack' = rack BY <1>7, <1>9
<1>10. ASSUME NEW o, rack' = T!Allocate(rack, o) PROVE rack'.dev = rack.dev /\ rack.live \subseteq rack'.live
  BY <1>2, <1>10 DEF T!Allocate, T!Racks
<1>11. CASE Head(todo).fn = "arm" BY <1>7, <1>9, <1>10, <1>11, Which DEF Arm
<1>12. CASE Head(todo).fn = "loadXex" BY <1>7, <1>9, <1>10, <1>12, Which DEF LoadXex
<1>13. CASE Head(todo).fn \in {"disarm", "findLoader", "dropLoader", "armed", "eject", "handBack", "dropBoot"}
  BY <1>9, <1>13, Which DEF Disarm, FindLoader, DropLoader, Armed, EjectImage, HandBack, DropBoot
<1> QED BY <1>5, <1>6, <1>8, <1>11, <1>12, <1>13, Which DEF Functions

(* Whatever the session says, it says no less truly after such a call.     *)
LEMMA StillFits ==
    ASSUME Slot, EngineCall, Head(todo).fn \notin {"mount", "delete", "swap"}, NEW v \in Sessions, Fits(v)
    PROVE  Fits(v)'
<1>0. todo # <<>> /\ todo \in Seq(Calls) BY Which, SlotTyped
<1>1. PICK calls \in Seq(Fair) : todo' = calls \o Tail(todo) BY CallsMade
<1>2. /\ Tail(todo) \in Seq(Calls) /\ Range(todo) = {Head(todo)} \cup Range(Tail(todo))
      /\ Range(todo') = Range(calls) \cup Range(Tail(todo)) /\ Range(calls) \subseteq Fair
  <2>1. Tail(todo) \in Seq(Calls) /\ Range(todo) = {Head(todo)} \cup Range(Tail(todo)) BY <1>0, CallsOf
  <2>2. calls \in Seq(Calls)
    <3>1. Fair \subseteq Calls BY DEF Fair
    <3> QED BY <3>1
  <2>3. Range(calls \o Tail(todo)) = Range(calls) \cup Range(Tail(todo))
    <3>1. \A s \in Seq(Calls), t \in Seq(Calls) : Range(s \o t) = Range(s) \cup Range(t) BY RangeConcatenation
    <3> QED BY <2>1, <2>2, <3>1
  <2> QED BY <1>1, <2>1, <2>3, CallsOf
<1>3. rack.live \subseteq rack'.live /\ \A n \in Slots \ {0} : Moved(n) BY Moves
<1>4. \A n \in Slots : Records(todo, n) => Records(todo', n) BY <1>2 DEF Records
<1>5. \A n \in Slots : Records(Tail(todo), n) => Records(todo', n) BY <1>2 DEF Records
<1>6. ASSUME NEW d, Sends(todo', d) PROVE Elsewhere(d)
  <2>1. PICK c \in Range(todo') : c.fn \in Marking /\ c.slot \in Slots \ {0} /\ c.with = d BY <1>6 DEF Sends
  <2>2. CASE c \in Range(calls) BY <1>2, <2>1, <2>2 DEF Fair
  <2>3. CASE c \in Range(Tail(todo)) BY <1>2, <2>1, <2>3 DEF Elsewhere, Sends
  <2> QED BY <1>2, <2>2, <2>3
<1>7. ASSUME NEW d \in Disks, NEW n \in Slots \ {0}, rack'.dev[n] = d PROVE Elsewhere(d)
  <2>1. Moved(n) /\ d # NoDev BY <1>3, Nulls
  <2> QED BY <1>7, <2>1 DEF Moved, Elsewhere
<1>8. \A d \in Disks : Elsewhere(d)' => Elsewhere(d) BY <1>6, <1>7 DEF Elsewhere
<1>9. ASSUME NEW n \in Slots PROVE Records(todo', n) \/ v[n] = NoDev \/ Holds(n, v[n])'
  <2>1. CASE Records(todo, n) BY <1>4, <2>1
  <2>2. CASE v[n] = NoDev BY <2>2
  <2>3. CASE n = 0 /\ Holds(n, v[n]) BY <1>3, <1>8, <2>3 DEF Holds
  <2>4. CASE n # 0 /\ Holds(n, v[n]) /\ v[n] # NoDev
    <3>1. v[n] = rack.dev[n] /\ Moved(n) BY <1>3, <2>4 DEF Holds
    <3>2. rack'.dev[n] = rack.dev[n] \/ Records(Tail(todo), n) BY <2>4, <3>1 DEF Moved
    <3> QED BY <1>5, <2>4, <3>1, <3>2 DEF Holds
  <2> QED BY <2>1, <2>2, <2>3, <2>4 DEF Fits
<1> QED BY <1>9 DEF Fits

(* The image mounted is in its drive, and on record for it.                *)
LEMMA MountFits ==
    ASSUME Slot, EngineCall, Head(todo).fn = "mount", session \in Sessions, Fits(session)
    PROVE  Fits(session)'
<1> PICK m, p, w : m = Head(todo).slot /\ p = Head(todo).with /\ w = session' OBVIOUS
<1>0. todo # <<>> /\ todo \in Seq(Calls) BY Which, SlotTyped
<1>1. Ready(Head(todo), Tail(todo)) /\ Standing BY <1>0, SlotReady, SlotPhase DEF Prepared, Phase
<1>2. rack \in TP!Racks /\ rack.dev \in [Slots -> OrNone(Devices)] BY <1>1, SameTable DEF Standing, Own, T!Racks, OrNone
<1>3. /\ m \in Slots /\ rack.dev[m] = NoDev /\ p \in Devices /\ p \in rack.live \cap Disks
      /\ \A n \in Slots : rack.dev[n] # p
      /\ Still(Tail(todo))
  BY <1>1 DEF Ready, Vacant
<1>4. rack' = T!Install(rack, m, p) /\ w = [session EXCEPT ![m] = p] /\ todo' = <<>> \o Tail(todo)
  BY Which DEF TableCall, Running, This, TableFunctions, Return
<1>5. Head(todo) \in Range(todo) /\ Range(todo) = {Head(todo)} \cup Range(Tail(todo)) /\ todo' = Tail(todo)
  BY <1>0, <1>4, CallsOf
<1>6. m # 0 => Sends(todo, p) BY <1>3, <1>5 DEF Sends, Marking
<1>7. \A n \in Slots \ {m} : ~Records(todo, n) BY <1>3, <1>5 DEF Records, Still, Marking
<1>8. \A d : ~Sends(todo', d) BY <1>3, <1>5 DEF Sends, Still
<1>9. rack'.live = rack.live /\ rack'.dev = [rack.dev EXCEPT ![m] = p]
  <2>1. rack \in T!Racks BY <1>2, SameTable
  <2> QED BY <1>3, <1>4, <2>1, InstallsEmpty
<1>10. rack'.dev[m] = p /\ \A n \in Slots \ {m} : rack'.dev[n] = rack.dev[n] BY <1>2, <1>3, <1>9
<1>11. w[m] = p /\ \A n \in Slots \ {m} : w[n] = session[n] BY <1>3, <1>4 DEF Sessions
<1>12. ASSUME NEW n \in Slots PROVE w[n] = NoDev \/ Holds(n, w[n])'
  <2>1. CASE n = m /\ n # 0 BY <1>10, <1>11, <2>1 DEF Holds
  <2>2. CASE n = m /\ n = 0
    <3>1. ~Elsewhere(p)' BY <1>3, <1>8, <1>10, <2>2 DEF Elsewhere
    <3> QED BY <1>3, <1>9, <1>11, <2>2, <3>1 DEF Holds
  <2>3. CASE n # m /\ n # 0
    <3>1. session[n] = NoDev \/ session[n] = rack.dev[n] BY <1>7, <2>3 DEF Fits, Holds
    <3> QED BY <1>10, <1>11, <2>3, <3>1 DEF Holds
  <2>4. CASE n # m /\ n = 0
    <3> PICK d : d = session[0] OBVIOUS
    <3>1. d = NoDev \/ (d \in rack.live \cap Disks /\ ~Elsewhere(d)) BY <1>7, <2>4 DEF Fits, Holds
    <3>2. ~Elsewhere(d) => ~Elsewhere(d)' BY <1>6, <1>8, <1>10, <2>4 DEF Elsewhere
    <3> QED BY <1>9, <1>11, <2>4, <3>1, <3>2 DEF Holds
  <2> QED BY <2>1, <2>2, <2>3, <2>4
<1>13. w = session' BY <1>4
<1> QED BY <1>12, <1>13 DEF Fits, Holds

(* The image ejected is gone, and off the record.                          *)
LEMMA DeleteFits ==
    ASSUME Slot, EngineCall, Head(todo).fn = "delete", session \in Sessions, Fits(session)
    PROVE  Fits(session)'
<1> PICK m, i, w : m = Head(todo).slot /\ i = Head(todo).with /\ w = session' OBVIOUS
<1>0. todo # <<>> /\ todo \in Seq(Calls) BY Which, SlotTyped
<1>1. Ready(Head(todo), Tail(todo)) /\ Standing BY <1>0, SlotReady, SlotPhase DEF Prepared, Phase
<1>2. rack \in TP!Racks /\ rack.dev \in [Slots -> OrNone(Devices)] BY <1>1, SameTable DEF Standing, Own, T!Racks, OrNone
<1>3. m \in Slots /\ i \in rack.live \cap Disks /\ i \in Devices /\ rack.no[i] = NoSlot
  <2>1. Head(todo) \in Calls BY <1>0
  <2> QED BY <1>1, <2>1, Nulls DEF Ready, Calls
<1>4. rack' = T!Destroy(rack, i) /\ w = [session EXCEPT ![m] = NoDev] /\ todo' = <<>> \o Tail(todo)
  BY Which DEF TableCall, Running, This, TableFunctions, Return
<1>5. Head(todo) \in Range(todo) /\ Range(todo) = {Head(todo)} \cup Range(Tail(todo)) /\ todo' = Tail(todo)
  BY <1>0, <1>4, CallsOf
<1>6. m # 0 => Sends(todo, i) BY <1>3, <1>5 DEF Sends, Marking
<1>7. \A n \in Slots \ {m} : Records(todo, n) => Records(todo', n) BY <1>5 DEF Records
<1>8. \A d : Sends(todo', d) => Sends(todo, d) BY <1>5 DEF Sends
<1>9. rack'.live = rack.live \ {i} /\ rack'.dev = rack.dev
  BY <1>2, <1>3, <1>4, TableNulls, SameTable, TP!DestroyFields
<1>10. w[m] = NoDev /\ \A n \in Slots \ {m} : w[n] = session[n] BY <1>3, <1>4 DEF Sessions
<1>11. \A d : Elsewhere(d)' => Elsewhere(d) BY <1>8, <1>9 DEF Elsewhere
<1>12. ASSUME NEW n \in Slots \ {m} PROVE Records(todo', n) \/ w[n] = NoDev \/ Holds(n, w[n])'
  <2>1. CASE Records(todo, n) BY <1>7, <2>1
  <2>2. CASE session[n] = NoDev BY <1>10, <2>2
  <2>3. CASE n # 0 /\ Holds(n, session[n]) BY <1>9, <1>10, <2>3 DEF Holds
  <2>4. CASE n = 0 /\ Holds(n, session[n])
    <3>1. session[0] # i BY <1>6, <2>4 DEF Holds, Elsewhere
    <3> QED BY <1>9, <1>10, <1>11, <2>4, <3>1 DEF Holds
  <2> QED BY <2>1, <2>2, <2>3, <2>4 DEF Fits
<1>13. w = session' BY <1>4
<1> QED BY <1>10, <1>12, <1>13 DEF Fits, Holds

(* Two drives exchanged, two entries of the session exchanged.             *)
LEMMA ExchangeFits ==
    ASSUME NEW hid, Own(rack, hid), NEW a \in Slots, NEW b \in Slots, a # b, hid = {} \/ (a # 0 /\ b # 0),
           rack'.dev = [rack.dev EXCEPT ![a] = rack.dev[b], ![b] = rack.dev[a]], rack'.live = rack.live,
           Still(todo), Still(todo')
    PROVE  \A v \in Sessions : Fits(v) => Fits([v EXCEPT ![a] = v[b], ![b] = v[a]])'
<1> SUFFICES ASSUME NEW v \in Sessions, Fits(v), NEW w, w = [v EXCEPT ![a] = v[b], ![b] = v[a]]
             PROVE  Fits(w)'
  OBVIOUS
<1>1. rack.dev \in [Slots -> OrNone(Devices)] BY OwnFacts
<1>2. rack'.dev[a] = rack.dev[b] /\ rack'.dev[b] = rack.dev[a] /\ \A n \in Slots \ {a, b} : rack'.dev[n] = rack.dev[n]
  BY <1>1
<1>3. w[a] = v[b] /\ w[b] = v[a] /\ \A n \in Slots \ {a, b} : w[n] = v[n] BY DEF Sessions
<1>4. \A n : ~Records(todo, n) BY DEF Still, Records, Marking
<1>5. \A d : (Elsewhere(d) <=> \E n \in Slots \ {0} : rack.dev[n] = d) /\ (Elsewhere(d)' <=> \E n \in Slots \ {0} : rack'.dev[n] = d)
  BY DEF Still, Elsewhere, Sends
<1>6. \A n \in Slots \ {0} : v[n] = NoDev \/ v[n] = rack.dev[n] BY <1>4 DEF Fits, Holds
<1>7. v[0] = NoDev \/ (v[0] \in rack.live \cap Disks /\ \A n \in Slots \ {0} : rack.dev[n] # v[0])
  BY <1>4, <1>5, D1 DEF Fits, Holds
<1>8. ASSUME hid = {} PROVE v[0] = NoDev \/ v[0] = rack.dev[0]
  <2>1. \A d \in rack.live \cap Disks : \E n \in Slots : rack.dev[n] = d BY <1>8, OwnFacts
  <2> QED BY <1>7, <2>1
(* What the drive that is D1: after the exchange holds.                    *)
<1>9. ASSUME NEW m \in Slots \ {0}, rack'.dev[0] = rack.dev[m], rack'.dev[m] = rack.dev[0],
             \A n \in Slots \ {0, m} : rack'.dev[n] = rack.dev[n]
      PROVE  v[m] = NoDev \/ Holds(0, v[m])'
  <2>1. CASE v[m] # NoDev
    <3>1. v[m] = rack.dev[m] /\ rack.dev[m] # NoDev BY <1>6, <2>1
    <3>2. rack.dev[m] \in rack.live \cap Disks BY <3>1, OwnFacts DEF OrNone
    <3>3. \A n \in Slots : n # m => rack.dev[n] # rack.dev[m] BY <3>1, InOneSlot
    <3>4. \A n \in Slots \ {0} : rack'.dev[n] # rack.dev[m] BY <1>9, <3>3, D1
    <3> QED BY <1>5, <3>1, <3>2, <3>4 DEF Holds
  <2> QED BY <2>1
<1>10. ASSUME NEW n \in Slots PROVE w[n] = NoDev \/ Holds(n, w[n])'
  <2>1. CASE n \notin {a, b} /\ n # 0 BY <1>2, <1>3, <1>6, <2>1 DEF Holds
  <2>2. CASE n \notin {a, b} /\ n = 0
    <3>1. w[0] = v[0] BY <1>3, <2>2
    <3>2. v[0] # NoDev => \A m \in Slots \ {0} : rack'.dev[m] # v[0] BY <1>2, <1>7, <2>2
    <3> QED BY <1>5, <1>7, <2>2, <3>1, <3>2 DEF Holds
  <2>3. CASE n = a
    <3>1. CASE a = 0 BY <1>2, <1>3, <1>9, <2>3, <3>1
    <3>2. CASE a # 0 /\ b = 0 BY <1>2, <1>3, <1>8, <2>3, <3>2 DEF Holds
    <3>3. CASE a # 0 /\ b # 0 BY <1>2, <1>3, <1>6, <2>3, <3>3 DEF Holds
    <3> QED BY <3>1, <3>2, <3>3
  <2>4. CASE n = b
    <3>1. CASE b = 0 BY <1>2, <1>3, <1>9, <2>4, <3>1
    <3>2. CASE b # 0 /\ a = 0 BY <1>2, <1>3, <1>8, <2>4, <3>2 DEF Holds
    <3>3. CASE b # 0 /\ a # 0 BY <1>2, <1>3, <1>6, <2>4, <3>3 DEF Holds
    <3> QED BY <3>1, <3>2, <3>3
  <2> QED BY <2>1, <2>2, <2>3, <2>4
<1> QED BY <1>10 DEF Fits

LEMMA SwapFits ==
    ASSUME Slot, EngineCall, Head(todo).fn = "swap", session \in Sessions, Fits(session)
    PROVE  Fits(session)'
<1> PICK a, b, w : a = Head(todo).slot /\ b = Head(todo).with /\ w = session' OBVIOUS
<1>0. todo # <<>> /\ todo \in Seq(Calls) BY Which, SlotTyped
<1>1. Ready(Head(todo), Tail(todo)) BY <1>0, SlotReady DEF Prepared
<1>2. a \in Slots /\ b \in Slots /\ a # b /\ Own(rack, {}) /\ rack.dev[0] \in OrNone(Disks) /\ Still(Tail(todo))
  <2>1. Head(todo) \in Calls BY <1>0
  <2> QED BY <1>1, <2>1 DEF Ready, Calls
<1>3. /\ rack' = T!Swap(rack, a, b) /\ w = [session EXCEPT ![a] = session[b], ![b] = session[a]]
      /\ todo' = <<>> \o Tail(todo)
  BY Which DEF TableCall, Running, This, TableFunctions, Return
<1>4. Range(todo) = {Head(todo)} \cup Range(Tail(todo)) /\ todo' = Tail(todo) BY <1>0, <1>3, CallsOf
<1>5. Still(todo) /\ Still(todo') BY <1>2, <1>4 DEF Still, Marking
<1>6. /\ rack'.dev = [rack.dev EXCEPT ![a] = rack.dev[b], ![b] = rack.dev[a]] /\ rack'.live = rack.live
  <2>1. PICK hid : hid = {} /\ Own(rack, hid) BY <1>2
  <2> QED BY <1>2, <1>3, <2>1, Swaps, SMTT(60)
<1>8. Fits(w)'
  <2>1. PICK hid : hid = {} /\ Own(rack, hid) BY <1>2
  <2>2. a \in Slots /\ b \in Slots /\ a # b /\ (hid = {} \/ (a # 0 /\ b # 0)) BY <1>2, <2>1
  <2>3. \A v \in Sessions : Fits(v) => Fits([v EXCEPT ![a] = v[b], ![b] = v[a]])' BY <1>5, <1>6, <2>1, <2>2, ExchangeFits
  <2>4. PICK v \in Sessions : v = session /\ Fits(v) OBVIOUS
  <2>5. Fits([v EXCEPT ![a] = v[b], ![b] = v[a]])' BY <2>3, <2>4
  <2>6. w = [v EXCEPT ![a] = v[b], ![b] = v[a]] BY <1>3, <2>4
  <2> QED BY <2>5, <2>6
<1>9. w = session' BY <1>3
<1> QED BY <1>8, <1>9 DEF Fits, Holds

-----------------------------------------------------------------------------
(* What the engine has still to hear of.                                   *)
LEMMA Hearing ==
    ASSUME NEW e \in Events, NEW v \in Sessions
    PROVE  Hears(e, v) \in Sessions /\ (e.ev # "exchanged" => Hears(e, v) = v)
<1>1. CASE e.ev # "exchanged" BY <1>1 DEF Hears
<1>2. CASE e.ev = "exchanged"
  <2>1. PICK a, b : a = e.d1 - 1 /\ b = e.d2 - 1 OBVIOUS
  <2>2. a \in Slots /\ b \in Slots BY <1>2, <2>1, RackAssumption DEF Events, RackAssumption, Slots
  <2>3. v[a] \in OrNone(Disks) /\ v[b] \in OrNone(Disks) BY <2>2 DEF Sessions
  <2>4. [v EXCEPT ![a] = v[b], ![b] = v[a]] \in Sessions BY <2>2, <2>3 DEF Sessions
  <2> QED BY <1>2, <2>1, <2>4 DEF Hears
<1> QED BY <1>1, <1>2

(* With no exchange to hear of, the session is as it will be.              *)
LEMMA Unmoved ==
    ASSUME events \in Seq(Events), session \in Sessions, ~Exchanging
    PROVE  Told <=> Fits(session)
<1>1. Len(events) \in Nat /\ \A i \in 1 .. Len(events) : events[i] \in Events /\ events[i].ev # "exchanged"
  BY DEF Exchanging
<1>2. ASSUME Told PROVE Fits(session)
  <2>1. PICK s \in [0 .. Len(events) -> Sessions] :
           /\ s[0] = session
           /\ \A i \in 1 .. Len(events) : s[i] = Hears(events[i], s[i - 1])
           /\ Fits(s[Len(events)])
    BY <1>2 DEF Told
  <2> DEFINE moved == {i \in 0 .. Len(events) : s[i] # session}
  <2>2. moved = {}
    <3> SUFFICES ASSUME moved # {} PROVE FALSE OBVIOUS
    <3>1. moved \subseteq Nat /\ moved \subseteq 0 .. Len(events) BY <1>1
    <3>2. PICK i \in moved : \A m \in moved : i <= m
      <4> HIDE DEF moved
      <4> QED BY <3>1, Least
    <3>3. i \in 1 .. Len(events) /\ i - 1 \in 0 .. Len(events) /\ ~(i <= i - 1) BY <1>1, <2>1
    <3>4. s[i - 1] = session BY <3>2, <3>3
    <3>5. s[i] = session BY <1>1, <2>1, <3>3, <3>4, Hearing
    <3> QED BY <3>5
  <2>3. Len(events) \in 0 .. Len(events) BY <1>1
  <2>4. s[Len(events)] = session BY <2>2, <2>3
  <2> QED BY <2>1, <2>4
<1>3. ASSUME Fits(session) PROVE Told
  <2> DEFINE s == [i \in 0 .. Len(events) |-> session]
  <2>1. s \in [0 .. Len(events) -> Sessions] OBVIOUS
  <2>2. s[0] = session /\ s[Len(events)] = session BY <1>1
  <2>3. ASSUME NEW i \in 1 .. Len(events) PROVE s[i] = Hears(events[i], s[i - 1])
    <3>1. s[i] = session /\ s[i - 1] = session BY <1>1
    <3> QED BY <1>1, <3>1, Hearing
  <2> HIDE DEF s
  <2> QED BY <1>3, <2>1, <2>2, <2>3 DEF Told
<1> QED BY <1>2, <1>3

LEMMA UnmovedNext == Kinds' /\ ~Exchanging' => (Told' <=> Fits(session)')
<1>1. Kinds /\ ~Exchanging => (Told <=> Fits(session)) BY Unmoved DEF Kinds, Sessions
<1>2. (Kinds /\ ~Exchanging => (Told <=> Fits(session)))' BY <1>1, PTL
<1> QED BY <1>2

(* One more to hear of.                                                    *)
LEMMA ToldOfOneMore ==
    ASSUME events \in Seq(Events), NEW e \in Events, events' = Append(events, e), session' = session, Told,
           \A v \in Sessions : Fits(v) => Fits(Hears(e, v))'
    PROVE  Told'
<1>1. PICK s \in [0 .. Len(events) -> Sessions] :
         /\ s[0] = session
         /\ \A i \in 1 .. Len(events) : s[i] = Hears(events[i], s[i - 1])
         /\ Fits(s[Len(events)])
  BY DEF Told
<1>2. PICK l \in Nat : l = Len(events) OBVIOUS
<1>3. PICK v \in Sessions : v = s[l] BY <1>1, <1>2
<1>4. PICK w \in Sessions : w = Hears(e, v) BY Hearing
<1>5. Fits(w)' BY <1>1, <1>2, <1>3, <1>4
<1>6. Len(events') = l + 1 /\ events'[l + 1] = e /\ \A i \in 1 .. l : events'[i] = events[i] BY <1>2
<1> DEFINE t == [i \in 0 .. l + 1 |-> IF i = l + 1 THEN w ELSE s[i]]
<1>7. t \in [0 .. Len(events') -> Sessions] /\ t[0] = session' BY <1>1, <1>2, <1>6
<1>8. ASSUME NEW i \in 1 .. l + 1 PROVE t[i] = Hears(events'[i], t[i - 1])
  <2>1. CASE i = l + 1
    <3>1. i - 1 = l /\ l # l + 1 /\ l \in 0 .. l + 1 BY <1>2, <2>1
    <3>2. t[i] = w /\ t[i - 1] = v BY <1>3, <2>1, <3>1
    <3> QED BY <1>4, <1>6, <2>1, <3>2
  <2>2. CASE i # l + 1
    <3>1. i \in 1 .. l /\ i - 1 # l + 1 /\ i - 1 \in 0 .. l + 1 /\ i \in 0 .. l + 1 BY <1>2, <2>2
    <3>2. t[i] = s[i] /\ t[i - 1] = s[i - 1] BY <2>2, <3>1
    <3> QED BY <1>1, <1>2, <1>6, <3>1, <3>2
  <2> QED BY <2>1, <2>2
<1>9. t[Len(events')] = w BY <1>2, <1>6
<1> HIDE DEF t
<1> QED BY <1>5, <1>6, <1>7, <1>8, <1>9 DEF Told

(* One heard of.                                                           *)
LEMMA ToldOfOneLess ==
    ASSUME events \in Seq(Events), events # <<>>, events' = Tail(events), session' = Hears(Head(events), session), Told,
           \A v \in Sessions : Fits(v) => Fits(v)'
    PROVE  Told'
<1>1. PICK s \in [0 .. Len(events) -> Sessions] :
         /\ s[0] = session
         /\ \A i \in 1 .. Len(events) : s[i] = Hears(events[i], s[i - 1])
         /\ Fits(s[Len(events)])
  BY DEF Told
<1>2. PICK l \in Nat : Len(events) = l + 1 /\ Len(events') = l /\ \A i \in 1 .. l : events'[i] = events[i + 1]
  <2>1. Len(events) - 1 \in Nat /\ Len(Tail(events)) = Len(events) - 1 OBVIOUS
  <2>2. \A i \in 1 .. Len(Tail(events)) : Tail(events)[i] = events[i + 1] OBVIOUS
  <2>3. PICK k \in Nat : k = Len(events) - 1 BY <2>1
  <2>4. Len(events) = k + 1 /\ Len(events') = k BY <2>1, <2>3
  <2>5. \A i \in 1 .. k : events'[i] = events[i + 1] BY <2>2, <2>4
  <2> QED BY <2>4, <2>5
<1>3. PICK v \in Sessions : v = s[l + 1] /\ Fits(v)
  <2>1. l + 1 \in 0 .. Len(events) BY <1>2
  <2> QED BY <1>1, <1>2, <2>1
<1> DEFINE t == [i \in 0 .. l |-> s[i + 1]]
<1>4. t \in [0 .. Len(events') -> Sessions] BY <1>1, <1>2
<1>5. t[0] = session'
  <2>1. Head(events) = events[1] /\ 1 \in 1 .. Len(events) /\ 1 - 1 = 0 BY <1>2
  <2>2. s[1] = Hears(events[1], s[0]) BY <1>1, <2>1
  <2> QED BY <1>1, <1>2, <2>1, <2>2
<1>6. ASSUME NEW i \in 1 .. l PROVE t[i] = Hears(events'[i], t[i - 1])
  <2>1. i + 1 \in 1 .. Len(events) /\ (i + 1) - 1 = i /\ i \in 0 .. l /\ i - 1 \in 0 .. l /\ (i - 1) + 1 = i BY <1>2
  <2>2. t[i] = s[i + 1] /\ t[i - 1] = s[i] BY <2>1
  <2> QED BY <1>1, <1>2, <2>1, <2>2
<1>7. t[Len(events')] = v BY <1>2, <1>3
<1>8. Fits(v)' BY <1>3
<1> HIDE DEF t
<1> QED BY <1>2, <1>4, <1>5, <1>6, <1>7, <1>8 DEF Told

(* Nothing moved.                                                          *)
LEMMA ToldAsBefore ==
    ASSUME events \in Seq(Events), events' = events, session' = session, Told, \A v \in Sessions : Fits(v) => Fits(v)'
    PROVE  Told'
<1>1. PICK s \in [0 .. Len(events) -> Sessions] :
         /\ s[0] = session
         /\ \A i \in 1 .. Len(events) : s[i] = Hears(events[i], s[i - 1])
         /\ Fits(s[Len(events)])
  BY DEF Told
<1>2. PICK v \in Sessions : v = s[Len(events)] /\ Fits(v)
  <2>1. Len(events) \in 0 .. Len(events) OBVIOUS
  <2> QED BY <1>1, <2>1
<1>3. Fits(v)' BY <1>2
<1>4. s \in [0 .. Len(events') -> Sessions] /\ s[0] = session' /\ s[Len(events')] = v
  BY <1>1, <1>2
<1>5. \A i \in 1 .. Len(events') : s[i] = Hears(events'[i], s[i - 1]) BY <1>1
<1> QED BY <1>3, <1>4, <1>5 DEF Told

(* No disk moved, none on its way to another drive.                        *)
LEMMA SameFits ==
    ASSUME Still(todo), \A d \in rack.live : ~Sends(todo', d), rack'.dev = rack.dev,
           rack.live \cap Disks \subseteq rack'.live
    PROVE  \A v : Fits(v) => Fits(v)'
<1> SUFFICES ASSUME NEW v, Fits(v) PROVE Fits(v)' OBVIOUS
<1>1. \A n : ~Records(todo, n) BY DEF Still, Records, Marking
<1>2. \A d \in rack.live : Elsewhere(d)' => Elsewhere(d) BY DEF Elsewhere
<1>3. ASSUME NEW n \in Slots PROVE v[n] = NoDev \/ Holds(n, v[n])'
  <2>1. v[n] = NoDev \/ Holds(n, v[n]) BY <1>1 DEF Fits
  <2>2. CASE n # 0 BY <2>1, <2>2 DEF Holds
  <2>3. CASE n = 0 BY <1>2, <2>1, <2>3 DEF Holds
  <2> QED BY <2>2, <2>3
<1> QED BY <1>3 DEF Fits

-----------------------------------------------------------------------------
(* The engine's calls.                                                     *)
LEMMA EngineSession ==
    ASSUME Slot, Kinds, Kinds', SessionInv, EngineCall
    PROVE  SessionInv'
<1>0. /\ events' = events /\ raced' = raced /\ present' = present
  BY DEF EngineCall, TableCall, Disarm, FindLoader, DropLoader, Arm, Armed, EjectImage, HandBack, DropBoot,
         LoadXex, Return, run, user
<1> SUFFICES ASSUME ~raced PROVE Clear' /\ Visible' /\ Told' BY <1>0 DEF SessionInv
<1>1. Clear /\ Visible /\ Told /\ events \in Seq(Events) /\ session \in Sessions BY DEF SessionInv, Kinds, Sessions
<1>2. Exchanging' = Exchanging BY <1>0 DEF Exchanging
<1>3. PICK calls \in Seq(Fair) : todo' = calls \o Tail(todo) BY CallsMade
<1>4. /\ Range(todo) = {Head(todo)} \cup Range(Tail(todo))
      /\ Range(todo') = Range(calls) \cup Range(Tail(todo)) /\ Range(calls) \subseteq Fair
  <2>1. todo # <<>> /\ todo \in Seq(Calls) BY Which DEF Kinds
  <2>2. Tail(todo) \in Seq(Calls) /\ Range(todo) = {Head(todo)} \cup Range(Tail(todo)) BY <2>1, CallsOf
  <2>3. calls \in Seq(Calls)
    <3>1. Fair \subseteq Calls BY DEF Fair
    <3> QED BY <3>1
  <2>4. Range(calls \o Tail(todo)) = Range(calls) \cup Range(Tail(todo))
    <3>1. \A s \in Seq(Calls), t \in Seq(Calls) : Range(s \o t) = Range(s) \cup Range(t) BY RangeConcatenation
    <3> QED BY <2>2, <2>3, <3>1
  <2> QED BY <1>3, <2>2, <2>4, CallsOf
<1>5. Clear'
  <2>1. Writes' => Writes
    <3> SUFFICES ASSUME NEW c \in Range(todo'), c.fn \in Writers PROVE Writes BY DEF Writes
    <3>1. CASE c \in Range(calls)
      <4>1. Head(todo).fn = "eject" BY <1>4, <3>1 DEF Fair
      <4> QED BY <1>4, <4>1 DEF Writes, Writers
    <3>2. CASE c \in Range(Tail(todo)) BY <1>4, <3>2 DEF Writes
    <3> QED BY <1>4, <3>1, <3>2
  <2> QED BY <1>1, <1>2, <2>1 DEF Clear
<1>6. Visible' BY <1>0, <1>1 DEF Visible
<1>7. Told'
  <2>1. CASE Head(todo).fn \notin {"mount", "delete", "swap"}
    <3>1. session' = session BY <2>1, Moves
    <3>2. \A v \in Sessions : Fits(v) => Fits(v)' BY <2>1, StillFits
    <3> QED BY <1>0, <1>1, <3>1, <3>2, ToldAsBefore
  <2>2. CASE Head(todo).fn \in {"mount", "delete", "swap"}
    <3>1. ~Exchanging BY <1>1, <1>4, <2>2 DEF Clear, Writes, Writers
    <3>2. Fits(session) BY <1>1, <3>1, Unmoved
    <3>3. Fits(session)' BY <1>1, <2>2, <3>2, MountFits, DeleteFits, SwapFits
    <3>4. ~Exchanging' BY <1>2, <3>1
    <3> QED BY <3>3, <3>4, UnmovedNext
  <2> QED BY <2>1, <2>2
<1> QED BY <1>5, <1>6, <1>7

(* The user. What he starts is about the image just opened, if any.        *)
Brings(d) == {c \in Calls : c.fn \in Marking => c.with = d}

LEMMA BringsEject == ASSUME NEW d, NEW n \in Slots PROVE Eject(n) \in Seq(Brings(d))
<1> DEFINE a == Call("disarm", NoSlot, NoDev)
           b == Call("eject", n, NoDev)
<1>1. a \in Calls /\ b \in Calls BY Typed DEF Go
<1>2. a \in Brings(d) /\ b \in Brings(d) BY <1>1 DEF Brings, Call, Marking
<1>3. Eject(n) = If(n = 0, <<a>>) \o <<b>> BY DEF Eject
<1> HIDE DEF a, b
<1>4. If(n = 0, <<a>>) \in Seq(Brings(d)) BY <1>2 DEF If
<1>5. <<b>> \in Seq(Brings(d)) BY <1>2
<1>6. \A s, t \in Seq(Brings(d)) : s \o t \in Seq(Brings(d)) OBVIOUS
<1> QED BY <1>3, <1>4, <1>5, <1>6

LEMMA UserBrings ==
    ASSUME Standing, UserKinds, User
    PROVE  /\ todo = <<>> /\ rack'.dev = rack.dev /\ rack.live \subseteq rack'.live
           /\ \E d : d \notin rack.live /\ todo' \in Seq(Brings(d))
           /\ \A n \in Slots : session'[n] \in {session[n], NoDev}
<1>1. todo = <<>>
  BY DEF User, MountFile, MountBadFile, EjectPressed, CreateDisk, AddSlot, SwapSlots, LoadExecutable,
         LoaderEject, StartEmulation, Acts
<1>2. rack \in T!Racks /\ NoDev \notin rack.live
  <2>1. PICK hid : Own(rack, hid) BY DEF Standing
  <2> QED BY <2>1, OwnFacts, Nulls DEF Own
<1>3. ASSUME NEW d, rack' = T!Allocate(rack, d) PROVE rack'.dev = rack.dev /\ rack.live \subseteq rack'.live
  BY <1>2, <1>3 DEF T!Allocate, T!Racks
<1>4. <<>> \in Seq(Brings(NoDev)) OBVIOUS
<1>5. CASE \E n \in Slots : MountFile(n)
  <2>1. PICK n \in Slots : MountFile(n) BY <1>5
  <2>2. PICK d \in Fresh(Files) :
           /\ rack' = T!Allocate(rack, d)
           /\ todo' = Eject(n) \o <<Call("mount", n, d)>> \o If(n = 0, <<Call("arm", NoSlot, NoDev)>>)
    BY <2>1 DEF MountFile, Acts
  <2>3. d \in Disks /\ d \notin rack.live BY <2>2 DEF Fresh, Disks
  <2> DEFINE m == Call("mount", n, d)
             a == Call("arm", NoSlot, NoDev)
             s == If(n = 0, <<a>>)
  <2>4. m \in Calls /\ a \in Calls BY <2>3, Typed DEF Go
  <2>5. m \in Brings(d) /\ a \in Brings(d) BY <2>4 DEF Brings, Call, Marking
  <2>6. todo' = (Eject(n) \o <<m>>) \o s BY <2>2
  <2> HIDE DEF m, a
  <2>7. s \in Seq(Brings(d)) /\ <<m>> \in Seq(Brings(d)) BY <2>5 DEF If
  <2> HIDE DEF s
  <2>8. todo' \in Seq(Brings(d)) BY <2>6, <2>7, BringsEject
  <2>9. session' = session BY <2>1 DEF MountFile, user
  <2> QED BY <1>1, <1>3, <2>2, <2>3, <2>8, <2>9
<1>6. CASE CreateDisk
  <2>1. PICK n \in present, d \in Fresh(Untitled) :
           rack' = T!Allocate(rack, d) /\ todo' = Eject(n) \o <<Call("install", n, d)>>
    BY <1>6 DEF CreateDisk, MayChange, Acts
  <2>2. n \in Slots /\ d \in Disks /\ d \in Devices /\ d \notin rack.live BY <2>1, Nulls DEF Fresh, Disks, UserKinds
  <2> DEFINE m == Call("install", n, d)
  <2>3. m \in Calls BY <2>2, Typed
  <2>4. m \in Brings(d) BY <2>3 DEF Brings, Call, Marking
  <2>5. todo' = Eject(n) \o <<m>> BY <2>1
  <2> HIDE DEF m
  <2>6. <<m>> \in Seq(Brings(d)) BY <2>4
  <2>7. todo' \in Seq(Brings(d)) BY <2>2, <2>5, <2>6, BringsEject
  <2>8. session' = session BY <1>6 DEF CreateDisk, user
  <2> QED BY <1>1, <1>3, <2>1, <2>2, <2>7, <2>8
<1>7. ASSUME rack' = rack, todo' \in Seq(Brings(NoDev)), \A n \in Slots : session'[n] \in {session[n], NoDev}
      PROVE  /\ rack'.dev = rack.dev /\ rack.live \subseteq rack'.live
             /\ \E d : d \notin rack.live /\ todo' \in Seq(Brings(d))
             /\ \A n \in Slots : session'[n] \in {session[n], NoDev}
  BY <1>2, <1>7
<1>8. CASE \E n \in Slots : MountBadFile(n)
  <2>1. PICK n \in Slots : session' = [session EXCEPT ![n] = NoDev] /\ rack' = rack /\ todo' = <<>>
    BY <1>8 DEF MountBadFile, Acts
  <2> QED BY <1>1, <1>4, <1>7, <2>1 DEF UserKinds
<1>9. CASE \E n \in Slots : EjectPressed(n)
  <2>1. PICK n \in Slots : session' = session /\ rack' = rack /\ (todo' = Eject(n) \/ todo' = <<>>)
    BY <1>9 DEF EjectPressed, Acts
  <2> QED BY <1>1, <1>4, <1>7, <2>1, BringsEject
<1>10. CASE AddSlot \/ StartEmulation
  <2>1. session' = session /\ rack' = rack /\ todo' = <<>> BY <1>10 DEF AddSlot, StartEmulation, Acts, user
  <2> QED BY <1>1, <1>4, <1>7, <2>1
<1>11. CASE LoaderEject
  <2> DEFINE a == Call("handBack", NoSlot, NoDev)
  <2>1. session' = session /\ rack' = rack /\ todo' = <<a>> BY <1>11 DEF LoaderEject, Acts, user
  <2>2. a \in Calls BY Typed DEF Go
  <2>3. a \in Brings(NoDev) BY <2>2 DEF Brings, Call, Marking
  <2> HIDE DEF a
  <2>4. <<a>> \in Seq(Brings(NoDev)) BY <2>3
  <2> QED BY <1>1, <1>7, <2>1, <2>4
<1>12. CASE LoadExecutable
  <2> DEFINE a == Call("handBack", NoSlot, NoDev)
             b == Call("loadXex", NoSlot, NoDev)
  <2>1. session' = session /\ rack' = rack /\ todo' = <<a, b>> BY <1>12 DEF LoadExecutable, Acts, user
  <2>2. a \in Calls /\ b \in Calls BY Typed DEF Go
  <2>3. a \in Brings(NoDev) /\ b \in Brings(NoDev) BY <2>2 DEF Brings, Call, Marking
  <2> HIDE DEF a, b
  <2>4. <<a, b>> \in Seq(Brings(NoDev)) BY <2>3
  <2> QED BY <1>1, <1>7, <2>1, <2>4
<1>13. CASE \E a, b \in Slots : SwapSlots(a, b)
  <2>1. PICK i \in Slots, j \in Slots : SwapSlots(i, j) BY <1>13
  <2> DEFINE a == Call("disarm", NoSlot, NoDev)
             b == Call("swap", j, i)
             c == Call("arm", NoSlot, NoDev)
  <2>2. session' = session /\ rack' = rack /\ todo' = <<a, b, c>> BY <2>1 DEF SwapSlots, Acts, user
  <2>3. a \in Calls /\ b \in Calls /\ c \in Calls BY Typed DEF Go
  <2>4. a \in Brings(NoDev) /\ b \in Brings(NoDev) /\ c \in Brings(NoDev) BY <2>3 DEF Brings, Call, Marking
  <2> HIDE DEF a, b, c
  <2>5. <<a, b, c>> \in Seq(Brings(NoDev)) BY <2>4
  <2> QED BY <1>1, <1>7, <2>2, <2>5
<1> QED BY <1>5, <1>6, <1>8, <1>9, <1>10, <1>11, <1>12, <1>13 DEF User

LEMMA UserSession ==
    ASSUME Slot, Kinds, Kinds', SessionInv, User
    PROVE  SessionInv'
<1>1. raced' = (raced \/ Exchanging)
  BY DEF User, MountFile, MountBadFile, EjectPressed, CreateDisk, AddSlot, SwapSlots, LoadExecutable,
         LoaderEject, StartEmulation, Acts
<1>2. events' \in {events, Append(events, Event("started", 0, 0))}
  BY DEF User, MountFile, MountBadFile, EjectPressed, CreateDisk, AddSlot, SwapSlots, LoadExecutable,
         LoaderEject, StartEmulation
<1> SUFFICES ASSUME ~raced, ~Exchanging PROVE Clear' /\ Visible' /\ Told' BY <1>1 DEF SessionInv
<1>3. Told /\ events \in Seq(Events) /\ session \in Sessions BY DEF SessionInv, Kinds, Sessions
<1>4. \A i \in DOMAIN events' : events'[i].ev # "exchanged"
  <2>1. CASE events' = events BY <2>1 DEF Exchanging
  <2>2. CASE events' = Append(events, Event("started", 0, 0))
    <3>1. PICK e \in Events : e = Event("started", 0, 0) BY <1>3, EventsStay
    <3>2. e.ev # "exchanged" BY <3>1 DEF Event
    <3>3. \A i \in DOMAIN events' : (i \in DOMAIN events /\ events'[i] = events[i]) \/ (i = Len(events) + 1 /\ events'[i] = e)
      BY <1>3, <2>2, <3>1, EventsMove
    <3> QED BY <3>2, <3>3 DEF Exchanging
  <2> QED BY <1>2, <2>1, <2>2
<1>5. ~Exchanging' BY <1>4 DEF Exchanging
<1>6. Clear' /\ Visible' BY <1>4, <1>5 DEF Clear, Visible
<1>7. Standing BY SlotPhase DEF Phase
<1>8. PICK d : d \notin rack.live /\ todo' \in Seq(Brings(d)) BY <1>7, UserBrings DEF Kinds, UserKinds
<1>9. /\ todo = <<>> /\ rack'.dev = rack.dev /\ rack.live \subseteq rack'.live
      /\ \A n \in Slots : session'[n] \in {session[n], NoDev}
  BY <1>7, UserBrings DEF Kinds, UserKinds
<1>10. Still(todo) BY <1>9, CallsOf DEF Still
<1>11. \A o \in rack.live : ~Sends(todo', o)
  <2>1. Range(todo') \subseteq Brings(d) BY <1>8, RangeOfSeq
  <2> QED BY <1>8, <2>1 DEF Sends, Brings
<1>12. PICK w \in Sessions : w = session' BY DEF Kinds, Sessions
<1>13. Fits(w)
  <2>1. Fits(session) BY <1>3, Unmoved
  <2> QED BY <1>9, <1>12, <2>1 DEF Fits
<1>14. Fits(w)' BY <1>9, <1>10, <1>11, <1>13, SameFits
<1>15. Fits(session)' BY <1>12, <1>14 DEF Fits, Holds
<1>16. Told' BY <1>5, <1>15, UnmovedNext
<1> QED BY <1>6, <1>16

-----------------------------------------------------------------------------
(* The event loop, and the Atari.                                          *)

(* The engine counts the drives up to the highest one present.             *)
LEMMA Highest ==
    ASSUME present \subseteq Slots, NEW n \in present
    PROVE  n < NumDisks
<1> DEFINE below == {NumSlots - x : x \in present}
<1>0. NumSlots \in Nat /\ \A x \in present : x \in Nat /\ x < NumSlots BY RackAssumption DEF RackAssumption, Slots
<1>1. below \subseteq Nat /\ below # {} BY <1>0
<1>2. \A x \in present : NumSlots - x \in below OBVIOUS
<1> HIDE DEF below
<1>3. PICK m \in below : \A y \in below : m <= y BY <1>1, Least
<1>4. PICK x \in present : m = NumSlots - x BY DEF below
<1>5. \A y \in present : x >= y
  <2> SUFFICES ASSUME NEW y \in present PROVE x >= y OBVIOUS
  <2>1. NumSlots - x <= NumSlots - y BY <1>2, <1>3, <1>4
  <2> QED BY <1>0, <2>1
<1>6. Max(present) \in present /\ \A y \in present : Max(present) >= y BY <1>5 DEF Max
<1> QED BY <1>0, <1>6 DEF NumDisks

LEMMA EventSession ==
    ASSUME Slot, Kinds, Queue, SessionInv, EventLoop
    PROVE  SessionInv'
<1>0. /\ present' = present /\ raced' = raced
  BY DEF EventLoop, SioStarted, SioFinished, LoaderBooterDone, OnDrivesExchanged, DeferredDelete, Start, user
<1> SUFFICES ASSUME ~raced PROVE Clear' /\ Visible' /\ Told' BY <1>0 DEF SessionInv
<1>1. Clear /\ Visible /\ Told /\ events \in Seq(Events) /\ session \in Sessions BY DEF SessionInv, Kinds, Sessions
<1>2. todo = <<>> BY EventSlot
<1>3. \A c \in Range(todo') : c.fn \notin Marking /\ c.fn \notin Writers
  <2>1. todo' = <<>> \/ \E f \in {"arm", "disarm", "handBack"} : todo' = <<Call(f, NoSlot, NoDev)>>
    BY <1>2 DEF EventLoop, SioStarted, SioFinished, LoaderBooterDone, OnDrivesExchanged, DeferredDelete, Start
  <2>2. CASE todo' = <<>> BY <2>2, CallsOf
  <2>3. ASSUME NEW f \in {"arm", "disarm", "handBack"}, todo' = <<Call(f, NoSlot, NoDev)>>
        PROVE  \A c \in Range(todo') : c.fn \notin Marking /\ c.fn \notin Writers
    <3>1. PICK x : x = Call(f, NoSlot, NoDev) OBVIOUS
    <3>2. x.fn = f BY <3>1 DEF Call
    <3>3. Range(todo') = {x} BY <2>3, <3>1, CallsOf
    <3> QED BY <3>2, <3>3 DEF Marking, Writers
  <2> QED BY <2>1, <2>2, <2>3
<1>4. Clear' BY <1>3 DEF Clear, Writes
<1>5. rack'.dev = rack.dev /\ rack.live \cap Disks \subseteq rack'.live
  <2>1. CASE DeferredDelete
    <3>1. PICK o \in doomed : rack' = T!Destroy(rack, o) BY <2>1 DEF DeferredDelete
    <3>2. Standing BY SlotPhase DEF Phase
    <3>3. PICK hid : Own(rack, hid) /\ Pointers BY <3>2 DEF Standing
    <3>4. o \in rack.live /\ rack.no[o] = NoSlot /\ o \in Devices /\ o \notin Disks BY <3>3, Nulls DEF Pointers
    <3>5. rack \in TP!Racks /\ rack' = TP!Destroy(rack, o) BY <3>1, <3>3, SameTable DEF Own
    <3>6. rack'.live = rack.live \ {o} /\ rack'.dev = rack.dev BY <3>4, <3>5, TableNulls, TP!DestroyFields
    <3> QED BY <3>4, <3>6
  <2>2. CASE ~DeferredDelete
    <3>1. rack' = rack BY <2>2 DEF EventLoop, SioStarted, SioFinished, LoaderBooterDone, OnDrivesExchanged
    <3> QED BY <3>1
  <2> QED BY <2>1, <2>2
<1>6. \A v \in Sessions : Fits(v) => Fits(v)'
  <2>1. Still(todo) BY <1>2, CallsOf DEF Still
  <2>2. \A d \in rack.live : ~Sends(todo', d) BY <1>3 DEF Sends
  <2> QED BY <1>5, <2>1, <2>2, SameFits
<1>7. CASE DeferredDelete
  <2>1. events' = events /\ session' = session BY <1>7 DEF DeferredDelete, user
  <2>2. Visible' BY <1>0, <1>1, <2>1 DEF Visible
  <2> QED BY <1>1, <1>4, <1>6, <2>1, <2>2, ToldAsBefore
<1>8. CASE ~DeferredDelete
  <2>1. events # <<>> /\ events' = Tail(events)
    BY <1>8 DEF EventLoop, SioStarted, SioFinished, LoaderBooterDone, OnDrivesExchanged, Deliver
  <2>2. /\ \A i \in DOMAIN events' : i + 1 \in DOMAIN events /\ i \in Nat /\ i # 0 /\ events'[i] = events[i + 1]
        /\ 1 \in DOMAIN events /\ Head(events) = events[1]
    BY <1>1, <2>1, EventsMove, EventsStay
  <2>3. Visible' BY <1>0, <1>1, <2>2 DEF Visible
  <2>4. session' = Hears(Head(events), session)
    <3>1. CASE OnDrivesExchanged
      <4>1. PICK a, b : a = Head(events).d1 - 1 /\ b = Head(events).d2 - 1 OBVIOUS
      <4>2. Head(events).ev = "exchanged" BY <3>1 DEF OnDrivesExchanged, Deliver
      <4>3. a \in present /\ b \in present BY <1>1, <2>2, <4>1, <4>2 DEF Visible
      <4>4. a < NumDisks /\ b < NumDisks BY <4>3, Highest DEF Kinds
      <4>5. session' = [session EXCEPT ![a] = session[b], ![b] = session[a]]
        BY <3>1, <4>1, <4>4 DEF OnDrivesExchanged
      <4> QED BY <4>1, <4>2, <4>5 DEF Hears
    <3>2. CASE ~OnDrivesExchanged
      <4>1. session' = session /\ Head(events).ev # "exchanged"
        BY <1>8, <3>2 DEF EventLoop, SioStarted, SioFinished, LoaderBooterDone, Deliver, user
      <4> QED BY <4>1 DEF Hears
    <3> QED BY <3>1, <3>2
  <2> QED BY <1>1, <1>4, <1>6, <2>1, <2>3, <2>4, ToldOfOneLess
<1> QED BY <1>7, <1>8

LEMMA WorkerSession ==
    ASSUME Undisturbed, "hidden" \notin May, Slot, Kinds, SessionInv, Worker
    PROVE  SessionInv'
<1>0. present' = present /\ raced' = raced /\ todo' = todo /\ session' = session
  BY DEF Worker, Exchange, BootDone, ThreadExit, user
<1> SUFFICES ASSUME ~raced PROVE Clear' /\ Visible' /\ Told' BY <1>0 DEF SessionInv
<1>1. Clear /\ Visible /\ Told /\ events \in Seq(Events) /\ session \in Sessions BY DEF SessionInv, Kinds, Sessions
<1>2. CASE BootDone \/ ThreadExit
  <2>1. PICK e \in Events : events' = Append(events, e) /\ e.ev # "exchanged"
    <3>1. PICK x \in Events, y \in Events : x = Event("loaderDone", 0, 0) /\ y = Event("finished", 0, 0) BY <1>1, EventsStay
    <3>2. x.ev # "exchanged" /\ y.ev # "exchanged" BY <3>1 DEF Event
    <3> QED BY <1>2, <3>1, <3>2 DEF BootDone, ThreadExit
  <2>2. rack' = rack BY <1>2 DEF BootDone, ThreadExit
  <2>3. \A i \in DOMAIN events' : (i \in DOMAIN events /\ events'[i] = events[i]) \/ (i = Len(events) + 1 /\ events'[i] = e)
    BY <1>1, <2>1, EventsMove
  <2>4. Visible' BY <1>0, <1>1, <2>1, <2>3 DEF Visible
  <2>5. Exchanging' => Exchanging BY <2>1, <2>3 DEF Exchanging
  <2>6. Clear' BY <1>0, <1>1, <2>5 DEF Clear, Writes
  <2>7. ASSUME NEW v \in Sessions, Fits(v) PROVE Fits(Hears(e, v))'
    <3>1. Hears(e, v) = v BY <2>1, Hearing
    <3>2. Fits(v)' BY <1>0, <2>2, <2>7 DEF Fits, Holds, Elsewhere
    <3> QED BY <3>1, <3>2
  <2> QED BY <1>0, <1>1, <2>1, <2>4, <2>6, <2>7, ToldOfOneMore
<1>3. CASE \E r \in Requests : Exchange(r[1], r[2])
  <2>1. PICK r \in Requests : Exchange(r[1], r[2]) BY <1>3
  <2>2. PICK a, b : a = r[1] - 1 /\ b = r[2] - 1 OBVIOUS
  <2>3. a \in Slots /\ b \in Slots /\ a # b /\ b # 0 /\ (a = 0 <=> r[1] = 1)
    BY <2>2, RackAssumption DEF RackAssumption, Undisturbed, Slots
  <2>4. /\ rack' = T!Swap(rack, a, b) /\ todo = <<>> /\ autoBoot = NoDev /\ ~(remoteShim # NoDev /\ r[1] = 1)
        /\ a \in present /\ b \in present
    BY <2>1, <2>2, Unloaded DEF Exchange
  <2>5. PICK e \in Events : e = Event("exchanged", r[1], r[2]) BY <1>1, EventsStay
  <2>6. events' = Append(events, e) BY <2>1, <2>5 DEF Exchange
  <2>7. e.ev = "exchanged" /\ e.d1 - 1 = a /\ e.d2 - 1 = b BY <2>2, <2>5 DEF Event
  <2>8. \A i \in DOMAIN events' : (i \in DOMAIN events /\ events'[i] = events[i]) \/ (i = Len(events) + 1 /\ events'[i] = e)
    BY <1>1, <2>6, EventsMove
  <2>9. Visible' BY <1>0, <1>1, <2>4, <2>7, <2>8 DEF Visible
  <2>10. Still(todo) /\ Still(todo') /\ ~Writes' BY <1>0, <2>4, CallsOf DEF Still, Writes
  <2>11. Clear' BY <2>10 DEF Clear
  <2>12. PICK hid : hid = Hidden /\ Own(rack, hid) BY <2>4, Resting, Chains
  <2>13. Pointers /\ rack.dev[0] \in AtFront /\ remoteShim = hisio BY <2>4, Resting DEF Idle, Rest
  <2>14. rack.dev[0] \in OrNone(Disks) \/ (a # 0 /\ b # 0) BY <2>3, <2>4, <2>13 DEF AtFront
  <2>15. rack'.dev = [rack.dev EXCEPT ![a] = rack.dev[b], ![b] = rack.dev[a]] /\ rack'.live = rack.live
    BY <2>3, <2>4, <2>12, <2>14, Swaps, SMTT(60)
  <2>16. hid = {} \/ (a # 0 /\ b # 0) BY <2>3, <2>4, <2>12, <2>13, NoneHidden DEF Bare
  <2>17. \A v \in Sessions : Fits(v) => Fits([v EXCEPT ![a] = v[b], ![b] = v[a]])'
    BY <2>3, <2>10, <2>12, <2>15, <2>16, ExchangeFits
  <2>18. \A v \in Sessions : Hears(e, v) = [v EXCEPT ![a] = v[b], ![b] = v[a]] BY <2>7 DEF Hears
  <2>19. \A v \in Sessions : Fits(v) => Fits(Hears(e, v))' BY <2>17, <2>18
  <2> QED BY <1>0, <1>1, <2>6, <2>9, <2>11, <2>19, ToldOfOneMore
<1> QED BY <1>2, <1>3 DEF Worker

LEMMA SessionInit == Init => SessionInv
<1> SUFFICES ASSUME Init PROVE SessionInv OBVIOUS
<1>1. Kinds BY RackInit DEF RackInv
<1>2. todo = <<>> /\ events = <<>> /\ \A n \in Slots : session[n] = NoDev BY DEF Init
<1>3. Fits(session) BY <1>2 DEF Fits
<1>4. ~Exchanging BY <1>2 DEF Exchanging
<1>5. Told BY <1>1, <1>3, <1>4, Unmoved DEF Kinds, Sessions
<1> QED BY <1>2, <1>4, <1>5 DEF SessionInv, Clear, Visible

LEMMA SessionStep ==
    ASSUME Undisturbed, "hidden" \notin May, RackInv, SessionInv, [Next]_vars
    PROVE  SessionInv'
<1>1. Slot /\ Kinds /\ Queue BY DEF RackInv
<1>2. Kinds' BY RackStep DEF RackInv
<1>3. CASE User BY <1>1, <1>2, <1>3, UserSession
<1>4. CASE EventLoop BY <1>1, <1>4, EventSession
<1>5. CASE EngineCall BY <1>1, <1>2, <1>5, EngineSession
<1>6. CASE Worker BY <1>1, <1>6, WorkerSession
<1>7. CASE UNCHANGED vars
  <2>1. /\ rack' = rack /\ present' = present /\ session' = session /\ events' = events /\ todo' = todo /\ raced' = raced
    BY <1>7 DEF vars, user
  <2>2. Clear' = Clear /\ Visible' = Visible BY <2>1 DEF Clear, Writes, Exchanging, Visible
  <2>3. \A v \in Sessions : Fits(v) => Fits(v)' BY <2>1 DEF Fits, Holds, Elsewhere
  <2>4. Told => Told' BY <1>1, <2>1, <2>3, ToldAsBefore DEF Kinds
  <2> QED BY <2>1, <2>2, <2>4 DEF SessionInv
<1> QED BY <1>3, <1>4, <1>5, <1>6, <1>7 DEF Next

(* At rest there is nothing left to hear of, and nothing to record.        *)
LEMMA Telling == RackInv /\ SessionInv => SessionTells
<1> SUFFICES ASSUME RackInv, SessionInv, AtRest, ~raced, NEW n \in Slots, session[n] # NoDev
             PROVE  session[n] \in Chain(n)
  BY DEF SessionTells
<1>1. Idle /\ todo = <<>> /\ events = <<>> BY Resting DEF RackInv, AtRest
<1>2. Fits(session)
  <2>1. ~Exchanging BY <1>1 DEF Exchanging
  <2> QED BY <2>1, Unmoved DEF RackInv, Kinds, Sessions, SessionInv
<1>3. Holds(n, session[n])
  <2>1. ~Records(todo, n) BY <1>1, CallsOf DEF Records
  <2> QED BY <1>2, <2>1 DEF Fits
<1>4. CASE n # 0 BY <1>3, <1>4 DEF Holds, Chain
<1>5. CASE n = 0
  <2>1. session[0] \in rack.live \cap Disks /\ ~Elsewhere(session[0]) BY <1>3, <1>5 DEF Holds
  <2>2. Own(rack, Hidden) /\ Chain(0) \cap Disks = ({rack.dev[0]} \cap Disks) \cup Hidden BY <1>1, Chains
  <2>3. session[0] \in Hidden \/ \E m \in Slots : rack.dev[m] = session[0] BY <2>1, <2>2, OwnFacts
  <2>4. session[0] \in Hidden \/ rack.dev[0] = session[0] BY <2>1, <2>3 DEF Elsewhere
  <2> QED BY <1>5, <2>1, <2>2, <2>4
<1> QED BY <1>4, <1>5

(* What the table's readers rely on.                                       *)
LEMMA Sounding == RackInv => TableSound
BY SlotPhase DEF RackInv, Phase, Standing, Own, TableSound, T!TableSound

-----------------------------------------------------------------------------
(* The theorems.                                                           *)

(* What a slot of the engine has done so far, wherever it stands between   *)
(* two sections of deviceMutex; for any number of drives and of images.    *)
THEOREM RackInvariant == ASSUME Undisturbed PROVE Spec => []RackInv
<1>1. Init => RackInv BY RackInit
<1>2. RackInv /\ [Next]_vars => RackInv' BY RackStep
<1> QED BY <1>1, <1>2, PTL DEF Spec

(* DriveRack's TypeOK; the last slot stays (removeSlot).                   *)
THEOREM TypeCorrect == ASSUME Undisturbed PROVE Spec => []TypeOK
<1> QED BY Typing, RackInvariant, PTL

(* No pointer outlives its object (NoDangling): not in the table, not in a *)
(* loader that forwards to the disk behind it, not in the remote control,  *)
(* not in the engine; also between two sections of a slot.                 *)
THEOREM NoDanglingPointers == ASSUME Undisturbed PROVE Spec => []NoDangling
<1> QED BY Pointing, RackInvariant, PTL

(* No disk drops out of the rack (NoDiskLost): between two slots of the    *)
(* engine each is reached from exactly one drive.                          *)
THEOREM DisksKept == ASSUME Undisturbed PROVE Spec => []NoDiskLost
<1> QED BY Keeping, RackInvariant, PTL

(* The high-speed loader leaves with the emulation (ShimGone: sioFinished, *)
(* disarmHighSpeedAtrBoot).                                                *)
THEOREM ShimLeaves == ASSUME Undisturbed PROVE Spec => []ShimGone
<1> QED BY Leaving, RackInvariant, PTL

(* The remote control swallows "xc 1 ..." only for a loader that stands in *)
(* front of D1: (ArmedAtD1: armHighSpeedAtrBoot, forgetBootShim).          *)
THEOREM ShimAtD1 == ASSUME Undisturbed PROVE Spec => []ArmedAtD1
<1> QED BY Armament, RackInvariant, PTL

(* The rack implements the device table (TableContract): every section the *)
(* engine and the remote control run on it is one the table allows.        *)
THEOREM RefinesTable == ASSUME Undisturbed PROVE Spec => TableContract
<1>1. Init => T!Init BY RackInit
<1>2. RackInv /\ [Next]_vars => [T!Next]_rack BY RackStep DEF Contract
<1> QED BY <1>1, <1>2, RackInvariant, PTL DEF Spec, TableContract, T!Spec

(* A drive in the table is a live object that knows its own number         *)
(* (TableSound), also between two sections of a slot of the engine.        *)
THEOREM RackTableSound == ASSUME Undisturbed PROVE Spec => []TableSound
<1> QED BY Sounding, RackInvariant, PTL

(* At rest the saved session names no disk for a drive that is not in it   *)
(* (SessionTells: mountFile, ejectImage, swapSlots, onDrivesExchanged), if *)
(* the Atari exchanges only drives the user sees. However many exchanges   *)
(* the engine has still to hear of, SessionInv knows the session to come.  *)
THEOREM SessionTrue == ASSUME Undisturbed, "hidden" \notin May PROVE Spec => []SessionTells
<1>1. Init => RackInv /\ SessionInv BY RackInit, SessionInit
<1>2. RackInv /\ SessionInv /\ [Next]_vars => RackInv' /\ SessionInv' BY RackStep, SessionStep
<1>3. RackInv /\ SessionInv => SessionTells BY Telling
<1> QED BY <1>1, <1>2, <1>3, PTL DEF Spec
=============================================================================
