-------------------------- MODULE SioTable_proofs --------------------------
(* Proofs about the device table: what each member function of SioWorker   *)
(* does to a sound table, and that the contract keeps every table sound.   *)
EXTENDS SioTable, TLAPS

(* The number of an installed object is its slot, so no other slot holds it. *)
LEMMA SoundIsInjective ==
    ASSUME NEW r \in Racks, Sound(r), NEW a \in Slots, NEW b \in Slots,
           r.dev[a] # NoDev, r.dev[a] = r.dev[b]
    PROVE  a = b
  BY DEF Sound

LEMMA UninstallFields ==
    ASSUME NEW r \in Racks, NEW n \in Slots
    PROVE  /\ Uninstall(r, n) \in Racks
           /\ Uninstall(r, n).live = r.live
           /\ Uninstall(r, n).dev = [r.dev EXCEPT ![n] = NoDev]
           /\ Uninstall(r, n).no = [o \in Devices |-> IF o = r.dev[n] THEN NoSlot ELSE r.no[o]]
  BY DEF Uninstall, Racks

LEMMA UninstallSound ==
    ASSUME NEW r \in Racks, Sound(r), NEW n \in Slots
    PROVE  Sound(Uninstall(r, n))
  <1> DEFINE u == Uninstall(r, n)
  <1>0. /\ u.live = r.live
        /\ u.dev = [r.dev EXCEPT ![n] = NoDev]
        /\ u.no = [o \in Devices |-> IF o = r.dev[n] THEN NoSlot ELSE r.no[o]]
    BY UninstallFields
  <1> HIDE DEF u
  <1>1. /\ r.dev \in [Slots -> Devices \cup {NoDev}]
        /\ r.no \in [Devices -> Slots \cup {NoSlot}]
    BY DEF Racks
  <1> SUFFICES ASSUME NEW m \in Slots, u.dev[m] # NoDev
               PROVE  u.dev[m] \in u.live /\ u.no[u.dev[m]] = m
    BY DEF Sound, u
  <1>2. m # n /\ u.dev[m] = r.dev[m]
    BY <1>0, <1>1
  <1>3. r.dev[m] \in r.live /\ r.no[r.dev[m]] = m /\ r.dev[m] \in Devices
    BY <1>1, <1>2 DEF Sound
  <1>4. r.dev[m] # r.dev[n]
    BY <1>2, <1>3 DEF Sound
  <1> QED  BY <1>0, <1>2, <1>3, <1>4

(* An object is deleted out of a sound table, wherever it says it is: the  *)
(* pointer to it goes too, and no other object is deleted.                 *)
LEMMA DestroyFields ==
    ASSUME NEW r \in Racks, NEW o \in Devices
    PROVE  LET k == r.no[o] IN
           /\ Destroy(r, o) \in Racks
           /\ Destroy(r, o).live = r.live \ {o}
           /\ k = NoSlot => Destroy(r, o).dev = r.dev /\ Destroy(r, o).no = r.no
           /\ k # NoSlot => /\ k \in Slots
                            /\ Destroy(r, o).dev = Uninstall(r, k).dev
                            /\ Destroy(r, o).no = Uninstall(r, k).no
  <1>1. CASE r.no[o] = NoSlot
    BY <1>1 DEF Destroy, Racks
  <1>2. CASE r.no[o] # NoSlot
    <2> DEFINE u == Uninstall(r, r.no[o])
    <2>1. r.no[o] \in Slots
      BY <1>2 DEF Racks
    <2>2. u \in Racks /\ u.live = r.live
      BY <2>1, UninstallFields
    <2>3. Destroy(r, o) = [u EXCEPT !.live = r.live \ {o}]
      BY <1>2 DEF Destroy
    <2> HIDE DEF u
    <2>4. /\ Destroy(r, o) \in Racks
          /\ Destroy(r, o).live = r.live \ {o}
          /\ Destroy(r, o).dev = u.dev
          /\ Destroy(r, o).no = u.no
      BY <2>2, <2>3 DEF Racks
    <2> QED  BY <1>2, <2>1, <2>4 DEF u
  <1> QED  BY <1>1, <1>2

LEMMA DestroySound ==
    ASSUME NEW r \in Racks, Sound(r), NEW o \in Devices
    PROVE  /\ Sound(Destroy(r, o))
           /\ o \notin Installed(Destroy(r, o))
  <1> DEFINE d == Destroy(r, o)
  <1>t. /\ r.dev \in [Slots -> Devices \cup {NoDev}]
        /\ r.no \in [Devices -> Slots \cup {NoSlot}]
    BY DEF Racks
  <1>1. CASE r.no[o] = NoSlot
    <2>1. d.dev = r.dev /\ d.no = r.no /\ d.live = r.live \ {o}
      BY <1>1, DestroyFields
    <2>2. \A m \in Slots : r.dev[m] # o
      BY <1>1, TableAssumption DEF Sound, TableAssumption
    <2> HIDE DEF d
    <2>3. Sound(d)
      BY <2>1, <2>2 DEF Sound
    <2>4. o \notin Installed(d)
      BY <2>1, <2>2 DEF Installed
    <2> QED  BY <2>3, <2>4 DEF d
  <1>2. CASE r.no[o] # NoSlot
    <2> DEFINE k == r.no[o]
               u == Uninstall(r, k)
    <2>1. k \in Slots /\ d.dev = u.dev /\ d.no = u.no /\ d.live = r.live \ {o}
      BY <1>2, DestroyFields
    <2>2. Sound(u) /\ u.live = r.live /\ u.dev = [r.dev EXCEPT ![k] = NoDev]
      BY <2>1, UninstallSound, UninstallFields
    <2>3. \A m \in Slots : u.dev[m] # o
      <3> SUFFICES ASSUME NEW m \in Slots, u.dev[m] = o PROVE FALSE
        OBVIOUS
      <3>1. o # NoDev
        BY TableAssumption DEF TableAssumption
      <3>2. m # k /\ r.dev[m] = o
        BY <1>t, <2>1, <2>2, <3>1
      <3> QED  BY <3>1, <3>2 DEF Sound
    <2> HIDE DEF d, u
    <2>4. Sound(d)
      BY <2>1, <2>2, <2>3 DEF Sound
    <2>5. o \notin Installed(d)
      BY <2>1, <2>3 DEF Installed
    <2> QED  BY <2>4, <2>5 DEF d
  <1> QED  BY <1>1, <1>2

LEMMA EnterFields ==
    ASSUME NEW r \in Racks, NEW n \in Slots, NEW o \in Devices
    PROVE  LET e == Enter(r, n, o) IN
           /\ e \in Racks
           /\ e.live = r.live
           /\ e.dev = [r.dev EXCEPT ![n] = o]
           /\ e.no = [r.no EXCEPT ![o] = n]
  BY DEF Enter, Racks

(* Installing over an object deletes exactly that object.                  *)
LEMMA InstallFields ==
    ASSUME NEW r \in Racks, Sound(r), NEW n \in Slots, NEW o \in Devices
    PROVE  LET old == r.dev[n]
               rest == IF old = NoDev THEN r ELSE Destroy(r, old)
           IN  /\ rest \in Racks /\ Sound(rest) /\ rest.live = r.live \ {old}
               /\ rest.dev = [r.dev EXCEPT ![n] = NoDev]
               /\ Install(r, n, o) \in Racks
               /\ Install(r, n, o).live = r.live \ {old}
               /\ Install(r, n, o).dev = [r.dev EXCEPT ![n] = o]
               /\ Install(r, n, o).no = [rest.no EXCEPT ![o] = n]
  <1> DEFINE old == r.dev[n]
             rest == IF old = NoDev THEN r ELSE Destroy(r, old)
  <1>t. /\ r.dev \in [Slots -> Devices \cup {NoDev}]
        /\ r.live \subseteq Devices
    BY DEF Racks
  <1>1. /\ rest \in Racks /\ Sound(rest) /\ rest.live = r.live \ {old}
        /\ rest.dev = [r.dev EXCEPT ![n] = NoDev]
    <2>1. CASE old = NoDev
      <3>1. rest = r /\ r.dev = [r.dev EXCEPT ![n] = NoDev]
        BY <1>t, <2>1
      <3>2. r.live = r.live \ {old}
        BY <1>t, <2>1, TableAssumption DEF TableAssumption
      <3> QED  BY <3>1, <3>2
    <2>2. CASE old # NoDev
      <3>1. rest = Destroy(r, old) /\ old \in Devices /\ r.no[old] = n
        BY <1>t, <2>2 DEF Sound
      <3>2. n # NoSlot
        BY TableAssumption DEF TableAssumption
      <3>3. rest \in Racks /\ rest.live = r.live \ {old} /\ rest.dev = Uninstall(r, n).dev
        BY <3>1, <3>2, DestroyFields
      <3>4. Sound(rest)
        BY <3>1, DestroySound
      <3> QED  BY <3>3, <3>4, UninstallFields
    <2> QED  BY <2>1, <2>2
  <1>2. Install(r, n, o) = Enter(rest, n, o)
    BY DEF Install
  <1> HIDE DEF rest
  <1>3. /\ Install(r, n, o) \in Racks
        /\ Install(r, n, o).live = rest.live
        /\ Install(r, n, o).dev = [rest.dev EXCEPT ![n] = o]
        /\ Install(r, n, o).no = [rest.no EXCEPT ![o] = n]
    BY <1>1, <1>2, EnterFields
  <1>4. [rest.dev EXCEPT ![n] = o] = [r.dev EXCEPT ![n] = o]
    BY <1>1, <1>t
  <1> QED  BY <1>1, <1>3, <1>4 DEF rest

(* In an empty slot nothing is deleted.                                    *)
LEMMA InstallEmpty ==
    ASSUME NEW r \in Racks, NEW n \in Slots, NEW o \in Devices, r.dev[n] = NoDev
    PROVE  /\ Install(r, n, o) \in Racks
           /\ Install(r, n, o).live = r.live
           /\ Install(r, n, o).dev = [r.dev EXCEPT ![n] = o]
           /\ Install(r, n, o).no = [r.no EXCEPT ![o] = n]
  <1>1. Install(r, n, o) = Enter(r, n, o)
    BY DEF Install
  <1> QED  BY <1>1, EnterFields

(* Installing an allocated object that is not in the table keeps it sound. *)
LEMMA InstallSound ==
    ASSUME NEW r \in Racks, Sound(r), NEW n \in Slots, NEW o \in Devices,
           o \in r.live, o \notin Installed(r)
    PROVE  Sound(Install(r, n, o))
  <1> DEFINE old  == r.dev[n]
             rest == IF old = NoDev THEN r ELSE Destroy(r, old)
             i    == Install(r, n, o)
  <1>1. /\ rest \in Racks /\ Sound(rest) /\ rest.live = r.live \ {old}
        /\ rest.dev = [r.dev EXCEPT ![n] = NoDev]
        /\ i.live = r.live \ {old}
        /\ i.dev = [r.dev EXCEPT ![n] = o]
        /\ i.no = [rest.no EXCEPT ![o] = n]
    BY InstallFields
  <1>2. /\ r.dev \in [Slots -> Devices \cup {NoDev}]
        /\ rest.no \in [Devices -> Slots \cup {NoSlot}]
    BY <1>1 DEF Racks
  <1>3. \A m \in Slots : r.dev[m] # o
    BY TableAssumption DEF Installed, TableAssumption
  <1> HIDE DEF rest, i
  <1> SUFFICES ASSUME NEW m \in Slots, i.dev[m] # NoDev
               PROVE  i.dev[m] \in i.live /\ i.no[i.dev[m]] = m
    BY DEF Sound, i
  <1>4. CASE m = n
    BY <1>1, <1>2, <1>3, <1>4
  <1>5. CASE m # n
    <2>1. i.dev[m] = r.dev[m] /\ rest.dev[m] = r.dev[m] /\ r.dev[m] \in Devices
      BY <1>1, <1>2, <1>5
    <2>2. rest.dev[m] \in rest.live /\ rest.no[rest.dev[m]] = m
      BY <1>1, <2>1 DEF Sound
    <2> QED  BY <1>1, <1>2, <1>3, <2>1, <2>2
  <1> QED  BY <1>4, <1>5

(* An exchange of two drives that are not the same is what its name says.  *)
LEMMA SwapFields ==
    ASSUME NEW r \in Racks, Sound(r), NEW a \in Slots, NEW b \in Slots, a # b
    PROVE  /\ Swap(r, a, b) \in Racks
           /\ Sound(Swap(r, a, b))
           /\ Swap(r, a, b).live = r.live
           /\ Swap(r, a, b).dev = [r.dev EXCEPT ![a] = r.dev[b], ![b] = r.dev[a]]
  <1> DEFINE x     == r.dev[b]
             y     == r.dev[a]
             half  == Uninstall(r, a)
             clear == Uninstall(half, b)
             first == IF x = NoDev THEN clear ELSE Install(clear, a, x)
             both  == IF y = NoDev THEN first ELSE Install(first, b, y)
  <1>0. Swap(r, a, b) = both
    BY DEF Swap
  <1>1. /\ r.dev \in [Slots -> Devices \cup {NoDev}]
        /\ NoDev \notin Devices
    BY TableAssumption DEF Racks, TableAssumption
  <1>2. /\ x # NoDev => x \in Devices /\ x \in r.live /\ \A m \in Slots : r.dev[m] = x => m = b
        /\ y # NoDev => y \in Devices /\ y \in r.live /\ \A m \in Slots : r.dev[m] = y => m = a
    BY <1>1 DEF Sound
  <1>3. /\ half \in Racks /\ Sound(half) /\ half.live = r.live
        /\ half.dev = [r.dev EXCEPT ![a] = NoDev]
    BY UninstallFields, UninstallSound
  <1> HIDE DEF half
  <1>4. /\ clear \in Racks /\ Sound(clear) /\ clear.live = r.live
        /\ clear.dev = [half.dev EXCEPT ![b] = NoDev]
    BY <1>3, UninstallFields, UninstallSound
  <1>5. clear.dev = [r.dev EXCEPT ![a] = NoDev, ![b] = NoDev]
    BY <1>3, <1>4
  <1> HIDE DEF clear
  <1>6. /\ first \in Racks /\ Sound(first) /\ first.live = r.live
        /\ first.dev = [r.dev EXCEPT ![a] = x, ![b] = NoDev]
    <2>1. CASE x = NoDev
      BY <1>4, <1>5, <2>1
    <2>2. CASE x # NoDev
      <3>1. first = Install(clear, a, x)
        BY <2>2
      <3>2. x \in clear.live /\ x \notin Installed(clear)
        <4>1. \A m \in Slots : clear.dev[m] # x
          BY <1>1, <1>2, <1>5, <2>2
        <4> QED  BY <1>2, <1>4, <2>2, <4>1 DEF Installed
      <3>3. clear.dev[a] = NoDev
        BY <1>1, <1>5
      <3>4. Sound(first)
        BY <1>2, <1>4, <2>2, <3>1, <3>2, InstallSound
      <3>5. /\ first \in Racks /\ first.live = clear.live \ {NoDev}
            /\ first.dev = [clear.dev EXCEPT ![a] = x]
        BY <1>2, <1>4, <2>2, <3>1, <3>3, InstallFields
      <3>6. NoDev \notin clear.live
        BY <1>1, <1>4 DEF Racks
      <3>7. first.dev = [r.dev EXCEPT ![a] = x, ![b] = NoDev]
        BY <1>1, <1>5, <3>5
      <3> QED  BY <1>4, <3>4, <3>5, <3>6, <3>7
    <2> QED  BY <2>1, <2>2
  <1> HIDE DEF first
  <1>7. /\ both \in Racks /\ Sound(both) /\ both.live = r.live
        /\ both.dev = [r.dev EXCEPT ![a] = x, ![b] = y]
    <2>1. CASE y = NoDev
      BY <1>6, <2>1
    <2>2. CASE y # NoDev
      <3>1. both = Install(first, b, y)
        BY <2>2
      <3>2. y \in first.live /\ y \notin Installed(first)
        <4>1. \A m \in Slots : first.dev[m] # y
          BY <1>1, <1>2, <1>6, <2>2
        <4> QED  BY <1>2, <1>6, <2>2, <4>1 DEF Installed
      <3>3. first.dev[b] = NoDev
        BY <1>1, <1>6
      <3>4. Sound(both)
        BY <1>2, <1>6, <2>2, <3>1, <3>2, InstallSound
      <3>5. /\ both \in Racks /\ both.live = first.live \ {NoDev}
            /\ both.dev = [first.dev EXCEPT ![b] = y]
        BY <1>2, <1>6, <2>2, <3>1, <3>3, InstallFields
      <3>6. NoDev \notin first.live
        BY <1>1, <1>6 DEF Racks
      <3>7. both.dev = [r.dev EXCEPT ![a] = x, ![b] = y]
        BY <1>1, <1>6, <3>5
      <3> QED  BY <1>6, <3>4, <3>5, <3>6, <3>7
    <2> QED  BY <2>1, <2>2
  <1> QED  BY <1>0, <1>7

-----------------------------------------------------------------------------
(* The invariant is inductive as it stands: an object leaves the table by  *)
(* the number it carries, so "the number is the slot" is what keeps a      *)
(* deleted object out of the table.                                        *)
Inv == TypeOK /\ TableSound

LEMMA InitInv == Init => Inv
  BY DEF Init, Inv, TypeOK, TableSound, Racks, Sound

LEMMA NextInv == Inv /\ [Next]_rack => Inv'
  <1> SUFFICES ASSUME Inv, [Next]_rack PROVE Inv'
    OBVIOUS
  <1>1. rack \in Racks /\ Sound(rack)
    BY DEF Inv, TypeOK, TableSound
  <1>2. ASSUME rack' \in Racks, Sound(rack') PROVE Inv'
    BY <1>2 DEF Inv, TypeOK, TableSound
  <1>3. CASE UNCHANGED rack
    BY <1>1, <1>2, <1>3
  <1>4. ASSUME NEW o \in Devices, AllocateDevice(o) PROVE Inv'
    <2>1. /\ rack'.dev = rack.dev /\ rack'.live = rack.live \cup {o}
          /\ rack'.no = [rack.no EXCEPT ![o] = NoSlot] /\ rack' \in Racks
      BY <1>1, <1>4 DEF AllocateDevice, Allocate, Racks
    <2>2. \A n \in Slots : rack.dev[n] # o
      BY <1>4, TableAssumption DEF AllocateDevice, Installed, TableAssumption
    <2>3. rack.no \in [Devices -> Slots \cup {NoSlot}] /\ rack.live \subseteq Devices
      BY <1>1 DEF Racks
    <2>4. Sound(rack')
      BY <1>1, <2>1, <2>2, <2>3 DEF Sound
    <2> QED  BY <1>2, <2>1, <2>4
  <1>5. ASSUME NEW o \in Devices, DeleteDevice(o) PROVE Inv'
    <2>1. rack' = Destroy(rack, o)
      BY <1>5 DEF DeleteDevice
    <2> QED  BY <1>1, <1>2, <2>1, DestroyFields, DestroySound
  <1>6. ASSUME NEW n \in Slots, UninstallDevice(n) PROVE Inv'
    <2>1. rack' = Uninstall(rack, n)
      BY <1>6 DEF UninstallDevice
    <2> QED  BY <1>1, <1>2, <2>1, UninstallFields, UninstallSound
  <1>7. ASSUME NEW n \in Slots, NEW o \in Devices, InstallDevice(n, o) PROVE Inv'
    <2>1. rack' = Install(rack, n, o) /\ o \in rack.live /\ o \notin Installed(rack)
      BY <1>7 DEF InstallDevice
    <2> QED  BY <1>1, <1>2, <2>1, InstallFields, InstallSound
  <1>8. ASSUME NEW n \in Slots, NEW o \in Devices, Renumber(o, n) PROVE Inv'
    <2>1. /\ rack'.dev = rack.dev /\ rack'.live = rack.live
          /\ rack'.no = [rack.no EXCEPT ![o] = n] /\ rack' \in Racks
      BY <1>1, <1>8 DEF Renumber, SetDeviceNo, Racks
    <2>2. \A m \in Slots : rack.dev[m] # o
      BY <1>8, TableAssumption DEF Renumber, Installed, TableAssumption
    <2>3. rack.no \in [Devices -> Slots \cup {NoSlot}] /\ rack.live \subseteq Devices
      BY <1>1 DEF Racks
    <2>4. Sound(rack')
      BY <1>1, <2>1, <2>2, <2>3 DEF Sound
    <2> QED  BY <1>2, <2>1, <2>4
  <1>9. ASSUME NEW a \in Slots, NEW b \in Slots, SwapDevices(a, b) PROVE Inv'
    <2>1. rack' = Swap(rack, a, b) /\ a # b
      BY <1>9 DEF SwapDevices
    <2> QED  BY <1>1, <1>2, <2>1, SwapFields
  <1> QED  BY <1>3, <1>4, <1>5, <1>6, <1>7, <1>8, <1>9 DEF Next

(* The table's invariant holds for any number of drives and objects.       *)
THEOREM TableInvariant == Spec => []Inv
  <1>1. Init => Inv
    BY InitInv
  <1>2. Inv /\ [Next]_rack => Inv'
    BY NextInv
  <1> QED  BY <1>1, <1>2, PTL DEF Spec

(* As long as its callers keep the contract, devices[] holds no pointer to *)
(* a deleted device, and every device in it knows its slot (SioWorker's    *)
(* install, uninstall and swap, and ~SioDevice).                           *)
THEOREM TableIsSound == Spec => []TableSound
  <1>1. Inv => TableSound
    BY DEF Inv
  <1> QED  BY <1>1, TableInvariant, PTL

(* rack keeps its type.                                                    *)
THEOREM TypeCorrect == Spec => []TypeOK
  <1>1. Inv => TypeOK
    BY DEF Inv
  <1> QED  BY <1>1, TableInvariant, PTL

(* Every exchange trades the two drives' devices and nothing else: the     *)
(* installs swapDevices makes never find anything to delete.               *)
THEOREM SwapOnlyTrades == Spec => SwapTrades
  <1>1. ASSUME Inv, NEW a \in Slots, NEW b \in Slots, SwapDevices(a, b)
        PROVE  /\ rack'.dev[a] = rack.dev[b]
               /\ rack'.dev[b] = rack.dev[a]
               /\ \A n \in Slots \ {a, b} : rack'.dev[n] = rack.dev[n]
               /\ rack'.live = rack.live
    <2>1. rack \in Racks /\ Sound(rack) /\ a # b /\ rack' = Swap(rack, a, b)
      BY <1>1 DEF Inv, TypeOK, TableSound, SwapDevices
    <2>2. /\ rack'.live = rack.live
          /\ rack'.dev = [rack.dev EXCEPT ![a] = rack.dev[b], ![b] = rack.dev[a]]
      BY <2>1, SwapFields
    <2>3. rack.dev \in [Slots -> Devices \cup {NoDev}]
      BY <2>1 DEF Racks
    <2> QED  BY <2>1, <2>2, <2>3
  <1> DEFINE Trades == \A a, b \in Slots : SwapDevices(a, b) =>
                         /\ rack'.dev[a] = rack.dev[b]
                         /\ rack'.dev[b] = rack.dev[a]
                         /\ \A n \in Slots \ {a, b} : rack'.dev[n] = rack.dev[n]
                         /\ rack'.live = rack.live
  <1>2. Inv => Trades
    BY <1>1
  <1> HIDE DEF Trades
  <1>3. Spec => [][Trades]_rack
    BY <1>2, TableInvariant, PTL
  <1> QED  BY <1>3 DEF SwapTrades, Trades
=============
