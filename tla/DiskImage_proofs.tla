------------------------- MODULE DiskImage_proofs -------------------------
(***************************************************************************)
(* Proofs about one disk image, for any formats, sectors and number of     *)
(* commands and faults: what the two threads that share the position of    *)
(* its temporary file know of each other, that a sector reads back what    *)
(* was written, and that an image that says it is not modified is in its   *)
(* file. What the user, the Atari and the machine can do to break the last *)
(* two is named in Upsets.                                                 *)
(***************************************************************************)
EXTENDS DiskImage, DiskGeometry_proofs, SequenceTheorems

(* The larger and the smaller of two numbers.                              *)
LEMMA TwoNumbers ==
    ASSUME NEW a \in Int, NEW b \in Int
    PROVE  /\ Max({a, b}) = IF a > b THEN a ELSE b
           /\ Min({a, b}) = IF a < b THEN a ELSE b
<1>1. \E x \in {a, b} : \A y \in {a, b} : x >= y OBVIOUS
<1>2. \E x \in {a, b} : \A y \in {a, b} : x <= y OBVIOUS
<1>3. Max({a, b}) \in {a, b} /\ \A y \in {a, b} : Max({a, b}) >= y
  BY <1>1 DEF Max
<1>4. Min({a, b}) \in {a, b} /\ \A y \in {a, b} : Min({a, b}) <= y
  BY <1>2 DEF Min
<1> QED BY <1>3, <1>4

(* What 128 bytes divide, they divide without a rest.                      *)
LEMMA UnitsMultiply ==
    ASSUME NEW k \in Int
    PROVE  Units(128 * k) = k
BY DEF Units

LEMMA UnitsNat ==
    ASSUME NEW b \in Nat
    PROVE  Units(b) \in Nat
BY DEF Units

(* A geometry's size is a number of units.                                 *)
LEMMA SizeInUnits ==
    ASSUME NEW g \in Geometry
    PROVE  /\ TotalSize(g) \in Nat /\ Units(TotalSize(g)) \in Nat
           /\ 128 * Units(TotalSize(g)) = TotalSize(g)
<1>1. g.count \in Nat /\ g.bps \in {128, 256, 512, 8192} BY GeometryFields
<1>2. PICK k \in Nat : TotalSize(g) = 128 * k
  <2>1. CASE g.bps = 128
    <3>1. TotalSize(g) = 128 * g.count BY <1>1, <2>1, Sizes
    <3> QED BY <1>1, <3>1
  <2>2. CASE g.bps = 512
    <3>1. TotalSize(g) = 128 * (4 * g.count) BY <1>1, <2>2, Sizes
    <3> QED BY <1>1, <3>1
  <2>3. CASE g.bps = 8192
    <3>1. TotalSize(g) = 128 * (64 * g.count) BY <1>1, <2>3, Sizes
    <3> QED BY <1>1, <3>1
  <2>4. CASE g.bps = 256 /\ g.count <= 3
    <3>1. TotalSize(g) = 128 * g.count BY <1>1, <2>4, Sizes
    <3> QED BY <1>1, <3>1
  <2>5. CASE g.bps = 256 /\ g.count > 3
    <3>1. TotalSize(g) = 128 * (2 * g.count - 3) /\ 2 * g.count - 3 \in Nat BY <1>1, <2>5, Sizes
    <3> QED BY <3>1
  <2> QED BY <1>1, <2>1, <2>2, <2>3, <2>4, <2>5
<1>3. Units(TotalSize(g)) = k BY <1>2, UnitsMultiply
<1> QED BY <1>2, <1>3

(* Where a sector lies, in units: in the file, and apart from those after  *)
(* it.                                                                     *)
LEMMA SectorUnits ==
    ASSUME NEW g \in Geometry, NEW s \in 1 .. g.count
    PROVE  /\ Units(SectorPos(g, s)) \in Nat /\ Units(BytesPerSector(g, s)) \in Nat \ {0}
           /\ 128 * Units(SectorPos(g, s)) = SectorPos(g, s)
           /\ 128 * Units(BytesPerSector(g, s)) = BytesPerSector(g, s)
<1>1. g.count \in Nat /\ g.bps \in {128, 256, 512, 8192} BY GeometryFields
<1>2. PICK k \in Nat : SectorPos(g, s) = 128 * k
  <2>1. CASE g.bps = 128
    <3>1. SectorPos(g, s) = 128 * (s - 1) BY <2>1 DEF SectorPos
    <3> QED BY <1>1, <3>1
  <2>2. CASE g.bps = 512
    <3>1. SectorPos(g, s) = 128 * (4 * (s - 1)) BY <1>1, <2>2 DEF SectorPos
    <3> QED BY <1>1, <3>1
  <2>3. CASE g.bps = 8192
    <3>1. SectorPos(g, s) = 128 * (64 * (s - 1)) BY <1>1, <2>3 DEF SectorPos
    <3> QED BY <1>1, <3>1
  <2>4. CASE g.bps = 256 /\ s <= 3
    <3>1. SectorPos(g, s) = 128 * (s - 1) BY <1>1, <2>4 DEF SectorPos
    <3> QED BY <1>1, <3>1
  <2>5. CASE g.bps = 256 /\ s > 3
    <3>1. SectorPos(g, s) = 128 * (2 * s - 5) /\ 2 * s - 5 \in Nat BY <1>1, <2>5 DEF SectorPos
    <3> QED BY <3>1
  <2> QED BY <1>1, <2>1, <2>2, <2>3, <2>4, <2>5
<1>3. PICK m \in {1, 2, 4, 64} : BytesPerSector(g, s) = 128 * m
  <2>1. BytesPerSector(g, s) \in {128, 256, 512, 8192} BY <1>1 DEF BytesPerSector
  <2>2. 256 = 128 * 2 /\ 512 = 128 * 4 /\ 8192 = 128 * 64 /\ 128 = 128 * 1 OBVIOUS
  <2> QED BY <2>1, <2>2
<1>4. Units(SectorPos(g, s)) = k BY <1>2, UnitsMultiply
<1>5. Units(BytesPerSector(g, s)) = m BY <1>3, UnitsMultiply
<1> QED BY <1>2, <1>3, <1>4, <1>5

LEMMA SectorPlaces ==
    ASSUME NEW g \in Geometry, NEW s \in 1 .. g.count
    PROVE  /\ Units(SectorPos(g, s)) + Units(BytesPerSector(g, s)) <= Units(TotalSize(g))
           /\ \A t \in 1 .. g.count : s < t =>
                 Units(SectorPos(g, s)) + Units(BytesPerSector(g, s)) <= Units(SectorPos(g, t))
<1>0. g.count \in Nat BY GeometryFields
<1> DEFINE p(t) == Units(SectorPos(g, t))
           n(t) == Units(BytesPerSector(g, t))
<1>1. \A t \in 1 .. g.count : /\ p(t) \in Nat /\ n(t) \in Nat
                              /\ 128 * p(t) = SectorPos(g, t) /\ 128 * n(t) = BytesPerSector(g, t)
  BY SectorUnits
<1>2. 128 * Units(TotalSize(g)) = TotalSize(g) /\ Units(TotalSize(g)) \in Nat BY SizeInUnits
<1>3. SectorPos(g, s) + BytesPerSector(g, s) <= TotalSize(g) BY SectorsFit
<1>4. \A t \in 1 .. g.count : s < t => SectorPos(g, s) + BytesPerSector(g, s) <= SectorPos(g, t)
  BY <1>0, SectorsApart
<1> HIDE DEF p, n
<1>5. p(s) + n(s) <= Units(TotalSize(g))
  <2>1. p(s) \in Nat /\ n(s) \in Nat /\ 128 * p(s) + 128 * n(s) <= 128 * Units(TotalSize(g))
    BY <1>1, <1>2, <1>3
  <2> QED BY <1>2, <2>1
<1>6. ASSUME NEW t \in 1 .. g.count, s < t PROVE p(s) + n(s) <= p(t)
  <2>1. /\ p(s) \in Nat /\ n(s) \in Nat /\ p(t) \in Nat
        /\ 128 * p(s) + 128 * n(s) <= 128 * p(t)
    BY <1>1, <1>4, <1>6
  <2> QED BY <2>1
<1> QED BY <1>5, <1>6 DEF p, n

(* format(), and a new image: as long as its geometry, and zero.           *)
LEMMA BlankSeq ==
    ASSUME NEW g \in Geometry
    PROVE  /\ Blank(g) \in Seq(Nat) /\ Len(Blank(g)) = Units(TotalSize(g))
           /\ \A i \in 1 .. Units(TotalSize(g)) : Blank(g)[i] = 0
<1>1. Units(TotalSize(g)) \in Nat BY SizeInUnits
<1> DEFINE n == Units(TotalSize(g))
<1> HIDE DEF n
<1>2. [i \in 1 .. n |-> 0] \in Seq(Nat) /\ Len([i \in 1 .. n |-> 0]) = n BY <1>1 DEF n
<1> QED BY <1>2 DEF n, Blank

(* QFile::write: the file grows to the end of what is written, which is    *)
(* found where it was written; the rest is as it was.                      *)
LEMMA Written ==
    ASSUME NEW content \in Seq(Nat), NEW pos \in Nat, NEW value \in Nat, NEW n \in Nat
    PROVE  /\ WriteAt(content, pos, value, n) \in Seq(Nat)
           /\ pos + n <= Len(content) => Len(WriteAt(content, pos, value, n)) = Len(content)
           /\ \A i \in 1 .. Len(content) :
                 WriteAt(content, pos, value, n)[i] = IF i \in pos + 1 .. pos + n THEN value ELSE content[i]
<1> DEFINE m == Max({Len(content), pos + n})
<1>1. m = IF Len(content) > pos + n THEN Len(content) ELSE pos + n BY TwoNumbers
<1>2. m \in Nat /\ m >= Len(content) /\ m >= pos + n BY <1>1
<1>3. WriteAt(content, pos, value, n) = [i \in 1 .. m |->
        CASE i \in pos + 1 .. pos + n -> value
          [] i \in 1 .. pos /\ i > Len(content) -> 0
          [] OTHER -> content[i]] BY DEF WriteAt
<1> HIDE DEF m
<1> DEFINE w == WriteAt(content, pos, value, n)
<1>4. ASSUME NEW i \in 1 .. m
      PROVE  /\ w[i] \in Nat
             /\ i \in 1 .. Len(content) => w[i] = IF i \in pos + 1 .. pos + n THEN value ELSE content[i]
  <2>1. CASE i \in pos + 1 .. pos + n BY <1>3, <2>1
  <2>2. CASE i \in 1 .. pos /\ i > Len(content)
    <3>1. i \notin pos + 1 .. pos + n BY <2>2
    <3>2. w[i] = 0 BY <1>3, <2>2, <3>1
    <3> QED BY <2>2, <3>2
  <2>3. CASE i \notin pos + 1 .. pos + n /\ ~(i \in 1 .. pos /\ i > Len(content))
    <3>1. w[i] = content[i] BY <1>3, <2>3
    <3>2. i \in 1 .. Len(content) BY <1>1, <1>2, <2>3
    <3> QED BY <2>3, <3>1, <3>2
  <2> QED BY <2>1, <2>2, <2>3
<1>5. DOMAIN w = 1 .. m BY <1>3
<1>6. w = [i \in 1 .. m |-> w[i]] BY <1>3
<1> HIDE DEF w
<1>7. w \in Seq(Nat) /\ Len(w) = m BY <1>2, <1>4, <1>5, <1>6
<1>8. \A i \in 1 .. Len(content) : w[i] = IF i \in pos + 1 .. pos + n THEN value ELSE content[i]
  BY <1>2, <1>4
<1>9. pos + n <= Len(content) => Len(w) = Len(content) BY <1>1, <1>7
<1> QED BY <1>7, <1>8, <1>9 DEF w

(* A part of a file.                                                       *)
LEMMA PartSeq ==
    ASSUME NEW c \in Seq(Nat), NEW p \in Nat, NEW e \in Nat, p <= e, e <= Len(c)
    PROVE  /\ SubSeq(c, p + 1, e) \in Seq(Nat) /\ Len(SubSeq(c, p + 1, e)) = e - p
           /\ \A k \in 1 .. e - p : SubSeq(c, p + 1, e)[k] = c[p + k]
OBVIOUS

(* A file is its beginning followed by its rest.                           *)
LEMMA SequencesOf ==
    ASSUME NEW f \in Seq(Nat), NEW p \in 0 .. Len(f)
    PROVE  /\ SubSeq(f, 1, Len(f)) = f
           /\ SubSeq(f, 1, p) \o SubSeq(f, p + 1, Len(f)) = f
<1>1. SubSeq(f, 1, Len(f)) = f
  <2>1. PICK g \in Seq(Nat) : g = SubSeq(f, 1, Len(f)) /\ Len(g) = Len(f) /\ \A k \in 1 .. Len(f) : g[k] = f[k]
    <3>1. Len(f) \in Nat /\ 0 \in Nat OBVIOUS
    <3> QED BY <3>1, PartSeq
  <2> QED BY <2>1, SeqEqual
<1> DEFINE a == SubSeq(f, 1, p)
           b == SubSeq(f, p + 1, Len(f))
<1>2. a \in Seq(Nat) /\ Len(a) = p /\ \A k \in 1 .. p : a[k] = f[k] OBVIOUS
<1>3. b \in Seq(Nat) /\ Len(b) = Len(f) - p /\ \A k \in 1 .. Len(f) - p : b[k] = f[p + k] OBVIOUS
<1> HIDE DEF a, b
<1>4. a \o b \in Seq(Nat) /\ Len(a \o b) = Len(f)
  <2>1. a \in Seq(Nat) /\ b \in Seq(Nat) BY <1>2, <1>3
  <2>2. a \o b \in Seq(Nat) /\ Len(a \o b) = Len(a) + Len(b) BY <2>1
  <2>3. Len(f) \in Nat /\ p \in Nat OBVIOUS
  <2> QED BY <1>2, <1>3, <2>2, <2>3
<1>5. ASSUME NEW k \in 1 .. Len(f) PROVE (a \o b)[k] = f[k]
  <2>1. a \in Seq(Nat) /\ b \in Seq(Nat) /\ p \in Nat BY <1>2, <1>3
  <2>2. CASE k <= p
    <3>1. k \in 1 .. Len(a) BY <1>2, <2>2
    <3>2. (a \o b)[k] = a[k] BY <2>1, <3>1
    <3> QED BY <1>2, <3>1, <3>2
  <2>3. CASE k > p
    <3>1. k - p \in 1 .. Len(f) - p /\ p + (k - p) = k BY <2>3
    <3>2. b[k - p] = f[k] BY <1>3, <3>1
    <3>3. k \in Len(a) + 1 .. Len(a) + Len(b) BY <1>2, <1>3, <2>3
    <3>4. (a \o b)[k] = b[k - Len(a)] BY <2>1, <3>3
    <3> QED BY <1>2, <3>2, <3>4
  <2>4. k <= p \/ k > p BY <2>1
  <2> QED BY <2>2, <2>3, <2>4, Zenon
<1>6. a \o b = f BY <1>4, <1>5, SeqEqual
<1> QED BY <1>1, <1>6 DEF a, b

(* What readData finds: as much as it asks for, or up to the end.          *)
LEMMA FoundSeq ==
    ASSUME NEW i \in Image, NEW n \in Nat
    PROVE  /\ Found(i, n) \in Seq(Nat) /\ Len(Found(i, n)) \in Nat
           /\ i.pos < Len(i.content) /\ i.pos + n <= Len(i.content) =>
                 /\ Found(i, n) = SubSeq(i.content, i.pos + 1, i.pos + n)
                 /\ Len(Found(i, n)) = n
<1>1. PICK c \in Seq(Nat) : c = i.content BY DEF Image
<1>2. PICK p \in Nat : p = i.pos BY DEF Image
<1>3. Len(c) \in Int /\ p + n \in Int OBVIOUS
<1>4. PICK e \in Int : e = Min({p + n, Len(c)}) /\ e = IF p + n < Len(c) THEN p + n ELSE Len(c)
  BY <1>3, TwoNumbers
<1>5. CASE p < Len(c)
  <2>1. Found(i, n) = SubSeq(c, p + 1, e) BY <1>1, <1>2, <1>4, <1>5 DEF Found
  <2>2. e \in Nat /\ p <= e /\ e <= Len(c) BY <1>3, <1>4, <1>5
  <2>3. SubSeq(c, p + 1, e) \in Seq(Nat) /\ Len(SubSeq(c, p + 1, e)) = e - p
    BY <2>2, PartSeq
  <2>4. Found(i, n) \in Seq(Nat) /\ Len(Found(i, n)) = e - p BY <2>1, <2>3
  <2>5. Len(Found(i, n)) \in Nat BY <2>2, <2>4
  <2>6. ASSUME p + n <= Len(c)
        PROVE  Found(i, n) = SubSeq(c, p + 1, p + n) /\ Len(Found(i, n)) = n
    <3>1. e = p + n BY <1>3, <1>4, <2>6
    <3>2. e - p = n BY <3>1
    <3> QED BY <2>1, <2>4, <3>1, <3>2
  <2> QED BY <1>1, <1>2, <2>4, <2>5, <2>6
<1>6. CASE ~(p < Len(c))
  <2>1. Found(i, n) = <<>> BY <1>1, <1>2, <1>6 DEF Found
  <2> QED BY <1>1, <1>2, <1>6, <2>1
<1> QED BY <1>5, <1>6

(* openAtr and openXfd: what they guess is a geometry, of fewer sectors    *)
(* than a quint16 holds.                                                   *)
LEMMA Guessed ==
    ASSUME NEW total \in Nat, NEW bps \in SectorSizes
    PROVE  /\ AtrGeometry(total, bps) \in Geometry /\ AtrGeometry(total, bps).count < Word
           /\ XfdGeometry(total) \in Geometry /\ XfdGeometry(total).count < Word
<1>1. \A k \in Int : k % Word \in Nat /\ k % Word < Word BY DEF Word
<1>2. AtrCount(total, bps) \in Nat /\ AtrCount(total, bps) < Word
  <2>1. (total + 127) \div 128 \in Int /\ (total + 384 + 255) \div 256 \in Int OBVIOUS
  <2>2. (total + bps - 1) \div bps \in Int BY DEF SectorSizes
  <2> QED BY <1>1, <2>1, <2>2 DEF AtrCount
<1>3. AtrGeometry(total, bps) \in Geometry /\ AtrGeometry(total, bps).count < Word
  BY <1>2 DEF AtrGeometry, Geometry
<1>4. /\ ((total - 384) \div 256) % Word \in Nat /\ ((total - 384) \div 256) % Word < Word
      /\ ((total + 127) \div 128) % Word \in Nat /\ ((total + 127) \div 128) % Word < Word
  <2>1. (total - 384) \div 256 \in Int /\ (total + 127) \div 128 \in Int OBVIOUS
  <2> QED BY <1>1, <2>1
<1>5. \E g \in Geometry : XfdGeometry(total) = g /\ g.count < Word
  <2> DEFINE G(c, b) == [count |-> c, bps |-> b]
  <2>1. \A c \in Nat, b \in {128, 256} : G(c, b) \in Geometry /\ G(c, b).count = c
    BY DEF Geometry, SectorSizes
  <2>2. 720 < Word /\ 1040 < Word /\ 1440 < Word BY DEF Word
  <2>3. \E c \in Nat, b \in {128, 256} : c < Word /\ XfdGeometry(total) = G(c, b)
    <3>1. CASE total = 92160 BY <2>2, <3>1 DEF XfdGeometry
    <3>2. CASE total = 133120 BY <2>2, <3>2 DEF XfdGeometry
    <3>3. CASE total = 183936 BY <2>2, <3>3 DEF XfdGeometry
    <3>4. CASE total = 368256 BY <2>2, <3>4 DEF XfdGeometry
    <3>5. CASE total \notin {92160, 133120, 183936, 368256} /\ (total - 384) % 256 = 0
      BY <1>4, <3>5 DEF XfdGeometry
    <3>6. CASE total \notin {92160, 133120, 183936, 368256} /\ (total - 384) % 256 # 0
      BY <1>4, <3>6 DEF XfdGeometry
    <3> QED BY <3>1, <3>2, <3>3, <3>4, <3>5, <3>6
  <2>4. PICK c \in Nat, b \in {128, 256} : c < Word /\ XfdGeometry(total) = G(c, b) BY <2>3
  <2>5. G(c, b) \in Geometry /\ G(c, b).count = c BY <2>1
  <2> QED BY <2>4, <2>5
<1> QED BY <1>3, <1>5

(* A file that is opened is an image.                                      *)
LEMMA OpenedImage ==
    ASSUME NEW h \in Host
    PROVE  /\ Opened(h) \in Image /\ Opened(h).content = h.data
           /\ Opened(h).geo = IF h.format = "atr" THEN AtrGeometry(128 * Len(h.data), h.bps)
                                                  ELSE XfdGeometry(128 * Len(h.data))
           /\ Opened(h).type = h.format /\ Opened(h).named /\ Opened(h).open
           /\ Opened(h).geo.count < Word
<1>1. /\ h.data \in Seq(Nat) /\ h.bps \in SectorSizes /\ h.format \in {"atr", "xfd"}
      /\ h.size \in Nat BY DEF Host
<1>2. 128 * Len(h.data) \in Nat /\ Len(h.data) \in Nat BY <1>1
<1> DEFINE geo == IF h.format = "atr" THEN AtrGeometry(128 * Len(h.data), h.bps)
                                      ELSE XfdGeometry(128 * Len(h.data))
<1>3. geo \in Geometry /\ geo.count < Word BY <1>1, <1>2, Guessed
<1> DEFINE modified == h.format = "atr" /\ 128 * Len(h.data) # h.size
<1>4. modified \in BOOLEAN OBVIOUS
<1>5. Opened(h) = [content |-> h.data, pos |-> Len(h.data), geo |-> geo, modified |-> modified,
                   type |-> h.format, named |-> TRUE, open |-> TRUE]
  BY DEF Opened
<1> HIDE DEF geo, modified
<1>6. h.format \in Types BY <1>1 DEF Types
<1>7. Opened(h) \in Image BY <1>1, <1>2, <1>3, <1>4, <1>5, <1>6 DEF Image
<1> QED BY <1>3, <1>5, <1>7 DEF geo

(* A new file: what saveAtr would write of a formatted disk.               *)
LEMMA FreshHost ==
    ASSUME NEW g \in Geometry
    PROVE  Fresh(g) \in Host
<1>1. g.bps \in SectorSizes BY DEF Geometry
<1> QED BY <1>1, BlankSeq, SizeInUnits DEF Fresh, Host

(* What is left of a file is a file.                                       *)
LEMMA TruncatedHost ==
    ASSUME NEW file \in Host
    PROVE  Truncated(file) \subseteq Host
<1>1. file.data \in Seq(Nat) BY DEF Host
<1>2. ASSUME NEW n \in 0 .. Len(file.data) PROVE SubSeq(file.data, 1, n) \in Seq(Nat)
  BY <1>1
<1>3. ASSUME NEW n \in 0 .. Len(file.data)
      PROVE  [file EXCEPT !.data = SubSeq(file.data, 1, n)] \in Host
  BY <1>2 DEF Host
<1>4. [file EXCEPT !.format = "xfd", !.data = <<>>] \in Host
  <2>1. <<>> \in Seq(Nat) OBVIOUS
  <2> QED BY <2>1 DEF Host
<1> QED BY <1>3, <1>4 DEF Truncated

(* TypeOK, the counters one by one.                                        *)
Typed ==
    /\ image \in Image /\ host \in Host /\ output \in Host
    /\ lock \in {"none", "sio", "save", "explorer"}
    /\ (sio # Idle) <=> lock = "sio"
    /\ commands \in Nat /\ faults \in Nat /\ events \in Nat
    /\ auto \in BOOLEAN /\ upset \subseteq Upsets

(* The SIO thread's command and the GUI thread's save: their types, and    *)
(* that a save by the user or under another name has the image's lock.     *)
Commanded ==
    /\ sio \in [at : {"idle", "mark", "write", "read"}, sector : Nat, value : Nat]
    /\ sio.at = "idle" => sio = Idle

Saved ==
    /\ save \in [at : {"idle", "open", "copy", "read", "stuck"},
                 by : {"none", "user", "event", "as"}, size : Nat]
    /\ save.at = "idle" => save = NoSave
    /\ save.at \in {"open", "copy", "read"} =>
          image.open /\ save.by # "none" /\ (save.by # "event" => lock = "save")

(* The part of the invariant that needs no assumption.                     *)
Flat == Typed /\ Commanded /\ Saved

-----------------------------------------------------------------------------
(* A file is being written; and it is the image's own.                     *)
Copying == save.at \in {"copy", "read"}

Overwriting == Copying /\ Overwrites

(* The temporary file is as long as the geometry tells, and an ATR header  *)
(* can tell that geometry.                                                 *)
Sound(i) == 128 * Len(i.content) = TotalSize(i.geo) /\ i.geo.count < Word

(* Each sector of the image holds what it should.                          *)
Holds(i, contents) ==
    /\ DOMAIN contents = 1 .. i.geo.count
    /\ \A s \in 1 .. i.geo.count : \A k \in 1 .. Units(BytesPerSector(i.geo, s)) :
          i.content[Units(SectorPos(i.geo, s)) + k] = contents[s]

(* The file, opened again, is the image.                                   *)
InFile == Opens(host) /\ Opened(host).content = image.content /\ Opened(host).geo = image.geo

(* The SIO thread has the temporary file's position to itself, it is where *)
(* the command sought, and the change it makes is announced.               *)
Alone == Intact =>
    /\ save.at # "stuck"
    /\ sio # Idle =>
          /\ save.at = "idle" /\ image.open
          /\ sio.sector \in 1 .. image.geo.count
          /\ image.pos = Units(SectorPos(image.geo, sio.sector))
          /\ sio.at = "write" => image.modified

Sectored == Intact /\ image.open => Sound(image) /\ Holds(image, put)

(* A save has written its file up to the temporary file's position, as     *)
(* what the file's name tells.                                             *)
Copied == Intact /\ Copying =>
    /\ output.format = image.type /\ image.type # "dcm"
    /\ output.format = "xfd" => output.name = "xfd"
    /\ output.bps = image.geo.bps /\ output.size = TotalSize(image.geo)
    /\ image.pos <= Len(image.content) /\ output.data = SubSeq(image.content, 1, image.pos)
    /\ save.at = "read" => save.size = Len(image.content) - image.pos

(* Committed, also while the SIO thread or the explorer uses the image, or *)
(* another file is written.                                                *)
Filed == Intact /\ image.open /\ image.named /\ ~image.modified /\ ~Overwriting => InFile

(* Unless a save that failed has torn it, the file can be opened after a   *)
(* death, and holds what was last saved.                                   *)
Restored == Intact /\ "torn" \notin upset /\ ~Overwriting =>
    Opens(host) /\ Sound(Opened(host)) /\ Holds(Opened(host), kept)

-----------------------------------------------------------------------------
(* The units of a sector, for any number the Atari may ask for.            *)
LEMMA SomeUnits ==
    ASSUME NEW g \in Geometry, NEW s
    PROVE  Units(BytesPerSector(g, s)) \in Nat
<1>1. g.bps \in {128, 256, 512, 8192} BY GeometryFields
<1>2. BytesPerSector(g, s) \in Nat BY <1>1 DEF BytesPerSector
<1> QED BY <1>2, UnitsNat

(* Whatever is written to it or read from it, an image stays one.          *)
LEMMA ImageWith ==
    ASSUME NEW i \in Image, NEW content \in Seq(Nat), NEW pos \in Nat
    PROVE  /\ [i EXCEPT !.content = content, !.pos = pos] \in Image
           /\ [i EXCEPT !.pos = pos] \in Image /\ Marked(i) \in Image
BY DEF Image, Marked

(* An image that is not used by anybody satisfies the types.               *)
LEMMA FlatInit == Init => Flat
<1> SUFFICES ASSUME Init PROVE Flat OBVIOUS
<1>1. [count |-> 0, bps |-> 128] \in Geometry BY DEF Geometry, SectorSizes
<1>2. host \in Host /\ output = host BY <1>1, FreshHost, DiskAssumption DEF Init
<1>3. image \in Image
  <2>1. Opened(host) \in Image BY <1>2, OpenedImage
  <2>2. [Opened(host) EXCEPT !.named = FALSE] \in Image BY <2>1 DEF Image
  <2> QED BY <2>1, <2>2 DEF Init
<1>4. sio = Idle /\ save = NoSave /\ lock = "none" /\ commands = 0 /\ faults = 0 /\ events = 0
      /\ auto = FALSE /\ upset = {}
  BY DEF Init
<1>5. Typed BY <1>2, <1>3, <1>4 DEF Typed
<1>6. Commanded BY <1>4 DEF Commanded, Idle
<1>7. Saved BY <1>4 DEF Saved, NoSave
<1> QED BY <1>5, <1>6, <1>7 DEF Flat

(* The commands of the SIO thread keep the types.                          *)
LEMMA FlatAtari ==
    ASSUME Flat, WriteStart \/ WriteMark \/ WriteData \/ ReadStart \/ ReadData \/ Format
    PROVE  Flat'
<1> USE DEF Flat, Typed, Commanded, Saved, gui, ghost, files
<1>1. ASSUME NEW s \in 1 .. image.geo.count PROVE Seek(s) \in Image
  <2>1. image.geo \in Geometry BY DEF Image
  <2>2. PICK p \in Nat : p = Units(SectorPos(image.geo, s)) BY <2>1, SectorUnits
  <2>3. Seek(s) = [image EXCEPT !.pos = p] BY <2>2 DEF Seek
  <2> QED BY <2>3 DEF Image
<1>2. \A s : UnitsOf(s) \in Nat BY SomeUnits DEF UnitsOf, Image
<1>3. CASE WriteStart
  <2>1. PICK s \in Sectors : /\ Command(s) /\ image' = Seek(s)
                             /\ sio' = [at |-> "mark", sector |-> s, value |-> commands']
    BY <1>3 DEF WriteStart
  <2>2. image' \in Image BY <1>1, <2>1 DEF Command
  <2>3. upset' \subseteq Upsets BY <1>3 DEF WriteStart, Note, Overlapping, If, Upsets
  <2>4. commands' \in Nat /\ lock' = "sio" /\ sio.at = "idle" BY <2>1 DEF Command, Asked, Idle
  <2>5. s \in Nat BY DiskAssumption
  <2>6. UNCHANGED <<files, save, auto, events, faults>> BY <1>3 DEF WriteStart, Atari
  <2>7. image'.open = image.open BY <2>1 DEF Seek, Image
  <2>8. lock = "none" BY <2>1 DEF Command
  <2> QED BY <2>1, <2>2, <2>3, <2>4, <2>5, <2>6, <2>7, <2>8 DEF Idle
<1>4. CASE ReadStart
  <2>1. PICK s \in Sectors : /\ Command(s) /\ image' = Seek(s)
                             /\ sio' = [at |-> "read", sector |-> s, value |-> 0]
    BY <1>4 DEF ReadStart
  <2>2. image' \in Image BY <1>1, <2>1 DEF Command
  <2>3. upset' \subseteq Upsets BY <1>4 DEF ReadStart, Note, Overlapping, If, Upsets
  <2>4. commands' \in Nat /\ lock' = "sio" /\ sio.at = "idle" BY <2>1 DEF Command, Asked, Idle
  <2>5. s \in Nat BY DiskAssumption
  <2>6. UNCHANGED <<files, save, auto, events, faults>> BY <1>4 DEF ReadStart, Atari
  <2>7. image'.open = image.open BY <2>1 DEF Seek, Image
  <2>8. lock = "none" BY <2>1 DEF Command
  <2> QED BY <2>1, <2>2, <2>3, <2>4, <2>5, <2>6, <2>7, <2>8 DEF Idle
<1>5. CASE WriteMark
  <2>1. image' \in Image /\ image'.open = image.open
    BY <1>5, ImageWith DEF WriteMark, Marked, Image
  <2>2. sio' # Idle /\ sio # Idle BY <1>5 DEF WriteMark, Idle
  <2> QED BY <1>5, <2>1, <2>2 DEF WriteMark, Atari, Idle
<1>6. CASE WriteData
  <2>1. image' \in Image /\ image'.open = image.open
    <3> DEFINE n == UnitsOf(sio.sector)
    <3>1. n \in Nat /\ image.pos \in Nat /\ image.content \in Seq(Nat) BY <1>2 DEF Image
    <3>2. WriteAt(image.content, image.pos, sio.value, n) \in Seq(Nat) BY <3>1, Written
    <3>3. image.pos + n \in Nat BY <3>1
    <3>4. image' = image
            \/ image' = [image EXCEPT !.content = WriteAt(image.content, image.pos, sio.value, n),
                                      !.pos = image.pos + n]
      BY <1>6 DEF WriteData
    <3>5. PICK w \in Seq(Nat), p \in Nat : image' = image \/ image' = [image EXCEPT !.content = w, !.pos = p]
      BY <3>2, <3>3, <3>4
    <3> QED BY <3>5 DEF Image
  <2>2. upset' \subseteq Upsets BY <1>6 DEF WriteData, Note, Overlapping, If, Upsets
  <2>3. sio # Idle BY <1>6 DEF WriteData, Idle
  <2>4. faults' \in Nat BY <1>6 DEF WriteData, Fault
  <2>5. sio' = Idle /\ lock' = "none" /\ UNCHANGED <<files, save, auto, events, commands>>
    BY <1>6 DEF WriteData, Atari
  <2> QED BY <2>1, <2>2, <2>3, <2>4, <2>5 DEF Idle
<1>7. CASE ReadData
  <2>1. image' \in Image /\ image'.open = image.open
    <3> DEFINE k == Len(Found(image, UnitsOf(sio.sector)))
    <3>1. k \in Nat BY <1>2, FoundSeq
    <3>2. image' = [image EXCEPT !.pos = image.pos + k] BY <1>7 DEF ReadData
    <3> HIDE DEF k
    <3>3. image.pos + k \in Nat BY <3>1 DEF Image
    <3> QED BY <3>2, <3>3 DEF Image
  <2>2. sio # Idle BY <1>7 DEF ReadData, Idle
  <2>3. sio' = Idle /\ lock' = "none" /\ UNCHANGED <<files, save, auto, events, commands, faults, upset>>
    BY <1>7 DEF ReadData, Atari
  <2> QED BY <2>1, <2>2, <2>3 DEF Idle
<1>8. CASE Format
  <2>1. PICK g \in Geometries : \E content \in {Blank(g), <<>>, image.content} :
          image' = Marked([image EXCEPT !.content = content, !.geo = g,
                                        !.pos = IF @ > Len(content) THEN Len(content) ELSE @])
    BY <1>8 DEF Format
  <2>2. image' \in Image /\ image'.open = image.open
    <3>0. PICK content \in {Blank(g), <<>>, image.content} :
            image' = Marked([image EXCEPT !.content = content, !.geo = g,
                                          !.pos = IF @ > Len(content) THEN Len(content) ELSE @])
      BY <2>1
    <3>1. g \in Geometry BY DiskAssumption
    <3>2. content \in Seq(Nat)
      <4>1. Blank(g) \in Seq(Nat) BY <3>1, BlankSeq
      <4>2. image.content \in Seq(Nat) BY DEF Image
      <4>3. <<>> \in Seq(Nat) OBVIOUS
      <4> QED BY <3>0, <4>1, <4>2, <4>3
    <3>3. Len(content) \in Nat BY <3>2
    <3> QED BY <3>0, <3>1, <3>2, <3>3 DEF Image, Marked
  <2>3. upset' \subseteq Upsets BY <1>8 DEF Format, Note, Overlapping, If, Upsets
  <2>4. faults' \in Nat /\ commands' \in Nat /\ events' \in Nat
    <3>1. Asked /\ (Fault \/ UNCHANGED faults) /\ events' = events + 1 BY <1>8 DEF Format
    <3> QED BY <3>1 DEF Asked, Fault
  <2>5. UNCHANGED <<files, save, auto, lock, sio>> BY <1>8 DEF Format, Atari
  <2> QED BY <2>2, <2>3, <2>4, <2>5
<1> QED BY <1>3, <1>4, <1>5, <1>6, <1>7, <1>8

(* The engine's and the explorer's calls keep the types.                   *)
LEMMA FlatGui ==
    ASSUME Flat, StatusChanged \/ SaveDisk \/ SaveAs \/ Toggle \/ Explore \/ ExplorerWrites \/ Close
    PROVE  Flat'
<1> USE DEF Flat, Typed, Commanded, Saved, gui, ghost, files
<1>1. CASE StatusChanged
  BY <1>1 DEF StatusChanged, Free, Save, NoSave
<1>2. CASE SaveDisk
  BY <1>2 DEF SaveDisk, Free, Save, NoSave, Asked, Idle
<1>3. CASE SaveAs
  <2>1. image' \in Image /\ image'.open = image.open BY <1>3 DEF SaveAs, Image
  <2> QED BY <1>3, <2>1 DEF SaveAs, Free, Save, NoSave, Asked, Idle
<1>4. CASE Toggle
  <2>1. upset' \subseteq Upsets BY <1>4 DEF Toggle, Note, Upsets
  <2> QED BY <1>4, <2>1 DEF Toggle, Free, Save, NoSave, Asked, Idle
<1>5. CASE Explore
  BY <1>5 DEF Explore, Free, NoSave, Idle
<1>6. CASE Close
  BY <1>6 DEF Close, Free, NoSave, Idle
<1>7. CASE ExplorerWrites
  <2>1. PICK s \in Sectors \cap 1 .. image.geo.count :
          /\ image' = Marked([image EXCEPT !.content = WriteAt(@, Seek(s).pos, commands', UnitsOf(s)),
                                           !.pos = Seek(s).pos + UnitsOf(s)])
    BY <1>7 DEF ExplorerWrites
  <2>2. image.geo \in Geometry /\ image.content \in Seq(Nat) BY DEF Image
  <2>3. Seek(s).pos = Units(SectorPos(image.geo, s)) BY DEF Seek, Image
  <2>4. Seek(s).pos \in Nat /\ UnitsOf(s) \in Nat BY <2>2, <2>3, SectorUnits, SomeUnits DEF UnitsOf
  <2>0. Asked /\ events' = IF image.modified THEN events ELSE events + 1 BY <1>7 DEF ExplorerWrites
  <2>5. commands' \in Nat BY <2>0 DEF Asked
  <2>6. WriteAt(image.content, Seek(s).pos, commands', UnitsOf(s)) \in Seq(Nat)
    BY <2>2, <2>4, <2>5, Written
  <2>7. PICK w \in Seq(Nat), p \in Nat : image' = Marked([image EXCEPT !.content = w, !.pos = p])
    <3>1. Seek(s).pos + UnitsOf(s) \in Nat BY <2>4
    <3> QED BY <2>1, <2>6, <3>1
  <2>8. image' \in Image /\ image'.open = image.open BY <2>7 DEF Image, Marked
  <2>9. events' \in Nat BY <2>0
  <2> QED BY <1>7, <2>5, <2>8, <2>9 DEF ExplorerWrites, Free, Idle
<1> QED BY <1>1, <1>2, <1>3, <1>4, <1>5, <1>6, <1>7

(* The steps of a save, and a death, keep the types.                       *)
LEMMA FlatSave ==
    ASSUME Flat, SaveOpens \/ SaveReads \/ SaveCopies \/ SaveDone \/ Killed
    PROVE  Flat'
<1> USE DEF Flat, Typed, Commanded, Saved, gui, ghost, files
<1>1. ASSUME EndSave
      PROVE  /\ lock' \in {"none", "sio", "save", "explorer"} /\ (lock = "sio" <=> lock' = "sio")
             /\ save' = NoSave
  BY <1>1 DEF EndSave
<1>2. ASSUME NEW names \in SUBSET Upsets, Fails(names), Saver, host' \in Host, faults' \in Nat PROVE Flat'
  <2>1. UNCHANGED <<image, events, sio, auto, commands>> BY <1>2 DEF Fails, Saver
  <2>2. upset' \subseteq Upsets /\ output' = host' /\ EndSave BY <1>2 DEF Fails, Note, Upsets
  <2> QED BY <1>1, <1>2, <2>1, <2>2 DEF NoSave
<1>0. {} \in SUBSET Upsets /\ Torn \in SUBSET Upsets BY DEF Torn, If, Upsets
<1>8. ASSUME ~Refused PROVE Emptied \in Host
  <2>1. image.geo \in Geometry /\ image.geo.bps \in SectorSizes BY DEF Image, Geometry
  <2>2. image.type \in {"atr", "xfd"} BY <1>8 DEF Image, Types, Refused
  <2>3. Target \in {"atr", "xfd"} BY <2>2 DEF Target, Host
  <2>4. TotalSize(image.geo) \in Nat BY <2>1, SizeInUnits
  <2> QED BY <2>1, <2>2, <2>3, <2>4 DEF Emptied, Host
<1>9. ASSUME NEW file \in Host, Fault, Breaks(file), Saver PROVE Flat'
  <2>1. host' \in Host BY <1>9, TruncatedHost DEF Breaks
  <2>2. faults' \in Nat BY <1>9 DEF Fault
  <2>3. Fails(Torn) BY <1>9 DEF Breaks
  <2> QED BY <1>0, <1>2, <1>9, <2>1, <2>2, <2>3
<1>10. ASSUME NEW file \in Host, Writes(file), save.at \in {"open", "read"},
              save' = [save EXCEPT !.at = "copy"], image' \in Image, image'.open = image.open,
              UNCHANGED <<lock, events, faults, sio, auto, commands>>, upset' \subseteq Upsets
       PROVE  Flat'
  <2>1. host' \in Host /\ output' \in Host BY <1>10 DEF Writes
  <2>2. save' \in [at : {"idle", "open", "copy", "read", "stuck"},
                   by : {"none", "user", "event", "as"}, size : Nat]
        /\ save'.at = "copy" /\ save'.by = save.by
    BY <1>10
  <2> QED BY <1>10, <2>1, <2>2
<1>3. CASE SaveOpens
  <2>1. Saver /\ save.at = "open" BY <1>3 DEF SaveOpens, Saving
  <2>2. CASE Refused /\ UNCHANGED <<host, faults>> /\ Fails({}) BY <1>0, <1>2, <2>1, <2>2
  <2>3. CASE Fault /\ UNCHANGED host /\ Fails({})
    <3>1. faults' \in Nat BY <2>3 DEF Fault
    <3> QED BY <1>0, <1>2, <2>1, <2>3, <3>1
  <2>4. CASE ~Refused /\ Fault /\ Breaks(Emptied) BY <1>8, <1>9, <2>1, <2>4
  <2>5. CASE /\ ~Refused /\ Writes(Emptied)
             /\ save' = [save EXCEPT !.at = "copy"] /\ image' = [image EXCEPT !.pos = 0]
             /\ Note(If(image.type = "xfd" /\ Target # "xfd", "retyped"))
             /\ UNCHANGED <<lock, events, faults, kept>>
    <3>1. image' \in Image /\ image'.open = image.open BY <2>5 DEF Image
    <3>2. upset' \subseteq Upsets BY <2>5 DEF Note, If, Upsets
    <3>3. UNCHANGED <<sio, auto, commands>> BY <2>1 DEF Saver
    <3> QED BY <1>8, <1>10, <2>1, <2>5, <3>1, <3>2, <3>3
  <2> QED BY <1>3, <2>2, <2>3, <2>4, <2>5 DEF SaveOpens
<1>4. CASE SaveReads
  <2>1. Len(image.content) - image.pos \in Nat BY <1>4 DEF SaveReads, Image
  <2> QED BY <1>4, <2>1 DEF SaveReads, Saver, Saving
<1>5. CASE SaveCopies
  <2> DEFINE buffer == Found(image, save.size)
  <2>1. Saver /\ save.at = "read" BY <1>5 DEF SaveCopies, Saving
  <2>2. buffer \in Seq(Nat) /\ Len(buffer) \in Nat BY FoundSeq
  <2>3. \/ UNCHANGED <<host, faults>> /\ Fails(Torn)
        \/ Fault /\ Breaks(Grown(buffer))
        \/ /\ Writes(Grown(buffer)) /\ image' = [image EXCEPT !.pos = image.pos + Len(buffer)]
           /\ save' = [save EXCEPT !.at = "copy"] /\ UNCHANGED <<lock, events, faults, kept, upset>>
    BY <1>5 DEF SaveCopies
  <2> HIDE DEF buffer
  <2>4. Grown(buffer) \in Host
    <3>1. output.data \o buffer \in Seq(Nat) BY <2>2 DEF Host
    <3> QED BY <3>1 DEF Grown, Host
  <2>5. CASE UNCHANGED <<host, faults>> /\ Fails(Torn) BY <1>0, <1>2, <2>1, <2>5
  <2>6. CASE Fault /\ Breaks(Grown(buffer)) BY <1>9, <2>1, <2>4, <2>6
  <2>7. CASE /\ Writes(Grown(buffer)) /\ image' = [image EXCEPT !.pos = image.pos + Len(buffer)]
             /\ save' = [save EXCEPT !.at = "copy"] /\ UNCHANGED <<lock, events, faults, kept, upset>>
    <3>1. image' \in Image /\ image'.open = image.open
      <4>1. image.pos + Len(buffer) \in Nat BY <2>2 DEF Image
      <4> QED BY <2>7, <4>1 DEF Image
    <3>2. UNCHANGED <<sio, auto, commands>> BY <2>1 DEF Saver
    <3> QED BY <1>10, <2>1, <2>4, <2>7, <3>1, <3>2
  <2> QED BY <2>3, <2>5, <2>6, <2>7
<1>6. CASE SaveDone
  <2>1. image' \in Image BY <1>6 DEF SaveDone, Image
  <2>2. upset' \subseteq Upsets BY <1>6 DEF SaveDone, If, Upsets
  <2>3. host' \in Host /\ output' = host' BY <1>6, TruncatedHost DEF SaveDone
  <2>4. faults' \in Nat /\ events' \in Nat BY <1>6 DEF SaveDone, Fault
  <2>5. UNCHANGED <<sio, auto, commands>> /\ EndSave BY <1>6 DEF SaveDone, Saver
  <2> QED BY <1>1, <2>1, <2>2, <2>3, <2>4, <2>5 DEF NoSave
<1>7. CASE Killed
  <2>1. image' \in Image
    <3>1. Opened(host) \in Image BY OpenedImage
    <3>2. [image EXCEPT !.open = FALSE] \in Image BY DEF Image
    <3> QED BY <1>7, <3>1, <3>2 DEF Killed
  <2>2. upset' \subseteq Upsets BY <1>7 DEF Killed, Note, If, Upsets
  <2>3. faults' \in Nat BY <1>7 DEF Killed, Fault
  <2>4. /\ lock' = "none" /\ sio' = Idle /\ save' = NoSave /\ events' = 0 /\ auto' = FALSE
        /\ UNCHANGED <<host, commands>> /\ output' = host
    BY <1>7 DEF Killed
  <2>5. Typed' BY <2>1, <2>2, <2>3, <2>4 DEF Idle
  <2> QED BY <2>4, <2>5 DEF Idle, NoSave
<1> QED BY <1>3, <1>4, <1>5, <1>6, <1>7

LEMMA FlatNext == Flat /\ [Next]_vars => Flat'
<1>1. ASSUME Flat, UNCHANGED vars PROVE Flat'
  BY <1>1 DEF vars, gui, ghost, files, Flat, Typed, Commanded, Saved
<1> QED BY <1>1, FlatAtari, FlatGui, FlatSave DEF Next

-----------------------------------------------------------------------------
(* A sector written at its place: the others keep what they hold.          *)
LEMMA WriteHolds ==
    ASSUME NEW i \in Image, NEW j, NEW c, NEW s \in 1 .. i.geo.count, NEW v \in Nat,
           Sound(i), Holds(i, c), j.geo = i.geo,
           j.content = WriteAt(i.content, Units(SectorPos(i.geo, s)), v, Units(BytesPerSector(i.geo, s)))
    PROVE  Sound(j) /\ Holds(j, [t \in DOMAIN c \cup {s} |-> IF t = s THEN v ELSE c[t]])
<1>1. PICK g \in Geometry : g = i.geo BY DEF Image
<1>2. PICK f \in Seq(Nat) : f = i.content BY DEF Image
<1> DEFINE p(t) == Units(SectorPos(g, t))
           n(t) == Units(BytesPerSector(g, t))
<1>3. g.count \in Nat BY GeometryFields
<1>4. Len(f) = Units(TotalSize(g)) /\ 128 * Len(f) = TotalSize(g) /\ g.count < Word
  <2>1. 128 * Len(f) = TotalSize(g) /\ g.count < Word BY <1>1, <1>2 DEF Sound
  <2>2. 128 * Units(TotalSize(g)) = TotalSize(g) /\ Units(TotalSize(g)) \in Nat BY SizeInUnits
  <2>3. Len(f) \in Nat OBVIOUS
  <2> QED BY <2>1, <2>2, <2>3
<1>5. \A t \in 1 .. g.count : p(t) \in Nat /\ n(t) \in Nat /\ p(t) + n(t) <= Len(f)
  BY <1>4, SectorUnits, SectorPlaces
<1>6. \A t, u \in 1 .. g.count : t < u => p(t) + n(t) <= p(u) BY SectorPlaces
<1>7. DOMAIN c = 1 .. g.count /\ \A t \in 1 .. g.count : \A k \in 1 .. n(t) : f[p(t) + k] = c[t]
  BY <1>1, <1>2 DEF Holds
<1>8. s \in 1 .. g.count BY <1>1
<1>9. PICK w : w = WriteAt(f, p(s), v, n(s)) OBVIOUS
<1>10. j.content = w /\ j.geo = g BY <1>1, <1>2, <1>9
<1> HIDE DEF p, n
<1>11. Len(w) = Len(f) /\ \A k \in 1 .. Len(f) : w[k] = IF k \in p(s) + 1 .. p(s) + n(s) THEN v ELSE f[k]
  <2>1. p(s) \in Nat /\ n(s) \in Nat /\ p(s) + n(s) <= Len(f) BY <1>5, <1>8
  <2> QED BY <1>9, <2>1, Written
<1>12. PICK d : d = [t \in DOMAIN c \cup {s} |-> IF t = s THEN v ELSE c[t]] OBVIOUS
<1>13. DOMAIN d = 1 .. g.count /\ \A t \in 1 .. g.count : d[t] = IF t = s THEN v ELSE c[t]
  <2>1. DOMAIN c \cup {s} = 1 .. g.count BY <1>7, <1>8
  <2> QED BY <1>12, <2>1
<1>14. ASSUME NEW t \in 1 .. g.count, NEW k \in 1 .. n(t) PROVE w[p(t) + k] = d[t]
  <2>1. /\ p(t) \in Nat /\ n(t) \in Nat /\ p(t) + n(t) <= Len(f) /\ p(s) \in Nat /\ n(s) \in Nat
    BY <1>5, <1>8
  <2>2. p(t) + k \in 1 .. Len(f) BY <2>1
  <2>3. w[p(t) + k] = IF p(t) + k \in p(s) + 1 .. p(s) + n(s) THEN v ELSE f[p(t) + k]
    BY <1>11, <2>2
  <2>4. f[p(t) + k] = c[t] BY <1>7
  <2>5. CASE t = s
    <3>1. p(t) + k \in p(s) + 1 .. p(s) + n(s) BY <2>1, <2>5
    <3> QED BY <1>13, <2>3, <2>5, <3>1
  <2>6. CASE t < s
    <3>1. p(t) + n(t) <= p(s) BY <1>6, <1>8, <2>6
    <3>2. p(t) + k \notin p(s) + 1 .. p(s) + n(s) BY <2>1, <3>1
    <3> QED BY <1>13, <2>3, <2>4, <2>6, <3>2
  <2>7. CASE s < t
    <3>1. p(s) + n(s) <= p(t) BY <1>6, <1>8, <2>7
    <3>2. p(t) + k \notin p(s) + 1 .. p(s) + n(s) BY <2>1, <3>1
    <3> QED BY <1>13, <2>3, <2>4, <2>7, <3>2
  <2>8. s \in Nat /\ t \in Nat BY <1>3, <1>8
  <2> QED BY <2>5, <2>6, <2>7, <2>8
<1>15. Sound(j) BY <1>4, <1>10, <1>11 DEF Sound
<1>16. Holds(j, d) BY <1>10, <1>13, <1>14 DEF Holds, p, n
<1> QED BY <1>12, <1>15, <1>16

(* A formatted disk holds zeros.                                           *)
LEMMA BlankHolds ==
    ASSUME NEW g \in Geometry, g.count < Word, NEW j, j.content = Blank(g), j.geo = g
    PROVE  Sound(j) /\ Holds(j, Zeros(g))
<1>1. 128 * Len(Blank(g)) = TotalSize(g) BY BlankSeq, SizeInUnits
<1>2. DOMAIN Zeros(g) = 1 .. g.count /\ \A s \in 1 .. g.count : Zeros(g)[s] = 0 BY DEF Zeros
<1>3. ASSUME NEW s \in 1 .. g.count, NEW k \in 1 .. Units(BytesPerSector(g, s))
      PROVE  Blank(g)[Units(SectorPos(g, s)) + k] = 0
  <2>1. PICK p \in Nat : p = Units(SectorPos(g, s)) BY SectorUnits
  <2>2. PICK n \in Nat : n = Units(BytesPerSector(g, s)) BY SectorUnits
  <2>3. PICK m \in Nat : m = Units(TotalSize(g)) BY SizeInUnits
  <2>4. p + n <= m BY <2>1, <2>2, <2>3, SectorPlaces
  <2>5. p + k \in 1 .. m BY <2>2, <2>4
  <2> QED BY <2>1, <2>3, <2>5, BlankSeq
<1> QED BY <1>1, <1>2, <1>3 DEF Sound, Holds

(* A sector's units, all from one write.                                   *)
All(n, v) == [k \in 1 .. n |-> v]

(* readData at the place of a sector finds what the sector holds.          *)
LEMMA ReadsHeld ==
    ASSUME NEW i \in Image, NEW c, NEW s \in 1 .. i.geo.count, Sound(i), Holds(i, c),
           i.pos = Units(SectorPos(i.geo, s))
    PROVE  Found(i, Units(BytesPerSector(i.geo, s))) = All(Units(BytesPerSector(i.geo, s)), c[s])
<1>1. PICK g \in Geometry : g = i.geo BY DEF Image
<1>2. PICK f \in Seq(Nat) : f = i.content BY DEF Image
<1>3. PICK p \in Nat : p = Units(SectorPos(g, s)) BY <1>1, SectorUnits
<1>4. PICK n \in Nat \ {0} : n = Units(BytesPerSector(g, s)) BY <1>1, SectorUnits
<1>5. p + n <= Len(f)
  <2>1. 128 * Len(f) = TotalSize(g) BY <1>1, <1>2 DEF Sound
  <2>2. 128 * Units(TotalSize(g)) = TotalSize(g) /\ Units(TotalSize(g)) \in Nat BY SizeInUnits
  <2>3. Len(f) \in Nat OBVIOUS
  <2>4. Len(f) = Units(TotalSize(g)) BY <2>1, <2>2, <2>3
  <2> QED BY <1>1, <1>3, <1>4, <2>4, SectorPlaces
<1>6. \A k \in 1 .. n : f[p + k] = c[s] BY <1>1, <1>2, <1>3, <1>4 DEF Holds
<1>7. i.pos = p BY <1>1, <1>3
<1>8. Found(i, n) = SubSeq(f, p + 1, p + n)
  <2>1. i.pos < Len(i.content) /\ i.pos + n <= Len(i.content) BY <1>2, <1>4, <1>5, <1>7
  <2> QED BY <1>2, <1>7, <2>1, FoundSeq
<1>9. SubSeq(f, p + 1, p + n) = [k \in 1 .. n |-> c[s]]
  <2>1. /\ SubSeq(f, p + 1, p + n) \in Seq(Nat) /\ Len(SubSeq(f, p + 1, p + n)) = n
        /\ \A k \in 1 .. n : SubSeq(f, p + 1, p + n)[k] = f[p + k]
    <3>1. p + n \in Nat /\ p <= p + n /\ p + n - p = n OBVIOUS
    <3> QED BY <1>5, <3>1, PartSeq
  <2>2. PICK q \in Seq(Nat) : q = SubSeq(f, p + 1, p + n) BY <2>1
  <2>3. DOMAIN q = 1 .. n
    <3>1. Len(q) = n BY <2>1, <2>2
    <3> QED BY <2>2, <3>1
  <2>4. \A k \in 1 .. n : q[k] = c[s] BY <1>6, <2>1, <2>2
  <2>5. q = [k \in DOMAIN q |-> q[k]] OBVIOUS
  <2> QED BY <2>2, <2>3, <2>4, <2>5
<1> QED BY <1>1, <1>4, <1>8, <1>9 DEF All

(* saveAtr and saveXfd, then open: the geometry comes back, of an XFD file *)
(* if its size tells it.                                                   *)
LEMMA SavedOpens ==
    ASSUME NEW h \in Host, NEW g \in Geometry, g.count < Word, 128 * Len(h.data) = TotalSize(g),
           h.bps = g.bps, h.format = "xfd" => h.name = "xfd" /\ XfdGeometry(TotalSize(g)) = g
    PROVE  Opens(h) /\ Opened(h).content = h.data /\ Opened(h).geo = g
<1>1. Opened(h).content = h.data
      /\ Opened(h).geo = IF h.format = "atr" THEN AtrGeometry(TotalSize(g), g.bps) ELSE XfdGeometry(TotalSize(g))
  BY OpenedImage
<1>2. h.format \in {"atr", "xfd"} BY DEF Host
<1>3. AtrCount(TotalSize(g), g.bps) = g.count /\ SizeValid(TotalSize(g), g.bps) BY AtrReopens
<1>4. g = [count |-> g.count, bps |-> g.bps] BY DEF Geometry
<1>5. AtrGeometry(TotalSize(g), g.bps) = g BY <1>3, <1>4 DEF AtrGeometry
<1>6. Opens(h) BY <1>2, <1>3 DEF Opens
<1> QED BY <1>1, <1>2, <1>5, <1>6

-----------------------------------------------------------------------------
(* The part of the invariant that is about the sectors and the file.       *)
Kept == Alone /\ Sectored /\ Copied /\ Filed /\ Restored

(* What went wrong is remembered, but that the file was torn until it is   *)
(* saved again.                                                            *)
LEMMA StillIntact ==
    ASSUME [Next]_vars, Intact'
    PROVE  Intact /\ (~SaveDone => upset \subseteq upset')
<1>1. CASE SaveDone
  <2>1. upset \ {"torn"} \subseteq upset' BY <1>1 DEF SaveDone
  <2> QED BY <1>1, <2>1 DEF Intact
<1>2. CASE ~SaveDone
  <2>1. upset \subseteq upset'
    <3>0. ASSUME NEW names, Fails(names) PROVE upset \subseteq upset' BY <3>0 DEF Fails, Note
    <3>1. CASE UNCHANGED vars BY <3>1 DEF vars
    <3>2. CASE SaveOpens BY <3>0, <3>2 DEF SaveOpens, Breaks, Note
    <3>3. CASE SaveCopies BY <3>0, <3>3 DEF SaveCopies, Breaks
    <3>4. CASE SaveReads BY <3>4 DEF SaveReads
    <3>5. CASE Killed BY <3>5 DEF Killed, Note
    <3>6. CASE WriteStart BY <3>6 DEF WriteStart, Note
    <3>7. CASE WriteMark BY <3>7 DEF WriteMark
    <3>8. CASE WriteData BY <3>8 DEF WriteData, Note
    <3>9. CASE ReadStart BY <3>9 DEF ReadStart, Note
    <3>10. CASE ReadData BY <3>10 DEF ReadData
    <3>11. CASE Format BY <3>11 DEF Format, Note
    <3>12. CASE StatusChanged BY <3>12 DEF StatusChanged
    <3>13. CASE SaveDisk BY <3>13 DEF SaveDisk
    <3>14. CASE SaveAs BY <3>14 DEF SaveAs
    <3>15. CASE Toggle BY <3>15 DEF Toggle, Note
    <3>16. CASE Explore BY <3>16 DEF Explore
    <3>17. CASE ExplorerWrites BY <3>17 DEF ExplorerWrites
    <3>18. CASE Close BY <3>18 DEF Close
    <3> QED
      BY <1>2, <3>1, <3>2, <3>3, <3>4, <3>5, <3>6, <3>7, <3>8, <3>9, <3>10, <3>11, <3>12, <3>13,
         <3>14, <3>15, <3>16, <3>17, <3>18 DEF Next
  <2> QED BY <2>1 DEF Intact
<1> QED BY <1>1, <1>2

(* A step that leaves the sectors and the file alone keeps what they are.  *)
LEMMA Untouched ==
    ASSUME Kept, Intact, upset \subseteq upset', UNCHANGED <<host, put, kept>>,
           image'.content = image.content, image'.geo = image.geo, image'.open = image.open,
           image'.named = image.named, image.modified => image'.modified, Overwriting => Overwriting'
    PROVE  Sectored' /\ Filed' /\ Restored'
<1>1. Sectored' BY DEF Kept, Sectored, Sound, Holds
<1>2. Filed' BY DEF Kept, Filed, InFile
<1>3. Restored' BY DEF Kept, Restored
<1> QED BY <1>1, <1>2, <1>3

(* Under Intact, the SIO thread begins and works while nobody saves: the    *)
(* user's save has the lock, and another is noted in Upsets.               *)
LEMMA NobodySaves ==
    ASSUME Flat, Kept, Intact, lock = "none", "overlap" \notin Overlapping
    PROVE  save = NoSave
<1>1. save.by # "event" BY DEF Overlapping, If
<1>2. save.at \notin {"open", "copy", "read"} BY <1>1 DEF Flat, Saved
<1>3. save.at = "idle" BY <1>2 DEF Flat, Saved, Kept, Alone
<1> QED BY <1>3 DEF Flat, Saved

LEMMA KeptStart ==
    ASSUME Flat, Kept, Intact, Intact', upset \subseteq upset', WriteStart \/ ReadStart
    PROVE  Kept'
<1>1. PICK s \in Sectors : /\ Command(s) /\ image' = Seek(s) /\ Note(Overlapping)
                           /\ UNCHANGED <<host, save, ghost>>
                           /\ sio'.sector = s /\ sio'.at \in {"mark", "read"}
  BY DEF WriteStart, ReadStart, Atari, files
<1>2. save = NoSave
  <2>1. "overlap" \notin upset' BY DEF Intact
  <2>2. "overlap" \notin Overlapping BY <1>1, <2>1 DEF Note
  <2> QED BY <1>1, <2>2, NobodySaves DEF Command
<1>3. /\ image'.content = image.content /\ image'.geo = image.geo /\ image'.open = image.open
      /\ image'.named = image.named /\ image'.modified = image.modified /\ image'.type = image.type
      /\ image'.pos = Units(SectorPos(image.geo, s))
  BY <1>1 DEF Seek, Flat, Typed, Image
<1>4. image.open /\ s \in 1 .. image.geo.count BY <1>1 DEF Command
<1>5. Alone' BY <1>1, <1>2, <1>3, <1>4 DEF Alone, NoSave
<1>6. Sectored' /\ Filed' /\ Restored' BY <1>1, <1>3, Untouched DEF Overwriting, Copying, Overwrites, ghost, files
<1>7. Copied' BY <1>1, <1>2 DEF Copied, Copying, NoSave
<1> QED BY <1>5, <1>6, <1>7 DEF Kept

LEMMA KeptMark ==
    ASSUME Flat, Kept, Intact, Intact', upset \subseteq upset', WriteMark \/ ReadData
    PROVE  Kept'
<1>1. save.at = "idle" /\ save' = save
  <2>1. sio # Idle BY DEF WriteMark, ReadData, Idle
  <2> QED BY <2>1 DEF Kept, Alone, WriteMark, ReadData, Atari
<1>2. UNCHANGED <<host, put, kept>> BY DEF WriteMark, ReadData, Atari, ghost, files
<1>3. /\ image'.content = image.content /\ image'.geo = image.geo /\ image'.open = image.open
      /\ image'.named = image.named /\ image'.type = image.type
      /\ image.modified => image'.modified
  BY DEF WriteMark, ReadData, Marked, Flat, Typed, Image
<1>4. Alone'
  <2>1. CASE ReadData
    <3>1. sio' = Idle BY <2>1 DEF ReadData
    <3> QED BY <1>1, <3>1 DEF Alone
  <2>2. CASE WriteMark
    <3>1. /\ image'.pos = image.pos /\ image'.modified = TRUE /\ sio # Idle /\ sio'.sector = sio.sector
      BY <2>2 DEF WriteMark, Marked, Flat, Typed, Commanded, Image, Idle
    <3> QED BY <1>1, <1>3, <3>1 DEF Kept, Alone
  <2> QED BY <2>1, <2>2
<1>5. Sectored' /\ Filed' /\ Restored' BY <1>1, <1>2, <1>3, Untouched DEF Overwriting, Copying, Overwrites
<1>6. Copied' BY <1>1 DEF Copied, Copying
<1> QED BY <1>4, <1>5, <1>6 DEF Kept

(* A sector written, by the Atari or in the explorer.                      *)
LEMMA KeptWritten ==
    ASSUME Flat, Kept, Intact, upset \subseteq upset', image.open, save.at = "idle", save' = save,
           NEW s \in 1 .. image.geo.count, NEW v \in Nat, put' = Holding(s, v), UNCHANGED <<host, kept>>,
           image'.content = WriteAt(image.content, Units(SectorPos(image.geo, s)), v, UnitsOf(s)),
           image'.geo = image.geo, image'.open = image.open, image'.type = image.type, image'.modified,
           sio' = Idle
    PROVE  Kept'
<1>1. Sectored'
  <2>1. Sound(image) /\ Holds(image, put) BY DEF Kept, Sectored
  <2>2. image \in Image BY DEF Flat, Typed
  <2>3. PICK j : j = image' OBVIOUS
  <2>4. PICK d : d = put' OBVIOUS
  <2>5. Sound(j) /\ Holds(j, d) BY <2>1, <2>2, <2>3, <2>4, WriteHolds DEF Holding, UnitsOf
  <2> QED BY <2>3, <2>4, <2>5 DEF Sectored, Sound, Holds
<1>2. Alone' BY DEF Alone
<1>3. Copied' BY DEF Copied, Copying
<1>4. Filed' BY DEF Filed
<1>5. Restored' BY DEF Kept, Restored, Overwriting, Copying, Overwrites
<1> QED BY <1>1, <1>2, <1>3, <1>4, <1>5 DEF Kept

LEMMA KeptWriteData ==
    ASSUME Flat, Kept, Intact, Intact', upset \subseteq upset', WriteData
    PROVE  Kept'
<1>1. sio # Idle /\ sio.at = "write" /\ sio' = Idle BY DEF WriteData, Idle
<1>2. /\ save.at = "idle" /\ image.open /\ sio.sector \in 1 .. image.geo.count
      /\ image.pos = Units(SectorPos(image.geo, sio.sector)) /\ image.modified
  BY <1>1 DEF Kept, Alone
<1>3. save' = save /\ UNCHANGED <<host, kept>> BY DEF WriteData, Atari, files
<1>4. CASE UNCHANGED <<image, put>>
  <2>1. Alone' BY <1>1, <1>2, <1>3 DEF Alone
  <2>2. Sectored' /\ Filed' /\ Restored' BY <1>3, <1>4, Untouched DEF Overwriting, Copying, Overwrites
  <2>3. Copied' BY <1>2, <1>3 DEF Copied, Copying
  <2> QED BY <2>1, <2>2, <2>3 DEF Kept
<1>5. CASE ~UNCHANGED <<image, put>>
  <2> DEFINE n == UnitsOf(sio.sector)
             w == WriteAt(image.content, image.pos, sio.value, n)
  <2>1. /\ image' = [image EXCEPT !.content = w, !.pos = image.pos + n]
        /\ put' = Holding(sio.sector, sio.value)
    BY <1>5 DEF WriteData
  <2> HIDE DEF w
  <2>2. /\ image'.content = w /\ image'.geo = image.geo /\ image'.open = image.open
        /\ image'.type = image.type /\ image'.modified = image.modified
    BY <2>1 DEF Flat, Typed, Image
  <2>3. sio.value \in Nat BY DEF Flat, Commanded
  <2> QED BY <1>1, <1>2, <1>3, <2>1, <2>2, <2>3, KeptWritten DEF w
<1> QED BY <1>4, <1>5

LEMMA KeptExplorer ==
    ASSUME Flat, Kept, Intact, Intact', upset \subseteq upset', ExplorerWrites
    PROVE  Kept'
<1>1. PICK s \in Sectors \cap 1 .. image.geo.count :
        /\ LET pos == Seek(s).pos
           IN  image' = Marked([image EXCEPT !.content = WriteAt(@, pos, commands', UnitsOf(s)),
                                             !.pos = pos + UnitsOf(s)])
        /\ put' = Holding(s, commands')
  BY DEF ExplorerWrites
<1>2. /\ image.open /\ save.at = "idle" /\ sio = Idle /\ Asked
      /\ UNCHANGED <<host, sio, save, kept>>
  BY DEF ExplorerWrites, Free, files
<1>3. PICK v \in Nat : v = commands' BY <1>2 DEF Asked, Flat, Typed
<1>4. Seek(s).pos = Units(SectorPos(image.geo, s)) BY DEF Seek, Flat, Typed, Image
<1> DEFINE w == WriteAt(image.content, Seek(s).pos, v, UnitsOf(s))
           p == Seek(s).pos + UnitsOf(s)
<1>5. image' = Marked([image EXCEPT !.content = w, !.pos = p]) BY <1>1, <1>3
<1> HIDE DEF w, p
<1>6. /\ image'.content = w /\ image'.geo = image.geo /\ image'.open = image.open
      /\ image'.type = image.type /\ image'.modified = TRUE
  BY <1>5 DEF Marked, Flat, Typed, Image
<1>7. image'.content = WriteAt(image.content, Units(SectorPos(image.geo, s)), v, UnitsOf(s))
  BY <1>4, <1>6 DEF w
<1> QED BY <1>1, <1>2, <1>3, <1>6, <1>7, KeptWritten

LEMMA KeptFormat ==
    ASSUME Flat, Kept, Intact, Intact', upset \subseteq upset', Format,
           \A g \in Geometries : g.count < Word
    PROVE  Kept'
<1>1. PICK g \in Geometries : \E content \in {Blank(g), <<>>, image.content} :
        /\ image' = Marked([image EXCEPT !.content = content, !.geo = g,
                                         !.pos = IF @ > Len(content) THEN Len(content) ELSE @])
        /\ IF content = Blank(g) THEN UNCHANGED faults /\ Note(Overlapping)
                                 ELSE Fault /\ Note(Overlapping \cup {"short"})
        /\ put' = Zeros(g)
  BY DEF Format
<1>2. PICK content \in {Blank(g), <<>>, image.content} :
        /\ image' = Marked([image EXCEPT !.content = content, !.geo = g,
                                         !.pos = IF @ > Len(content) THEN Len(content) ELSE @])
        /\ IF content = Blank(g) THEN UNCHANGED faults /\ Note(Overlapping)
                                 ELSE Fault /\ Note(Overlapping \cup {"short"})
        /\ put' = Zeros(g)
  BY <1>1
<1>3. sio = Idle /\ lock = "none" /\ UNCHANGED <<sio, host, save, kept>> BY DEF Format, Atari, files
<1>4. "short" \notin upset' /\ "overlap" \notin upset' BY DEF Intact
<1>5. content = Blank(g) /\ Note(Overlapping) BY <1>2, <1>4 DEF Note
<1>6. save = NoSave
  <2>1. "overlap" \notin Overlapping BY <1>4, <1>5 DEF Note
  <2> QED BY <1>3, <2>1, NobodySaves
<1>7. /\ image'.content = Blank(g) /\ image'.geo = g /\ image'.modified = TRUE
      /\ image'.open = image.open /\ image'.type = image.type
  BY <1>2, <1>5 DEF Marked, Flat, Typed, Image
<1>8. Sectored'
  <2>1. PICK j : j = image' OBVIOUS
  <2>2. g \in Geometry /\ g.count < Word BY DiskAssumption
  <2>3. Sound(j) /\ Holds(j, Zeros(g)) BY <1>7, <2>1, <2>2, BlankHolds
  <2> QED BY <1>2, <2>1, <2>3 DEF Sectored, Sound, Holds
<1>9. Alone' BY <1>3, <1>6 DEF Alone, NoSave
<1>10. Copied' BY <1>3, <1>6 DEF Copied, Copying, NoSave
<1>11. Filed' BY <1>7 DEF Filed
<1>12. Restored' BY <1>3 DEF Kept, Restored, Overwriting, Copying, Overwrites
<1> QED BY <1>8, <1>9, <1>10, <1>11, <1>12 DEF Kept

(* The engine's and the explorer's calls begin saves, but write nothing.   *)
LEMMA KeptGui ==
    ASSUME Flat, Kept, Intact, Intact', upset \subseteq upset',
           StatusChanged \/ SaveDisk \/ SaveAs \/ Toggle \/ Explore \/ Close
    PROVE  Kept'
<1> USE DEF gui, ghost, files
<1>1. sio = Idle /\ save.at = "idle" /\ UNCHANGED <<sio, host, put, kept>>
  BY DEF StatusChanged, SaveDisk, SaveAs, Toggle, Explore, Close, Free
<1>2. /\ image'.content = image.content /\ image'.geo = image.geo /\ image'.open = image.open
      /\ image'.named = image.named /\ image'.modified = image.modified
  BY DEF StatusChanged, SaveDisk, SaveAs, Toggle, Explore, Close, Flat, Typed, Image
<1>3. save'.at \in {"idle", "open"}
  <2>1. ASSUME NEW by, Save(by) PROVE save'.at = "open" BY <2>1 DEF Save
  <2>2. CASE SaveAs
    <3>1. PICK own \in BOOLEAN : Save(IF own THEN "user" ELSE "as") BY <2>2 DEF SaveAs
    <3> QED BY <2>1, <3>1
  <2>3. CASE Toggle
    <3>1. save' = save \/ "explored" \in upset' \/ Save("user") BY <2>3 DEF Toggle, Note
    <3>2. "explored" \notin upset' BY DEF Intact
    <3> QED BY <1>1, <2>1, <3>1, <3>2
  <2>4. CASE StatusChanged \/ SaveDisk \/ Explore \/ Close
    BY <1>1, <2>1, <2>4 DEF StatusChanged, SaveDisk, Explore, Close
  <2> QED BY <2>2, <2>3, <2>4
<1>4. Alone' BY <1>1, <1>3 DEF Alone
<1>5. Sectored' /\ Filed' /\ Restored' BY <1>1, <1>2, Untouched DEF Overwriting, Copying
<1>6. Copied' BY <1>3 DEF Copied, Copying
<1> QED BY <1>4, <1>5, <1>6 DEF Kept

(* A save that fails leaves the image as it was, and its file too, unless  *)
(* it was writing that: then the file is torn, and the image is still to   *)
(* be saved.                                                               *)
LEMMA KeptFails ==
    ASSUME Flat, Kept, Intact, Intact', NEW names, Fails(names), Saver, save.at \in {"open", "read"},
           \/ UNCHANGED host /\ ~Overwriting
           \/ names = Torn /\ Overwrites
    PROVE  Kept'
<1>1. /\ save' = NoSave /\ UNCHANGED <<image, kept, put, sio>>
      /\ upset' = upset \cup {"failed"} \cup names
  BY DEF Fails, Saver, EndSave, Note
<1>2. sio = Idle BY DEF Kept, Alone
<1>3. Alone' BY <1>1, <1>2 DEF Alone, NoSave
<1>4. Sectored' BY <1>1 DEF Kept, Sectored, Sound, Holds
<1>5. Copied' BY <1>1 DEF Copied, Copying, NoSave
<1>6. Filed' /\ Restored'
  <2>1. CASE UNCHANGED host /\ ~Overwriting
    <3>1. Filed' BY <1>1, <2>1 DEF Kept, Filed, InFile
    <3>2. Restored' BY <1>1, <2>1 DEF Kept, Restored
    <3> QED BY <3>1, <3>2
  <2>2. CASE names = Torn /\ Overwrites
    <3>1. "emptied" \notin upset' BY DEF Intact
    <3>2. image.modified /\ "torn" \in upset' BY <1>1, <2>2, <3>1 DEF Torn, If
    <3> QED BY <1>1, <3>2 DEF Filed, Restored
  <2> QED BY <2>1, <2>2
<1> QED BY <1>3, <1>4, <1>5, <1>6 DEF Kept

LEMMA KeptBreaks ==
    ASSUME Flat, Kept, Intact, Intact', NEW file, Breaks(file), Saver, save.at \in {"open", "read"}
    PROVE  Kept'
<1>1. Fails(Torn) BY DEF Breaks
<1>2. CASE Overwrites BY <1>1, <1>2, KeptFails
<1>3. CASE ~Overwrites
  <2>1. UNCHANGED host /\ ~Overwriting BY <1>3 DEF Breaks, Overwriting
  <2> QED BY <1>1, <2>1, KeptFails
<1> QED BY <1>2, <1>3

(* Writing a file leaves the sectors alone, and the image's own file too   *)
(* if it is another.                                                       *)
LEMMA KeptWrites ==
    ASSUME Flat, Kept, Intact, Intact', upset \subseteq upset', NEW file, Writes(file), Saver, UNCHANGED kept,
           save.at \in {"open", "read"}, save'.at = "copy", save'.by = save.by,
           image'.content = image.content, image'.geo = image.geo, image'.open = image.open,
           image'.named = image.named, image'.modified = image.modified, Copied'
    PROVE  Kept'
<1>1. sio = Idle /\ UNCHANGED <<sio, put>> BY DEF Kept, Alone, Saver
<1>2. Alone' BY <1>1 DEF Alone
<1>3. Sectored' BY <1>1 DEF Kept, Sectored, Sound, Holds
<1>4. Filed' /\ Restored'
  <2>1. CASE Overwrites BY <2>1 DEF Filed, Restored, Overwriting, Copying, Overwrites
  <2>2. CASE ~Overwrites
    <3>1. UNCHANGED <<host, put, kept>> /\ ~Overwriting BY <1>1, <2>2 DEF Writes, Overwriting
    <3> QED BY <3>1, Untouched
  <2> QED BY <2>1, <2>2
<1> QED BY <1>2, <1>3, <1>4 DEF Kept

LEMMA KeptOpens ==
    ASSUME Flat, Kept, Intact, Intact', upset \subseteq upset', SaveOpens
    PROVE  Kept'
<1>1. save.at = "open" /\ Saver /\ ~Overwriting BY DEF SaveOpens, Saving, Overwriting, Copying
<1>2. CASE UNCHANGED host /\ Fails({}) BY <1>1, <1>2, KeptFails
<1>3. CASE Breaks(Emptied) BY <1>1, <1>3, KeptBreaks
<1>4. CASE /\ ~Refused /\ Writes(Emptied)
           /\ save' = [save EXCEPT !.at = "copy"] /\ image' = [image EXCEPT !.pos = 0]
           /\ Note(If(image.type = "xfd" /\ Target # "xfd", "retyped"))
           /\ UNCHANGED <<lock, events, faults, kept>>
  <2>1. save'.at = "copy" /\ save'.by = save.by BY <1>4 DEF Flat, Saved
  <2>2. /\ image'.content = image.content /\ image'.geo = image.geo /\ image'.open = image.open
        /\ image'.named = image.named /\ image'.modified = image.modified
        /\ image'.type = image.type /\ image'.pos = 0
    BY <1>4 DEF Flat, Typed, Image
  <2>3. Copied'
    <3>1. output' = Emptied BY <1>4 DEF Writes
    <3>2. image.content \in Seq(Nat) BY DEF Flat, Typed, Image
    <3>3. Len(image.content) >= 0 /\ SubSeq(image.content, 1, 0) = <<>> BY <3>2
    <3>4. image.type # "dcm" BY <1>4 DEF Refused
    <3>5. image.type = "xfd" => Target = "xfd"
      <4>1. "retyped" \notin upset' BY DEF Intact
      <4> QED BY <1>4, <4>1 DEF Note, If
    <3> QED BY <2>1, <2>2, <3>1, <3>3, <3>4, <3>5 DEF Copied, Emptied
  <2> QED BY <1>1, <1>4, <2>1, <2>2, <2>3, KeptWrites
<1> QED BY <1>2, <1>3, <1>4 DEF SaveOpens

LEMMA KeptReads ==
    ASSUME Flat, Kept, Intact, Intact', upset \subseteq upset', SaveReads
    PROVE  Kept'
<1>1. /\ save.at = "copy" /\ save' = [save EXCEPT !.at = "read", !.size = Len(image.content) - image.pos]
      /\ UNCHANGED <<image, host, output, put, kept, sio>>
  BY DEF SaveReads, Saving, Saver, files
<1>2. save'.at = "read" /\ save'.by = save.by /\ save'.size = Len(image.content) - image.pos
  BY <1>1 DEF Flat, Saved
<1>3. Alone' BY <1>1, <1>2 DEF Kept, Alone
<1>4. Sectored' /\ Filed' /\ Restored' BY <1>1, <1>2, Untouched DEF Overwriting, Copying, Overwrites
<1>5. Copied' BY <1>1, <1>2 DEF Kept, Copied, Copying
<1> QED BY <1>3, <1>4, <1>5 DEF Kept

LEMMA KeptCopies ==
    ASSUME Flat, Kept, Intact, Intact', upset \subseteq upset', SaveCopies
    PROVE  Kept'
<1>1. save.at = "read" /\ Saver BY DEF SaveCopies, Saving
<1>2. PICK buffer : buffer = Found(image, save.size) OBVIOUS
<1>3. CASE UNCHANGED host /\ Fails(Torn)
  <2>1. CASE Overwrites BY <1>1, <1>3, <2>1, KeptFails
  <2>2. CASE ~Overwrites
    <3>1. ~Overwriting BY <2>2 DEF Overwriting
    <3> QED BY <1>1, <1>3, <3>1, KeptFails
  <2> QED BY <2>1, <2>2
<1>4. CASE Breaks(Grown(buffer)) BY <1>1, <1>4, KeptBreaks
<1>5. CASE /\ Len(buffer) = save.size /\ Writes(Grown(buffer))
           /\ image' = [image EXCEPT !.pos = @ + Len(buffer)] /\ save' = [save EXCEPT !.at = "copy"]
           /\ UNCHANGED <<lock, events, faults, kept, upset>>
  <2>1. save'.at = "copy" /\ save'.by = save.by BY <1>5 DEF Flat, Saved
  <2>2. /\ image'.content = image.content /\ image'.geo = image.geo /\ image'.open = image.open
        /\ image'.named = image.named /\ image'.modified = image.modified
        /\ image'.type = image.type /\ image'.pos = image.pos + Len(buffer)
    BY <1>5 DEF Flat, Typed, Image
  <2>3. /\ output'.data = output.data \o buffer /\ output'.format = output.format
        /\ output'.name = output.name /\ output'.bps = output.bps /\ output'.size = output.size
    BY <1>5 DEF Writes, Grown, Flat, Typed, Host
  <2>4. Copied'
    <3>1. PICK f \in Seq(Nat) : f = image.content BY DEF Flat, Typed, Image
    <3>2. PICK p \in Nat : p = image.pos BY DEF Flat, Typed, Image
    <3>3. p <= Len(f) /\ output.data = SubSeq(f, 1, p) /\ save.size = Len(f) - p
      BY <1>1, <3>1, <3>2 DEF Kept, Copied, Copying
    <3>4. p + Len(buffer) = Len(f) BY <1>5, <3>3
    <3>5. output.data \o buffer = SubSeq(f, 1, p + Len(buffer))
      <4>1. SubSeq(f, 1, Len(f)) = f BY SequencesOf
      <4>2. CASE p < Len(f)
        <5>1. save.size \in Nat /\ p + save.size = Len(f) BY <3>3, <4>2
        <5>2. image \in Image BY DEF Flat, Typed
        <5>3. image.pos < Len(image.content) /\ image.pos + save.size <= Len(image.content)
          BY <3>1, <3>2, <4>2, <5>1
        <5>4. Found(image, save.size) = SubSeq(image.content, image.pos + 1, image.pos + save.size)
          BY <5>1, <5>2, <5>3, FoundSeq
        <5>5. buffer = SubSeq(f, p + 1, Len(f)) BY <1>2, <3>1, <3>2, <5>1, <5>4
        <5>6. SubSeq(f, 1, p) \o SubSeq(f, p + 1, Len(f)) = f
          <6>1. p \in 0 .. Len(f) BY <4>2
          <6> QED BY <6>1, SequencesOf
        <5>7. output.data \o buffer = f BY <3>3, <5>5, <5>6
        <5> QED BY <3>4, <4>1, <5>7
      <4>3. CASE p = Len(f)
        <5>1. buffer = <<>> BY <1>2, <3>1, <3>2, <4>3 DEF Found
        <5>2. output.data = f BY <3>3, <4>1, <4>3
        <5> QED BY <3>4, <4>1, <5>1, <5>2
      <4> QED BY <3>3, <4>2, <4>3
    <3> QED BY <1>1, <2>1, <2>2, <2>3, <3>1, <3>2, <3>4, <3>5 DEF Kept, Copied, Copying
  <2> QED BY <1>1, <1>5, <2>1, <2>2, <2>4, KeptWrites
<1> QED BY <1>2, <1>3, <1>4, <1>5 DEF SaveCopies

(* The save has ended: the file is the image, and what it holds is kept.   *)
LEMMA KeptDone ==
    ASSUME Flat, Kept, Intact, Intact', SaveDone
    PROVE  Kept'
<1>1. /\ save.at = "copy" /\ image.pos >= Len(image.content)
      /\ image' = [image EXCEPT !.modified = FALSE, !.named = TRUE] /\ kept' = put
      /\ UNCHANGED <<sio, put>> /\ save' = NoSave
      /\ If(image.type = "xfd" /\ XfdGeometry(TotalSize(image.geo)) # image.geo, "xfd") \subseteq upset'
      /\ host' = output \/ "unflushed" \in upset'
  BY DEF SaveDone, Saving, Saver, EndSave
<1>2. image.type = "xfd" => XfdGeometry(TotalSize(image.geo)) = image.geo
  <2>1. "xfd" \notin upset' BY DEF Intact
  <2> QED BY <1>1, <2>1 DEF If
<1>3. host' = output
  <2>1. "unflushed" \notin upset' BY DEF Intact
  <2> QED BY <1>1, <2>1
<1>4. image.open BY <1>1 DEF Flat, Saved
<1>5. /\ image'.content = image.content /\ image'.geo = image.geo /\ image'.open = image.open
      /\ image'.type = image.type
  BY <1>1 DEF Flat, Typed, Image
<1>6. PICK g \in Geometry : g = image.geo BY DEF Flat, Typed, Image
<1>7. 128 * Len(image.content) = TotalSize(g) /\ g.count < Word /\ Holds(image, put)
  BY <1>4, <1>6 DEF Kept, Sectored, Sound
<1>8. PICK h \in Host : h = output BY DEF Flat, Typed
<1>9. /\ h.format = image.type /\ h.bps = g.bps
      /\ h.format = "xfd" => h.name = "xfd"
      /\ image.pos <= Len(image.content) /\ h.data = SubSeq(image.content, 1, image.pos)
  BY <1>1, <1>6, <1>8 DEF Kept, Copied, Copying
<1>10. h.data = image.content
  <2>1. PICK f \in Seq(Nat) : f = image.content BY DEF Flat, Typed, Image
  <2>2. image.pos = Len(f) BY <1>1, <1>9, <2>1 DEF Flat, Typed, Image
  <2> QED BY <1>9, <2>1, <2>2, SequencesOf
<1>11. Opens(h) /\ Opened(h).content = h.data /\ Opened(h).geo = g
  BY <1>2, <1>6, <1>7, <1>9, <1>10, SavedOpens
<1>12. Sound(Opened(h)) /\ Holds(Opened(h), put)
  BY <1>6, <1>7, <1>10, <1>11 DEF Sound, Holds
<1>13. sio = Idle /\ h = host' BY <1>1, <1>3, <1>8 DEF Kept, Alone
<1>14. Alone' BY <1>1, <1>13 DEF Alone, NoSave
<1>15. Sectored' BY <1>1, <1>5 DEF Kept, Sectored, Sound, Holds
<1>16. Copied' BY <1>1 DEF Copied, Copying, NoSave
<1>17. Filed' BY <1>5, <1>6, <1>10, <1>11, <1>13 DEF Filed, InFile
<1>18. Restored' BY <1>1, <1>11, <1>12, <1>13 DEF Restored
<1> QED BY <1>14, <1>15, <1>16, <1>17, <1>18 DEF Kept

(* The program dies, not while it writes the image's file and not while    *)
(* that is torn: the file is opened again as it was last saved.            *)
LEMMA KeptKilled ==
    ASSUME Flat, Kept, Intact, Intact', Killed
    PROVE  Kept'
<1>1. /\ image' = IF image.named /\ Opens(host) THEN Opened(host) ELSE [image EXCEPT !.open = FALSE]
      /\ put' = kept /\ sio' = Idle /\ save' = NoSave /\ UNCHANGED <<host, kept>>
      /\ upset' = upset \cup If(Overwriting \/ "torn" \in upset, "killed")
  BY DEF Killed, Note, Copying, Overwriting
<1>2. ~Overwriting /\ "torn" \notin upset
  <2>1. "killed" \notin upset' BY DEF Intact
  <2> QED BY <1>1, <2>1 DEF If
<1>3. Opens(host) /\ Sound(Opened(host)) /\ Holds(Opened(host), kept)
  BY <1>2 DEF Kept, Restored
<1>4. Alone' BY <1>1 DEF Alone, NoSave
<1>5. Copied' BY <1>1 DEF Copied, Copying, NoSave
<1>6. Restored' BY <1>1, <1>3 DEF Restored
<1>7. CASE image.named
  <2>1. image' = Opened(host) BY <1>1, <1>3, <1>7
  <2>2. Sectored' BY <1>1, <1>3, <2>1 DEF Sectored
  <2>3. Filed' BY <1>1, <1>3, <2>1 DEF Filed, InFile
  <2> QED BY <1>4, <1>5, <1>6, <2>2, <2>3 DEF Kept
<1>8. CASE ~image.named
  <2>1. image'.open = FALSE BY <1>1, <1>8 DEF Flat, Typed, Image
  <2>2. Sectored' /\ Filed' BY <2>1 DEF Sectored, Filed
  <2> QED BY <1>4, <1>5, <1>6, <2>2 DEF Kept
<1> QED BY <1>7, <1>8

(* A new disk, and one opened from its file, are in their file.            *)
LEMMA KeptInit == Init /\ (\A g \in Geometries : g.count < Word) => Kept
<1> SUFFICES ASSUME Init, \A g \in Geometries : g.count < Word PROVE Kept OBVIOUS
<1> DEFINE None == [count |-> 0, bps |-> 128]
<1>1. None \in Geometry /\ None.count < Word BY DEF Geometry, SectorSizes, Word
<1>2. PICK g \in Geometry :
        /\ g.count < Word /\ host = Fresh(g) /\ put = Zeros(g)
        /\ image = Opened(host) \/ image = [Opened(host) EXCEPT !.named = FALSE]
  <2>1. CASE \E g \in Geometries : host = Fresh(g) /\ image = Opened(host) /\ put = Zeros(g)
    BY <2>1, DiskAssumption
  <2>2. CASE host = Fresh(None) /\ image = [Opened(host) EXCEPT !.named = FALSE] /\ put = <<>>
    <3>1. Zeros(None) = <<>> BY DEF Zeros
    <3> QED BY <1>1, <2>2, <3>1
  <2> QED BY <2>1, <2>2 DEF Init
<1>3. /\ save = NoSave /\ sio = Idle /\ kept = put BY DEF Init
<1>4. /\ host \in Host /\ host.data = Blank(g) /\ host.bps = g.bps
      /\ host.format = "atr"
  <2>1. Fresh(g) \in Host BY FreshHost
  <2>2. host = Fresh(g) BY <1>2
  <2> QED BY <2>1, <2>2 DEF Fresh
<1>5. 128 * Len(host.data) = TotalSize(g) BY <1>4, BlankSeq, SizeInUnits
<1>6. Opens(host) /\ Opened(host).content = host.data /\ Opened(host).geo = g
  <2>1. PICK h \in Host : h = host BY <1>4
  <2>2. /\ 128 * Len(h.data) = TotalSize(g) /\ g.count < Word /\ h.bps = g.bps /\ h.format # "xfd"
    BY <1>2, <1>4, <1>5, <2>1
  <2>3. Opens(h) /\ Opened(h).content = h.data /\ Opened(h).geo = g BY <2>2, SavedOpens
  <2> QED BY <2>1, <2>3
<1>7. Opened(host) \in Image /\ Opened(host).type = "atr" BY <1>4, OpenedImage
<1>8. /\ image.content = host.data /\ image.geo = g /\ image.type = "atr"
  BY <1>2, <1>6, <1>7 DEF Image
<1>9. Sound(image) /\ Holds(image, put)
  <2>1. PICK j : j = image OBVIOUS
  <2>2. j.content = Blank(g) /\ j.geo = g /\ g.count < Word BY <1>2, <1>4, <1>8, <2>1
  <2>3. Sound(j) /\ Holds(j, Zeros(g)) BY <2>2, BlankHolds
  <2> QED BY <1>2, <2>1, <2>3
<1>10. Sound(Opened(host)) /\ Holds(Opened(host), kept)
  BY <1>3, <1>6, <1>8, <1>9 DEF Sound, Holds
<1>11. Alone BY <1>3 DEF Alone, NoSave
<1>12. Copied BY <1>3 DEF Copied, Copying, NoSave
<1>13. Sectored BY <1>9 DEF Sectored
<1>14. Filed BY <1>6, <1>8 DEF Filed, InFile
<1>15. Restored BY <1>6, <1>10 DEF Restored
<1> QED BY <1>11, <1>12, <1>13, <1>14, <1>15 DEF Kept

(* No step of either thread, nor a death, breaks it.                       *)
LEMMA KeptNext ==
    ASSUME Flat, Kept, [Next]_vars, \A g \in Geometries : g.count < Word
    PROVE  Kept'
<1>1. CASE ~Intact'
  BY <1>1 DEF Kept, Alone, Sectored, Copied, Filed, Restored
<1>2. CASE Intact' /\ SaveDone
  BY <1>2, StillIntact, KeptDone
<1>3. CASE Intact' /\ ~SaveDone
  <2>1. Intact /\ Intact' /\ upset \subseteq upset' BY <1>3, StillIntact
  <2>2. CASE UNCHANGED vars
    BY <2>2 DEF vars, gui, ghost, files, Kept, Intact, Alone, Sectored, Copied, Copying, Overwriting,
                Overwrites, Filed, Restored, InFile, Sound, Holds, Opens, Opened
  <2>3. CASE WriteStart \/ ReadStart BY <2>1, <2>3, KeptStart
  <2>4. CASE WriteMark \/ ReadData BY <2>1, <2>4, KeptMark
  <2>5. CASE WriteData BY <2>1, <2>5, KeptWriteData
  <2>6. CASE Format BY <2>1, <2>6, KeptFormat
  <2>7. CASE StatusChanged \/ SaveDisk \/ SaveAs \/ Toggle \/ Explore \/ Close
    BY <2>1, <2>7, KeptGui
  <2>8. CASE ExplorerWrites BY <2>1, <2>8, KeptExplorer
  <2>9. CASE SaveOpens BY <2>1, <2>9, KeptOpens
  <2>10. CASE SaveReads BY <2>1, <2>10, KeptReads
  <2>11. CASE SaveCopies BY <2>1, <2>11, KeptCopies
  <2>12. CASE Killed BY <2>1, <2>12, KeptKilled
  <2> QED
    BY <1>3, <2>2, <2>3, <2>4, <2>5, <2>6, <2>7, <2>8, <2>9, <2>10, <2>11, <2>12 DEF Next
<1> QED BY <1>1, <1>2, <1>3

-----------------------------------------------------------------------------
(* The types, and who has the lock: for any formats.                       *)
THEOREM TypeCorrect == Spec => []TypeOK
<1>1. Flat => TypeOK BY DEF Flat, Typed, TypeOK
<1> QED BY <1>1, FlatInit, FlatNext, PTL DEF Spec

(* The inductive invariant, when a quint16 holds the number of sectors of  *)
(* every format.                                                           *)
THEOREM DiskInvariant ==
    ASSUME \A g \in Geometries : g.count < Word
    PROVE  Spec => [](Flat /\ Kept)
<1>1. Init => Flat /\ Kept BY FlatInit, KeptInit
<1>2. (Flat /\ Kept) /\ [Next]_vars => (Flat /\ Kept)' BY FlatNext, KeptNext
<1> QED BY <1>1, <1>2, PTL DEF Spec

(* An image that says it is not modified, and is not in use, is in its     *)
(* file: opened again, it has the same sectors and the same geometry. Also *)
(* after saves that failed, of this file or under another name.            *)
THEOREM UnmodifiedIsSaved ==
    ASSUME \A g \in Geometries : g.count < Word
    PROVE  Spec => []Committed
<1>1. Flat /\ Kept => Committed
  BY DEF Kept, Filed, InFile, Overwriting, Copying, Committed, NoSave
<1> QED BY <1>1, DiskInvariant, PTL

(* The Atari reads from a sector what was last put there, across formats,  *)
(* saves by either thread, also those that fail, and deaths.               *)
THEOREM SectorsReadBack ==
    ASSUME \A g \in Geometries : g.count < Word
    PROVE  Spec => ReadsBack
<1> DEFINE Reads == ReadData /\ Intact =>
             Found(image, UnitsOf(sio.sector)) = [i \in 1 .. UnitsOf(sio.sector) |-> put[sio.sector]]
<1>1. Flat /\ Kept => Reads
  <2> SUFFICES ASSUME Flat, Kept, ReadData, Intact
               PROVE  Found(image, UnitsOf(sio.sector)) = [i \in 1 .. UnitsOf(sio.sector) |-> put[sio.sector]]
    OBVIOUS
  <2>1. sio # Idle BY DEF ReadData, Idle
  <2>2. /\ image.open /\ sio.sector \in 1 .. image.geo.count
        /\ image.pos = Units(SectorPos(image.geo, sio.sector))
    BY <2>1 DEF Kept, Alone
  <2>3. Sound(image) /\ Holds(image, put) BY <2>1, <2>2 DEF Kept, Sectored
  <2>4. image \in Image BY DEF Flat, Typed
  <2>5. PICK i, c, s : i \in Image /\ i = image /\ c = put /\ s = sio.sector BY <2>4
  <2>6. s \in 1 .. i.geo.count /\ Sound(i) /\ Holds(i, c) /\ i.pos = Units(SectorPos(i.geo, s))
    BY <2>2, <2>3, <2>5
  <2>7. Found(i, Units(BytesPerSector(i.geo, s))) = All(Units(BytesPerSector(i.geo, s)), c[s])
    BY <2>5, <2>6, ReadsHeld
  <2>8. UnitsOf(sio.sector) = Units(BytesPerSector(i.geo, s)) BY <2>5 DEF UnitsOf
  <2>9. Found(image, UnitsOf(sio.sector)) = All(UnitsOf(sio.sector), put[sio.sector])
    BY <2>5, <2>7, <2>8
  <2> QED BY <2>9 DEF All
<1>2. Spec => [](Flat /\ Kept) BY DiskInvariant
<1>3. (Flat /\ Kept) => [Reads]_vars BY <1>1
<1> QED BY <1>2, <1>3, PTL DEF ReadsBack
====
