------------------------ MODULE DiskGeometry_proofs ------------------------
(***************************************************************************)
(* The sectors of a disk image fill its file, for every geometry, and an   *)
(* ATR file that was saved is opened with the number of sectors it had.    *)
(***************************************************************************)
EXTENDS DiskGeometry, TLAPS

(* What is in the four numbers of a geometry.                              *)
LEMMA GeometryFields ==
    ASSUME NEW g \in Geometry
    PROVE  /\ g.count \in Nat
           /\ g.bps \in {128, 256, 512, 8192}
BY DEF Geometry, SectorSizes

(* DiskGeometry::initialize: the size, with the division into boot sectors *)
(* and others made explicit.                                               *)
LEMMA Sizes ==
    ASSUME NEW g \in Geometry
    PROVE  /\ g.bps # 256 => TotalSize(g) = g.count * g.bps
           /\ g.bps = 256 /\ g.count <= 3 => TotalSize(g) = g.count * 128
           /\ g.bps = 256 /\ g.count > 3 => TotalSize(g) = g.count * 256 - 384
<1>1. g.count \in Nat BY GeometryFields
<1> QED BY <1>1 DEF TotalSize

(* seekToSector, bytesPerSector: a sector begins where the one before it   *)
(* ends, the first at the beginning of the file.                           *)
THEOREM SectorsTile ==
    ASSUME NEW g \in Geometry, NEW s \in Nat, s >= 1
    PROVE  /\ SectorPos(g, 1) = 0
           /\ SectorPos(g, s + 1) = SectorPos(g, s) + BytesPerSector(g, s)
<1>1. g.bps \in {128, 256, 512, 8192} BY GeometryFields
<1>2. CASE g.bps = 256
  BY <1>2 DEF SectorPos, BytesPerSector
<1>3. CASE g.bps # 256
  <2>1. SectorPos(g, 1) = 0 /\ SectorPos(g, s) = (s - 1) * g.bps /\ SectorPos(g, s + 1) = s * g.bps
    BY <1>1, <1>3 DEF SectorPos
  <2>2. BytesPerSector(g, s) = g.bps BY <1>3 DEF BytesPerSector
  <2>3. s * g.bps = (s - 1) * g.bps + g.bps BY <1>1
  <2> QED BY <2>1, <2>2, <2>3
<1> QED BY <1>2, <1>3

(* Two sectors of an image never share a byte of its file: what is written *)
(* to one is not read from another.                                        *)
THEOREM SectorsApart ==
    ASSUME NEW g \in Geometry, NEW s \in Nat, NEW t \in Nat, 1 <= s, s < t
    PROVE  SectorPos(g, s) + BytesPerSector(g, s) <= SectorPos(g, t)
<1>1. g.bps \in {128, 256, 512, 8192} BY GeometryFields
<1>2. CASE g.bps = 256
  BY <1>2 DEF SectorPos, BytesPerSector
<1>3. CASE g.bps # 256
  <2>1. SectorPos(g, s) = (s - 1) * g.bps /\ SectorPos(g, t) = (t - 1) * g.bps
    BY <1>3 DEF SectorPos
  <2>2. BytesPerSector(g, s) = g.bps BY <1>3 DEF BytesPerSector
  <2>3. (s - 1) * g.bps + g.bps <= (t - 1) * g.bps BY <1>1
  <2> QED BY <2>1, <2>2, <2>3
<1> QED BY <1>2, <1>3

(* A sector the image has (handleCommand refuses the others) lies in the   *)
(* file format() and openAtr make for it, and the last one ends it.        *)
THEOREM SectorsFit ==
    ASSUME NEW g \in Geometry, NEW s \in 1 .. g.count
    PROVE  /\ SectorPos(g, s) + BytesPerSector(g, s) <= TotalSize(g)
           /\ s = g.count => SectorPos(g, s) + BytesPerSector(g, s) = TotalSize(g)
<1>1. g.bps \in {128, 256, 512, 8192} /\ g.count \in Nat BY GeometryFields
<1>2. CASE g.bps = 256
  BY <1>1, <1>2, Sizes DEF SectorPos, BytesPerSector
<1>3. CASE g.bps # 256
  <2>1. SectorPos(g, s) = (s - 1) * g.bps /\ BytesPerSector(g, s) = g.bps
    BY <1>3 DEF SectorPos, BytesPerSector
  <2>2. TotalSize(g) = g.count * g.bps BY <1>3, Sizes
  <2>3. (s - 1) * g.bps + g.bps <= g.count * g.bps BY <1>1
  <2>4. s = g.count => (s - 1) * g.bps + g.bps = g.count * g.bps BY <1>1
  <2> QED BY <2>1, <2>2, <2>3, <2>4
<1> QED BY <1>2, <1>3

(* saveAtr, then openAtr: the file's size is one openAtr accepts, and tells*)
(* the number of sectors, as long as a quint16 holds it. (Tracks and sides *)
(* are lost; XFD files do lose more, see the README.)                      *)
THEOREM AtrReopens ==
    ASSUME NEW g \in Geometry, g.count < Word
    PROVE  /\ AtrCount(TotalSize(g), g.bps) = g.count
           /\ SizeValid(TotalSize(g), g.bps)
<1>1. g.bps \in {128, 256, 512, 8192} /\ g.count \in Nat BY GeometryFields
<1>2. CASE g.bps = 256 /\ g.count <= 3
  BY <1>1, <1>2, Sizes DEF AtrCount, SizeValid, Word
<1>3. CASE g.bps = 256 /\ g.count > 3
  <2>1. TotalSize(g) = g.count * 256 - 384 /\ TotalSize(g) > 384 BY <1>1, <1>3, Sizes
  <2>2. (TotalSize(g) + 384 + 255) \div 256 = g.count BY <1>1, <2>1
  <2>3. (TotalSize(g) + 384) % 256 = 0 BY <1>1, <2>1
  <2>4. g.count % 65536 = g.count BY <1>1 DEF Word
  <2> QED BY <1>3, <2>1, <2>2, <2>3, <2>4 DEF AtrCount, SizeValid, Word
<1>4. CASE g.bps # 256
  <2>1. TotalSize(g) = g.count * g.bps BY <1>4, Sizes
  <2>2. (g.count * g.bps + g.bps - 1) \div g.bps = g.count BY <1>1
  <2>3. (g.count * g.bps) % g.bps = 0 BY <1>1
  <2>4. g.count % 65536 = g.count BY <1>1 DEF Word
  <2> QED BY <1>4, <2>1, <2>2, <2>3, <2>4 DEF AtrCount, SizeValid, Word
<1> QED BY <1>1, <1>2, <1>3, <1>4
=============================================================================
