---------------------------- MODULE DiskGeometry ----------------------------
(***************************************************************************)
(* Where the sectors of a disk image lie in its file (diskimage.cpp): the  *)
(* numbers of DiskGeometry and of SimpleDiskImage::seekToSector. A         *)
(* geometry is the number of its sectors (tracks, sides and sectors per    *)
(* track multiplied) and their size in bytes. In double density the three  *)
(* boot sectors are 128 bytes long.                                        *)
(***************************************************************************)
EXTENDS Integers

Word == 65536   \* quint16: the sectors of a track

SectorSizes == {128, 256, 512, 8192}   \* those openAtr accepts

Geometry == [count : Nat, bps : SectorSizes]

(* DiskGeometry::initialize(sides, tracks, sectors per track, bytes)       *)
TotalSize(g) ==
    IF g.bps = 256 /\ g.count > 3 THEN g.count * 128 + 128 * (g.count - 3)
    ELSE IF g.bps = 256 THEN g.count * 128 ELSE g.count * g.bps

(* bytesPerSector(sector)                                                  *)
BytesPerSector(g, sector) == IF g.bps = 256 /\ sector <= 3 THEN 128 ELSE g.bps

SectorPosEven(g, sector) == (sector - 1) * g.bps   \* mutant: no short boot sectors

(* seekToSector                                                            *)
SectorPos(g, sector) ==
    CASE g.bps # 256                 -> (sector - 1) * g.bps
      [] g.bps = 256 /\ sector <= 3  -> (sector - 1) * 128
      [] OTHER                       -> (sector - 1) * 256 - 384

(* initialize(total size, bytes per sector): an ATR file is opened. The    *)
(* standard formats come to the same number of sectors, by their tracks.   *)
AtrCount(total, bps) ==
    LET sectors == CASE bps = 256 /\ total <= 384 -> (total + 127) \div 128
                     [] bps = 256 /\ total > 384  -> (total + 384 + 255) \div 256
                     [] OTHER                     -> (total + bps - 1) \div bps
    IN  sectors % Word

AtrGeometry(total, bps) == [count |-> AtrCount(total, bps), bps |-> bps]

(* initialize(total size): an XFD file is opened, or about to be saved.    *)
(* The size is a uint, but what is taken of the difference is the same     *)
(* when that wraps: Word * 256 divides 2^32.                               *)
XfdGeometry(total) ==
    CASE total = 92160  -> [count |-> 720, bps |-> 128]
      [] total = 133120 -> [count |-> 1040, bps |-> 128]
      [] total = 183936 -> [count |-> 720, bps |-> 256]
      [] total = 368256 -> [count |-> 1440, bps |-> 256]
      [] total \notin {92160, 133120, 183936, 368256} /\ (total - 384) % 256 = 0 ->
            [count |-> ((total - 384) \div 256) % Word, bps |-> 256]
      [] OTHER -> [count |-> ((total + 127) \div 128) % Word, bps |-> 128]

(* The sizes of an ATR file that openAtr takes.                            *)
SizeValid(total, bps) ==
    CASE bps = 256 /\ total <= 384 -> total % 128 = 0
      [] bps = 256 /\ total > 384  -> (total + 384) % 256 = 0 \/ total \div 256 >= 720
      [] OTHER -> total % bps = 0 \/ total \div bps >= IF total < 133120 THEN 720 ELSE 1040
=============================================================================
