---------------------------- MODULE DiskImages -----------------------------
(***************************************************************************)
(* The three image builders side by side (create-fat32-image.py,           *)
(* create-simple-esp.py, create-gpt-image.py) and how the tools that read  *)
(* an image find the FAT32 volume on what they write: copy-to-image.py and *)
(* verify-image.py parse the partition table and then the boot sector it   *)
(* points to; check-boot-dir.py assumes LBA 2048 and cluster 4.            *)
(*                                                                         *)
(* Like GptBuilder, which it extends, the module is a function of the disk *)
(* size: each builder fills one buffer and writes it once.  A buffer is    *)
(* kept as its length where Python's slice assignment can change it, and   *)
(* a sector as the BPB fields a reader parses there.                      *)
(***************************************************************************)
EXTENDS GptBuilder, TLC

Builders == {"fat32_mbr", "simple_esp", "gpt"}

\* LBA of the volume each builder formats, and its sectors: partition_start
\* 2048 and the rest of the disk; esp_start 1 and the rest of the disk; the
\* GPT's ESP.
PartStart(b) ==
    CASE b = "fat32_mbr"  -> 2048
      [] b = "simple_esp" -> 1
      [] b = "gpt"        -> EspStart
PartSectors(b, t) ==
    CASE b = "fat32_mbr"  -> t - 2048
      [] b = "simple_esp" -> t - 1
      [] b = "gpt"        -> EspSectors(t)

(***************************************************************************)
(* Buffer lengths                                                          *)
(***************************************************************************)
\* buf[lo:hi] = v on a bytearray of n bytes (hi <= n) replaces the slice by
\* the len(v) = k bytes of v: the buffer then holds n - (hi - lo) + k bytes.
SliceAssign(n, lo, hi, k) == n - (hi - lo) + k

\* The OEM name written into boot[3:11]: b'EFI FAT32' (9 bytes) in
\* create_fat32_boot_sector, b'MSDOS5.0' (8 bytes) in the other two.
OemBytes(b) == IF b = "fat32_mbr" THEN 9 ELSE 8

\* The boot sector is bytearray(512); every other field write replaces a
\* slice by as many bytes as it spans.
BootSectorBytes(b) == SliceAssign(512, 3, 11, OemBytes(b))

\* The image is bytearray(total_sectors * 512).  The boot sector buffer is
\* stored over the volume's sector 0 and again over its sector 6 (the
\* backup); the MBR, GPT header and array, FSInfo, FATs and records each
\* replace a slice of their own length.
ImageBytes(b, t) ==
    LET s == PartStart(b) * 512
    IN  SliceAssign(SliceAssign(t * 512, s, s + 512, BootSectorBytes(b)),
                    s + 6 * 512, s + 7 * 512, BootSectorBytes(b))

(***************************************************************************)
(* The sectors readers parse                                               *)
(***************************************************************************)
\* The BPB offsets of a sector no boot sector was written to: the MBR's
\* zero boot code, or the zero-filled rest of bytearray(image_size).
ZeroBpb == [bps |-> 0, spc |-> 0, rs |-> 0, nf |-> 0, hidden |-> 0, total |-> 0,
            spf |-> 0, root |-> 0, fsinfo |-> 0, backup |-> 0]

\* create-fat32-image.py and create-simple-esp.py: one MBR record, type
\* 0xEF, at the volume's start, of the volume's size.
EspMbr(b, t) == [type |-> 239, start |-> PartStart(b), size |-> PartSectors(b, t)]

\* The boot sector at the volume's first sector and its copy at sector 6.
BootSectors(s, bs) == (s :> bs) @@ (s + 6 :> bs)

\* What a reader finds on the image: MBR record 1, the header at LBA 1
\* (only create-gpt-image writes "EFI PART" there; simple_esp's LBA 1 is
\* its boot sector), the entry array, and the boot sectors by LBA.
Disk(b, t) ==
    IF b = "gpt"
    THEN [mbr |-> Image(t).mbr, lba1 |-> Image(t).lba1, array |-> Image(t).array,
          boot |-> BootSectors(EspStart, Image(t).esp)]
    ELSE [mbr |-> EspMbr(b, t), lba1 |-> NoHeader, array |-> ZeroArray,
          boot |-> BootSectors(PartStart(b), BiosParameterBlock(PartStart(b), PartSectors(b, t)))]

\* boot_sector = data[esp_start * 512 : esp_start * 512 + 512], parsed.
BpbAt(d, lba) == IF lba \in DOMAIN d.boot THEN d.boot[lba] ELSE ZeroBpb

(***************************************************************************)
(* Where the builder puts the volume's parts, in bytes from the image start *)
(***************************************************************************)
\* fat1_offset = partition offset + 32 * 512; the data area after both FATs
\* (fat2_offset + fat_size); root at cluster 2; directories of cluster c at
\* data_offset + (c - 2) * 8 * 512.
BuiltGeometry(b, t) ==
    LET fat1 == PartStart(b) * 512 + 32 * 512
        fatSize == Fat!SectorsPerFat(PartSectors(b, t)) * 512
    IN  [fat1 |-> fat1, data |-> fat1 + fatSize + fatSize, root |-> 2, cluster |-> 8 * 512]

BuiltDirOffset(b, t, c) == BuiltGeometry(b, t).data + (c - 2) * BuiltGeometry(b, t).cluster

(***************************************************************************)
(* Readers                                                                 *)
(***************************************************************************)
\* fat1_offset = boot_offset + reserved * bytes_per_sector, data_offset =
\* fat1_offset + num_fats * sectors_per_fat * bytes_per_sector, and the
\* step between clusters, from the BPB parsed at LBA start.
ReaderGeometry(start, bpb, clusterBytes) ==
    LET fat1 == start * 512 + bpb.rs * bpb.bps
    IN  [fat1 |-> fat1, data |-> fat1 + bpb.nf * bpb.spf * bpb.bps, root |-> bpb.root,
         cluster |-> clusterBytes]

\* Mutant: the data area taken to start after one FAT.
CopyGeometryOneFat(d) ==
    LET start == CopyEspStart(d)
        bpb == BpbAt(d, start)
        fat1 == start * 512 + bpb.rs * bpb.bps
    IN  [fat1 |-> fat1, data |-> fat1 + bpb.spf * bpb.bps, root |-> bpb.root,
         cluster |-> bpb.spc * bpb.bps]

\* copy-to-image.py: the volume the MBR names (or 2048), its BPB.
CopyGeometry(d) ==
    LET bpb == BpbAt(d, CopyEspStart(d))
    IN  ReaderGeometry(CopyEspStart(d), bpb, bpb.spc * bpb.bps)

NoGeometry == [fat1 |-> NoEsp, data |-> NoEsp, root |-> NoEsp, cluster |-> NoEsp]

\* verify-image.py: the ESP from the GPT or the MBR; read_directory steps
\* clusters by sectors_per_cluster * 512, whatever the BPB's sector size.
VerifyGeometry(d) ==
    IF VerifyEspStart(d) = NoEsp THEN NoGeometry
    ELSE LET bpb == BpbAt(d, VerifyEspStart(d))
         IN  ReaderGeometry(VerifyEspStart(d), bpb, bpb.spc * 512)

\* check-boot-dir.py: the BPB at LBA 2048 and the records of cluster 4.
CheckBootDirOffset(d) ==
    LET bpb == BpbAt(d, 2048)
        g == ReaderGeometry(2048, bpb, bpb.spc * bpb.bps)
    IN  g.data + (4 - 2) * g.cluster

(***************************************************************************)
(* Properties                                                              *)
(***************************************************************************)
\* For every builder and disk size, copy-to-image and verify-image, each
\* going from the partition table to the boot sector it points to, derive
\* the byte offsets at which the builder wrote FAT 1, the data area and
\* each directory, and the root cluster; and check-boot-dir, with LBA 2048
\* and cluster 4 built in, reads the records the builder wrote for
\* EFI/BOOT on the images that put the volume at 2048.
ReadersFindBuiltVolume ==
    \A b \in Builders :
        LET d == Disk(b, totalSectors)
        IN  /\ CopyGeometry(d) = BuiltGeometry(b, totalSectors)
            /\ VerifyGeometry(d) = BuiltGeometry(b, totalSectors)
            /\ PartStart(b) = 2048 =>
                   CheckBootDirOffset(d) = BuiltDirOffset(b, totalSectors, 4)

\* Spec 3: a disk image is a byte sequence of a fixed size made of 512-byte
\* sectors.  Each builder's boot sector is 512 bytes and the file it writes
\* is total_sectors * 512 bytes long.
ImageKeepsDiskSize ==
    \A b \in Builders :
        BootSectorBytes(b) = 512 /\ ImageBytes(b, totalSectors) = totalSectors * 512

=============================================================================
