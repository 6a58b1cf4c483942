----------------------------- MODULE GptBuilder -----------------------------
(***************************************************************************)
(* create-gpt-image.py, create_gpt_efi_image: the protective MBR, the      *)
(* primary GPT header and partition entry array, and the ESP's FAT32 boot  *)
(* sector, for a disk of totalSectors sectors; and how the repository's    *)
(* readers (verify-image.py, copy-to-image.py) and a UEFI reader locate    *)
(* the ESP on the result.                                                  *)
(*                                                                         *)
(* The builder is straight-line code over an in-memory buffer written once *)
(* at the end, so the image is a function of the disk size and the two     *)
(* uuid4 values: it is defined by operators, in the order the code         *)
(* assigns.  The code fixes the disk at 64 MiB; the model takes the size   *)
(* as the one variable so that its arithmetic is checked over many disks.  *)
(* A CRC32 is kept as the uninterpreted checksum of the bytes it covers:   *)
(* two CRCs are equal exactly when the covered bytes are.                  *)
(***************************************************************************)
EXTENDS Integers

CONSTANTS
    DiskSizes,  \* disk sizes in sectors (the code's is 64 MiB / 512)
    DiskGuid,   \* the uuid4 written as the disk GUID
    PartGuid    \* the uuid4 written as the ESP's unique partition GUID

\* FAT32 parameters of the ESP, as the code sets them.
Fat == INSTANCE FatGeometry WITH BytesPerSector <- 512, SectorsPerCluster <- 8,
                                 ReservedSectors <- 32, NumFats <- 2

VARIABLE totalSectors

Init == totalSectors \in DiskSizes
Next == UNCHANGED totalSectors
Spec == Init /\ [][Next]_totalSectors

(***************************************************************************)
(* Layout arithmetic                                                       *)
(***************************************************************************)
FirstUsableLba == 34
\* Mutant: the last usable LBA one too high.
LastUsableLbaOffByOne(t) == t - 33
LastUsableLba(t) == t - 34
EspStart == 2048
EspEnd(t) == LastUsableLba(t) - 1
EspSectors(t) == EspEnd(t) - EspStart + 1

ArrayLba == 2
NumEntries == 128
EntrySize == 128
\* Sectors of the array: 128 entries of 128 bytes.
ArraySectors == (NumEntries * EntrySize) \div 512

(***************************************************************************)
(* What the builder writes                                                 *)
(***************************************************************************)
\* A CRC32 field: zero before it is computed, then the checksum of the
\* bytes it was computed over (a one-element tuple, so that the two forms
\* compare as unequal).
ZeroCrc == <<>>
Crc32(bytes) == <<bytes>>

\* Partition record 1 of the MBR at byte 446: type 0xEE from LBA 1.
ProtectiveMbr(t) == [type |-> 238, start |-> 1, size |-> t - 1]

EspTypeGuid == "C12A7328-F81F-11D2-BA4B-00A0C93EC93B"
UnusedEntry == [type |-> "", guid |-> "", first |-> 0, last |-> 0]
EspEntry(t, u) == [type |-> EspTypeGuid, guid |-> u, first |-> EspStart, last |-> EspEnd(t)]

\* The 128-entry array as the image holds it once entry 0 is written.
EntryArray(t, u) == [i \in 0..(NumEntries - 1) |-> IF i = 0 THEN EspEntry(t, u) ELSE UnusedEntry]
\* The array region before entry 0 is written: all zero.
ZeroArray == [i \in 0..(NumEntries - 1) |-> UnusedEntry]

\* The 92 header bytes, both CRC fields still zero.
HeaderFields(t, g) ==
    [sig |-> "EFI PART", revision |-> 65536, size |-> 92, crc |-> ZeroCrc,
     current |-> 1, backup |-> t - 1, firstUsable |-> FirstUsableLba,
     lastUsable |-> LastUsableLba(t), diskGuid |-> g, arrayLba |-> ArrayLba,
     numEntries |-> NumEntries, entrySize |-> EntrySize, arrayCrc |-> ZeroCrc]

\* The header CRC over bytes 0..91 of the header as it stands, stored at 16.
WithHeaderCrc(h) == [h EXCEPT !.crc = Crc32(h)]

\* The header as finally written: CRC once with both fields zero, then the
\* array CRC stored and the header CRC computed again over the header that
\* still holds the first CRC.
SealedHeader(t, g, u) ==
    WithHeaderCrc([WithHeaderCrc(HeaderFields(t, g)) EXCEPT !.arrayCrc = Crc32(EntryArray(t, u))])

\* The BPB fields a FAT32 boot sector carries for a volume of ps sectors at
\* LBA start, as every builder writes them: 512-byte sectors, 8 sectors a
\* cluster, 32 reserved sectors, 2 FATs, hidden sectors = the partition's
\* start, the two-pass FAT size, root at cluster 2, FSInfo at volume sector
\* 1 and the backup boot sector at 6.  Jump, OEM name, media, geometry,
\* serial and label are data no reader computes with.
BiosParameterBlock(start, ps) ==
    [bps |-> 512, spc |-> 8, rs |-> 32, nf |-> 2, hidden |-> start, total |-> ps,
     spf |-> Fat!SectorsPerFat(ps), root |-> 2, fsinfo |-> 1, backup |-> 6]

\* The ESP's boot sector.
EspBootSector(t) == BiosParameterBlock(EspStart, EspSectors(t))

NoHeader == [sig |-> ""]

\* The image file: LBA 0, LBA 1, LBAs 2..33, the ESP's first sector and the
\* disk's last sector, where a backup header belongs; nothing writes it.
Image(t) ==
    [mbr |-> ProtectiveMbr(t), lba1 |-> SealedHeader(t, DiskGuid, PartGuid),
     array |-> EntryArray(t, PartGuid), esp |-> EspBootSector(t), last |-> NoHeader]

(***************************************************************************)
(* Readers of the image                                                    *)
(***************************************************************************)
NoEsp == -1

\* verify-image.py: with "EFI PART" at byte 512, the first of entries 0..3
\* with the ESP type GUID; otherwise the MBR record if it is type 0xEF.
VerifyEspStart(d) ==
    IF d.lba1.sig = "EFI PART"
    THEN IF \E i \in 0..3 : d.array[i].type = EspTypeGuid
         THEN d.array[CHOOSE i \in 0..3 : d.array[i].type = EspTypeGuid].first
         ELSE NoEsp
    ELSE IF d.mbr.type = 239 THEN d.mbr.start ELSE NoEsp

\* copy-to-image.py: the MBR record's start if it is type 0xEF, else 2048.
CopyEspStart(d) == IF d.mbr.type = 239 THEN d.mbr.start ELSE 2048

\* UEFI: a header is valid when its signature matches, its CRC recomputed
\* with the CRC field zero matches, and it names the LBA it is read from.
HeaderValid(h, lba) ==
    /\ h.sig = "EFI PART"
    /\ h.crc = Crc32([h EXCEPT !.crc = ZeroCrc])
    /\ h.current = lba

(***************************************************************************)
(* Properties                                                              *)
(***************************************************************************)
\* The layout the header declares is consistent with the disk and with the
\* FAT32 volume in the ESP: the ESP lies within the usable LBAs, which lie
\* between the primary array and the backup array before the last sector;
\* the protective MBR covers the rest of the disk; the volume's boot sector
\* is at the ESP's start and its last data cluster ends inside the ESP.
GptGeometryConsistent ==
    LET d == Image(totalSectors)
        h == d.lba1
        n == d.esp.total
    IN  /\ h.firstUsable >= ArrayLba + ArraySectors
        /\ h.lastUsable < h.backup - ArraySectors
        /\ h.backup = totalSectors - 1
        /\ h.firstUsable <= d.array[0].first
        /\ d.array[0].last <= h.lastUsable
        /\ d.mbr.start + d.mbr.size = totalSectors
        /\ d.esp.hidden = d.array[0].first
        /\ n = d.array[0].last - d.array[0].first + 1
        /\ Fat!ClusterSector(n, Fat!NumClusters(n) + 2) <= n

\* UEFI: the disk has a valid GPT header, the primary at LBA 1 or else the
\* backup at the last LBA.
SomeGptHeaderValid ==
    LET d == Image(totalSectors)
    IN  HeaderValid(d.lba1, 1) \/ HeaderValid(d.last, totalSectors - 1)

=============================================================================
