----------------------------- MODULE Fat32Image -----------------------------
(***************************************************************************)
(* A disk image holding one FAT32 volume, as the builders lay it out, and   *)
(* the two tools that mutate it: copy-to-image.py (fat32_copy_file: find a  *)
(* directory, a free slot and free clusters, write data, both FATs and the  *)
(* entry) and update-image.py (update_file_in_image: find an existing file  *)
(* and overwrite its cluster chain in place).  Each tool run is one action: *)
(* copy-to-image edits the image in memory and writes it back once, and    *)
(* update-image fails, if it does, before it writes anything.              *)
(*                                                                         *)
(* Data is abstracted to what the properties tell apart: a cluster holds    *)
(* either 32-byte records (a directory, or zeros) or the k-th cluster-sized *)
(* piece of some source file.  FAT entries are kept masked (& 0x0FFFFFFF),  *)
(* as every reader of the FAT masks them.  The image file's length is kept *)
(* too: copy-to-image's slice assignments append what they write past it.  *)
(***************************************************************************)
EXTENDS FatGeometry, Integers, Sequences, SequencesExt, FiniteSets

CONSTANTS
    VolumeSectors,  \* sectors of the FAT32 volume (the partition)
    Layouts,        \* the images Init may start from (a subset of LayoutNames)
    Paths,          \* paths given to the tools: sequences of [base, ext] names
    Sources,        \* source files given to the tools: records [id, size]
    BareFiles       \* files in EFI/BOOT of a "bare" image: sequence of [name, src]

LayoutNames == {"fat32_mbr", "simple_esp", "gpt", "bare"}

ASSUME Layouts \subseteq LayoutNames /\ Layouts # {}

(***************************************************************************)
(* Volume geometry and on-disk constants                                   *)
(***************************************************************************)
FatSize == FatEntries(VolumeSectors)
FatIndex == 0..(FatSize - 1)
\* Every cluster number the FAT has an entry for.  Only 2..LastVolumeCluster
\* lie inside the volume; the FAT's spare entries name clusters past its end.
DataCluster == 2..(FatSize - 1)
LastVolumeCluster == NumClusters(VolumeSectors) + 1
SlotsPerCluster == ClusterBytes \div 32
Slot == 0..(SlotsPerCluster - 1)

\* cluster_to_offset, less the data area's offset: (c - 2) * cluster size.
DataOffset(c) == (c - 2) * ClusterBytes

\* The image file ends this many bytes after the volume's data area: the
\* volume runs to the end of the disk on the MBR images (create-fat32-
\* image's image is two bytes longer, see DiskImages!ImageBytes); the GPT
\* image keeps 34 sectors after the ESP (esp_end = total_sectors - 35); a
\* bare image is the volume alone.
TailBytes(l) ==
    CASE l = "fat32_mbr" -> 2
      [] l = "gpt"       -> 34 * BytesPerSector
      [] OTHER           -> 0

DataAreaBytes ==
    (VolumeSectors - ReservedSectors - NumFats * SectorsPerFat(VolumeSectors)) * BytesPerSector

ImageEnd(l) == DataAreaBytes + TailBytes(l)

EOC == 268435455        \* 0x0FFFFFFF, written for the last cluster of a chain
EocMin == 268435448     \* 0x0FFFFFF8, the least end-of-chain value; media mark
AttrDirectory == 16     \* 0x10
AttrArchive == 32       \* 0x20

IsDir(attr) == (attr \div AttrDirectory) % 2 = 1

Name(b, e) == [base |-> b, ext |-> e]
Dot == Name(".", "")
DotDot == Name("..", "")
RootName == Name("EFI", "")
BootName == Name("BOOT", "")

\* A directory record.  The start cluster is stored as two 16-bit halves
\* (offsets 20 and 26).
Entry(name, attr, cluster, size) ==
    [name |-> name, attr |-> attr,
     hi |-> cluster \div 65536, lo |-> cluster % 65536, size |-> size]

\* low16 | (high16 << 16): the halves never overlap, so | is +.
EntryCluster(e) == e.lo + e.hi * 65536

\* 32 zero bytes: the first byte 0x00 marks the end of the directory.
EndSlot == Entry(Name("", ""), 0, 0, 0)
IsEnd(s) == s.name.base = ""

Records(slots) == [kind |-> "records", slots |-> slots]
ZeroBlock == Records([i \in Slot |-> EndSlot])
\* Mutant: the piece index taken one too low.
ChunkOffByOne(id, k) == [kind |-> "bytes", src |-> id, part |-> k - 1]

Chunk(id, k) == [kind |-> "bytes", src |-> id, part |-> k]

\* The start of a cluster that holds the tail of some piece written from
\* the middle of the cluster before it: bytes of no piece at their place.
Stray == [kind |-> "stray"]

VARIABLES
    layout,     \* the image's partition layout, fixed when it is built
    fat1,       \* first FAT: [FatIndex -> masked entry]
    fat2,       \* second FAT
    data,       \* [DataCluster -> block]: what each cluster's first bytes hold
    imageLen,   \* length of the image file, in bytes from the data area's start
    run         \* the last tool run: tool, path, source and its outcome

vars == <<layout, fat1, fat2, data, imageLen, run>>

NoSource == [id |-> "none", size |-> 0]

\* The tool's exit: "ok" is exit status 0, anything else the error it
\* reports before exiting non-zero.
Outcome(tool, p, s, what) == [tool |-> tool, path |-> p, src |-> s, outcome |-> what]

\* No property looks at a copy's arguments: only its outcome is kept.
CopyOutcome(what) == Outcome("copy", <<>>, NoSource, what)

(***************************************************************************)
(* Where the volume starts, and where each tool looks for it               *)
(***************************************************************************)
\* LBA of the FAT32 boot sector each builder writes.
VolumeStart(l) ==
    CASE l = "fat32_mbr"  -> 2048
      [] l = "simple_esp" -> 1
      [] l = "gpt"        -> 2048
      [] l = "bare"       -> 0

\* MBR byte 450 (type of the first partition) and bytes 454..457 (its
\* start).  A bare image has its own boot sector there, zero at these bytes.
MbrType(l) ==
    CASE l = "gpt"  -> 238         \* 0xEE protective
      [] l = "bare" -> 0
      [] OTHER      -> 239         \* 0xEF ESP
MbrStart(l) ==
    CASE l = "gpt"  -> 1
      [] l = "bare" -> 0
      [] OTHER      -> VolumeStart(l)

\* copy-to-image.py: ESP at the MBR entry's start if it is type 0xEF, else
\* the GPT default 2048.
CopyVolumeStart(l) == IF MbrType(l) = 239 THEN MbrStart(l) ELSE 2048

\* update-image.py's parse_fat32_bpb reads the BPB from byte 0 of the image.
UpdateVolumeStart(l) == 0

(***************************************************************************)
(* Cluster chains (get_cluster_chain)                                      *)
(***************************************************************************)
\* Follow FAT links from start; stop at end-of-chain or a free entry.  The
\* code loops forever on a cyclic chain; fuel bounds the walk at FatSize.
RECURSIVE ChainFrom(_, _, _)
ChainFrom(fat, c, fuel) ==
    IF c \notin FatIndex \/ fuel = 0 \/ fat[c] >= EocMin \/ fat[c] = 0
    THEN <<c>>
    ELSE <<c>> \o ChainFrom(fat, fat[c], fuel - 1)

Chain(fat, start) == ChainFrom(fat, start, FatSize)

\* Mutant: floor instead of ceiling.
ClustersNeededFloor(size) ==
    LET n == size \div ClusterBytes
    IN  IF n = 0 THEN 1 ELSE n

\* clusters_needed: ceil(size / cluster size), at least one.
ClustersNeeded(size) ==
    LET n == (size + ClusterBytes - 1) \div ClusterBytes
    IN  IF n = 0 THEN 1 ELSE n

(***************************************************************************)
(* Directory scans                                                         *)
(***************************************************************************)
\* The 32-byte records of cluster c when the data area is d; a cluster
\* that holds bytes or lies outside the FAT reads as zeros.
SlotsIn(d, c) ==
    IF c \in DataCluster /\ d[c].kind = "records"
    THEN d[c].slots ELSE [i \in Slot |-> EndSlot]

SlotsOf(c) == SlotsIn(data, c)

\* Index of the first end-of-directory slot (SlotsPerCluster if none).
FirstEnd(slots) ==
    LET ends == {i \in Slot : IsEnd(slots[i])}
    IN  IF ends = {} THEN SlotsPerCluster ELSE Min(ends)

\* The records a scan of one cluster returns before it stops at the end.
LiveIn(d, c) ==
    LET s == SlotsIn(d, c) IN [k \in 1..FirstEnd(s) |-> s[k - 1]]

LiveSlots(c) == LiveIn(data, c)

\* First record of a sequence that satisfies P, or EndSlot.
FirstMatch(recs, P(_)) ==
    LET ks == {k \in 1..Len(recs) : P(recs[k])}
    IN  IF ks = {} THEN EndSlot ELSE recs[Min(ks)]

NoCluster == -1

(***************************************************************************)
(* copy-to-image.py, fat32_copy_file                                       *)
(***************************************************************************)
\* A path component names a directory to copy-to-image when its uppercased
\* text equals the record's 8-character name field, stripped, and the
\* record has the directory bit: the extension field is not compared.
CopyDirMatch(e, part) ==
    part.ext = "" /\ e.name.base = part.base /\ IsDir(e.attr)

\* The navigation loop: scans only the first cluster of each directory.
\* With the volume not found every scan covers zero slots.
RECURSIVE CopyWalk(_, _, _)
CopyWalk(found, c, dirs) ==
    IF dirs = <<>> THEN c
    ELSE LET e == FirstMatch(IF found THEN LiveSlots(c) ELSE <<>>,
                             LAMBDA r : CopyDirMatch(r, Head(dirs)))
         IN  IF IsEnd(e) THEN NoCluster
             ELSE CopyWalk(found, EntryCluster(e), Tail(dirs))

\* Mutant: clusters taken without checking that their entry is free.
RECURSIVE ScanFreeAny(_, _, _)
ScanFreeAny(fat, i, n) ==
    IF n = 0 \/ i >= FatSize THEN <<>> ELSE <<i>> \o ScanFreeAny(fat, i + 1, n - 1)

\* First-fit scan of FAT 1 from cluster i upward over every entry the FAT
\* holds, stopping once n free clusters are collected.
RECURSIVE ScanFree(_, _, _)
ScanFree(fat, i, n) ==
    IF n = 0 \/ i >= FatSize THEN <<>>
    ELSE IF fat[i] = 0 THEN <<i>> \o ScanFree(fat, i + 1, n - 1)
    ELSE ScanFree(fat, i + 1, n)

FreeList(fat, n) == ScanFree(fat, 2, n)

\* Mutant: the end-of-chain write for the last cluster is missing.
LinkChainNoEoc(fat, ch) ==
    [i \in FatIndex |->
        IF \E k \in 1..(Len(ch) - 1) : ch[k] = i
        THEN ch[(CHOOSE k \in 1..Len(ch) : ch[k] = i) + 1]
        ELSE fat[i]]

\* FAT[chain[i]] = chain[i+1] for all but the last, which gets EOC.
LinkChain(fat, ch) ==
    [i \in FatIndex |->
        IF \E k \in 1..Len(ch) : ch[k] = i
        THEN LET k == CHOOSE k \in 1..Len(ch) : ch[k] = i
             IN  IF k < Len(ch) THEN ch[k + 1] ELSE EOC
        ELSE fat[i]]

\* The FAT edited in memory is written back over FAT 1 and FAT 2.
CommitFats(ch) ==
    /\ fat1' = LinkChain(fat1, ch)
    /\ fat2' = LinkChain(fat1, ch)

\* Mutant: the first byte of the slot is not checked.
FreeSlotUnchecked(c) == 0

\* The free-record search: the first slot whose first byte is 0x00 (or
\* 0xE5, which no tool writes) in the directory's first cluster.
FreeSlot(c) == FirstEnd(SlotsOf(c))

\* Clusters that receive bytes: to_write = min(remaining, cluster) > 0.
PartsWritten(size) == (size + ClusterBytes - 1) \div ClusterBytes

\* to_write for the k-th cluster: what is left of the file, at most a
\* cluster, nothing once the file is written.
PieceBytes(size, k) ==
    LET left == size - (k - 1) * ClusterBytes
    IN  CASE left <= 0           -> 0
          [] left < ClusterBytes -> left
          [] OTHER               -> ClusterBytes

\* image[off:off+n] = piece on the in-memory image buf (its blocks d and
\* length len).  Up to the end of the bytearray the piece goes to off;
\* from further on, Python's slice assignment appends it at len(image).
\* Nothing written from the middle of a cluster changes the cluster's
\* first bytes (they end before len); a piece crossing into the next
\* cluster leaves stray bytes at its start.  An empty piece changes nothing.
PlaceBytes(buf, off, n, blk) ==
    LET pos == IF off <= buf.len THEN off ELSE buf.len
        c   == 2 + pos \div ClusterBytes
    IN  IF n = 0 THEN buf
        ELSE [d   |-> CASE pos % ClusterBytes = 0 /\ c \in DataCluster
                             -> [buf.d EXCEPT ![c] = blk]
                        [] (pos % ClusterBytes) + n > ClusterBytes /\ c + 1 \in DataCluster
                             -> [buf.d EXCEPT ![c + 1] = Stray]
                        [] OTHER -> buf.d,
              len |-> IF pos + n > buf.len THEN pos + n ELSE buf.len]

\* The data loop over the allocated clusters in chain order: cluster ch[k]
\* gets piece k - 1 of s.
RECURSIVE CopyWrites(_, _, _, _)
CopyWrites(buf, ch, s, k) ==
    IF k > Len(ch) THEN buf
    ELSE CopyWrites(PlaceBytes(buf, DataOffset(ch[k]), PieceBytes(s.size, k), Chunk(s.id, k - 1)),
                    ch, s, k + 1)

CopyData(ch, s) == CopyWrites([d |-> data, len |-> imageLen], ch, s, 1)

Copy(p, s) ==
    LET found == CopyVolumeStart(layout) = VolumeStart(layout)
        dir   == CopyWalk(found, IF found THEN 2 ELSE 0, Front(p))
        free  == IF found THEN FreeSlot(dir) ELSE SlotsPerCluster
        need  == ClustersNeeded(s.size)
        ch    == FreeList(fat1, need)
        entry == Entry(Last(p), AttrArchive, ch[1], s.size)
    IN  \/ /\ dir = NoCluster
           /\ run' = CopyOutcome("dir_not_found")
           /\ UNCHANGED <<layout, fat1, fat2, data, imageLen>>
        \/ /\ dir # NoCluster
           /\ free = SlotsPerCluster
           /\ run' = CopyOutcome("dir_full")
           /\ UNCHANGED <<layout, fat1, fat2, data, imageLen>>
        \/ /\ dir # NoCluster
           /\ free < SlotsPerCluster
           /\ Len(ch) < need
           /\ run' = CopyOutcome("no_space")
           /\ UNCHANGED <<layout, fat1, fat2, data, imageLen>>
        \/ /\ dir # NoCluster
           /\ free < SlotsPerCluster
           /\ Len(ch) = need
           /\ CommitFats(ch)
           /\ LET img == CopyData(ch, s)
              IN  /\ data' = [img.d EXCEPT
                                ![dir] = Records([SlotsOf(dir) EXCEPT ![free] = entry])]
                  /\ imageLen' = img.len
           /\ run' = CopyOutcome("ok")
           /\ UNCHANGED layout

(***************************************************************************)
(* update-image.py, update_file_in_image                                   *)
(***************************************************************************)
\* list_directory: the records of every cluster of the directory's chain;
\* the scan of a cluster stops at its end record, the next cluster is still
\* read.  With the volume not found the FAT and every cluster read are empty.
ListDir(found, c) ==
    IF found
    THEN LET ch == Chain(fat1, c) IN FlattenSeq([k \in 1..Len(ch) |-> LiveSlots(ch[k])])
    ELSE <<>>

\* find_directory: the stripped 11-character name equals the component.
UpdateDirMatch(e, part) == part.ext = "" /\ e.name = part /\ IsDir(e.attr)

\* Mutant: the name comparison is dropped.
UpdateFileMatchAnyName(e, name) == Len(name.ext) = 3

\* find_file_in_dir compares the stripped stored name with the component
\* padded to 8+3 characters: only a three-character extension leaves no
\* trailing blanks to differ.  The attribute is not looked at.
UpdateFileMatch(e, name) == Len(name.ext) = 3 /\ e.name = name

RECURSIVE UpdateWalk(_, _, _)
UpdateWalk(found, c, dirs) ==
    IF dirs = <<>> THEN c
    ELSE LET e == FirstMatch(ListDir(found, c), LAMBDA r : UpdateDirMatch(r, Head(dirs)))
         IN  IF IsEnd(e) THEN NoCluster
             ELSE UpdateWalk(found, EntryCluster(e), Tail(dirs))

\* update_file writes min(chain length, clusters_needed) clusters: it stops
\* once the data is used up or the chain ends.
UpdateCount(ch, s) ==
    IF Len(ch) < ClustersNeeded(s.size) THEN Len(ch) ELSE ClustersNeeded(s.size)

\* The image after the first j writes of update_file: cluster ch[i] gets
\* piece i - 1, padded with zeros (all zeros for an empty source).
UpdateWrites(ch, s, j) ==
    [c \in DataCluster |->
        IF \E i \in 1..j : ch[i] = c
        THEN IF s.size = 0 THEN ZeroBlock
             ELSE Chunk(s.id, (CHOOSE i \in 1..j : ch[i] = c) - 1)
        ELSE data[c]]

\* update_file as a whole.  The record's size and the FAT are left as they
\* are.
UpdateData(ch, s) == UpdateWrites(ch, s, UpdateCount(ch, s))

\* f.seek(offset); f.write(chunk) puts a whole cluster at its offset, the
\* file growing (zero-filled) when the offset lies past its end.
UpdateLen(ch, j) ==
    LET ends == {imageLen} \cup {DataOffset(ch[i]) + ClusterBytes : i \in 1..j}
    IN  CHOOSE n \in ends : \A m \in ends : n >= m

\* The directory and the record update_file_in_image finds for path p.
UpdateDir(p) == UpdateWalk(UpdateVolumeStart(layout) = VolumeStart(layout),
                           IF UpdateVolumeStart(layout) = VolumeStart(layout) THEN 2 ELSE 0,
                           Front(p))
UpdateFile(p) ==
    FirstMatch(IF UpdateDir(p) = NoCluster THEN <<>>
               ELSE ListDir(UpdateVolumeStart(layout) = VolumeStart(layout), UpdateDir(p)),
               LAMBDA r : UpdateFileMatch(r, Last(p)))

Update(p, s) ==
    LET dir  == UpdateDir(p)
        file == UpdateFile(p)
    IN  \/ /\ dir = NoCluster
           /\ run' = Outcome("update", p, s, "dir_not_found")
           /\ UNCHANGED <<layout, fat1, fat2, data, imageLen>>
        \/ /\ dir # NoCluster
           /\ IsEnd(file)
           /\ run' = Outcome("update", p, s, "file_not_found")
           /\ UNCHANGED <<layout, fat1, fat2, data, imageLen>>
        \/ /\ dir # NoCluster
           /\ ~IsEnd(file)
           /\ data' = UpdateData(Chain(fat1, EntryCluster(file)), s)
           /\ imageLen' = UpdateLen(Chain(fat1, EntryCluster(file)),
                                    UpdateCount(Chain(fat1, EntryCluster(file)), s))
           /\ run' = Outcome("update", p, s, "ok")
           /\ UNCHANGED <<layout, fat1, fat2>>

\* Fault: the process is killed during update_file's
\* loop, after j of its seek/write pairs: each write goes straight to the
\* image file, so the first j clusters hold new data and the rest old.
UpdateCrash(p, s) ==
    LET file == UpdateFile(p)
        ch   == Chain(fat1, EntryCluster(file))
    IN  /\ UpdateDir(p) # NoCluster
        /\ ~IsEnd(file)
        /\ \E j \in 0..(UpdateCount(ch, s) - 1) :
               data' = UpdateWrites(ch, s, j) /\ imageLen' = UpdateLen(ch, j)
        /\ run' = Outcome("update", p, s, "crashed")
        /\ UNCHANGED <<layout, fat1, fat2>>

(***************************************************************************)
(* The images the builders write                                           *)
(***************************************************************************)
SlotsFrom(recs) == [i \in Slot |-> IF i < Len(recs) THEN recs[i + 1] ELSE EndSlot]

\* FAT[0] media mark 0x0FFFFFF8, FAT[1] 0xFFFFFFFF (masked: EOC), and the
\* root, EFI and BOOT directories at clusters 2, 3, 4 each end-of-chain.
BuiltFat == [i \in FatIndex |-> IF i = 0 THEN EocMin ELSE IF i <= 4 THEN EOC ELSE 0]

\* create-fat32-image.py writes EFI's "." as cluster 2 and ".." as 0; the
\* other two builders write 3 and 2.
EfiDot(l) == IF l = "fat32_mbr" THEN 2 ELSE 3
EfiDotDot(l) == IF l = "fat32_mbr" THEN 0 ELSE 2

BuiltDirs(l) ==
    [c \in {2, 3, 4} |->
        CASE c = 2 -> <<Entry(RootName, AttrDirectory, 3, 0)>>
          [] c = 3 -> <<Entry(Dot, AttrDirectory, EfiDot(l), 0),
                        Entry(DotDot, AttrDirectory, EfiDotDot(l), 0),
                        Entry(BootName, AttrDirectory, 4, 0)>>
          [] c = 4 -> <<Entry(Dot, AttrDirectory, 4, 0),
                        Entry(DotDot, AttrDirectory, 3, 0)>>]

(***************************************************************************)
(* A bare image is the ESP of the GPT layout on its own, without partition *)
(* table, after copy-to-image has put BareFiles into EFI/BOOT: each file   *)
(* gets the next free clusters from 5 on, linked in order.                 *)
(***************************************************************************)
BareStart(j) ==
    5 + FoldLeft(LAMBDA acc, f : acc + ClustersNeeded(f.src.size), 0,
                 SubSeq(BareFiles, 1, j - 1))

BareOwner(c) ==
    {j \in 1..Len(BareFiles) :
        c >= BareStart(j) /\ c < BareStart(j) + ClustersNeeded(BareFiles[j].src.size)}

InitFat(l) ==
    [i \in FatIndex |->
        IF l = "bare" /\ BareOwner(i) # {}
        THEN LET j == CHOOSE j \in BareOwner(i) : TRUE
             IN  IF i + 1 < BareStart(j) + ClustersNeeded(BareFiles[j].src.size)
                 THEN i + 1 ELSE EOC
        ELSE BuiltFat[i]]

InitDirs(l) ==
    IF l = "bare"
    THEN [BuiltDirs(l) EXCEPT ![4] = @ \o
            [j \in 1..Len(BareFiles) |->
                Entry(BareFiles[j].name, AttrArchive, BareStart(j), BareFiles[j].src.size)]]
    ELSE BuiltDirs(l)

InitData(l) ==
    [c \in DataCluster |->
        IF c \in {2, 3, 4} THEN Records(SlotsFrom(InitDirs(l)[c]))
        ELSE IF l = "bare" /\ BareOwner(c) # {}
        THEN LET j == CHOOSE j \in BareOwner(c) : TRUE
             IN  IF c - BareStart(j) < PartsWritten(BareFiles[j].src.size)
                 THEN Chunk(BareFiles[j].src.id, c - BareStart(j))
                 ELSE ZeroBlock
        ELSE ZeroBlock]

Init ==
    /\ layout \in Layouts
    /\ fat1 = InitFat(layout)
    /\ fat2 = InitFat(layout)
    /\ data = InitData(layout)
    /\ imageLen = ImageEnd(layout)
    /\ run = Outcome("none", <<>>, NoSource, "none")

Next ==
    \E p \in Paths, s \in Sources :
        \/ Copy(p, s)
        \/ Update(p, s)
        \/ UpdateCrash(p, s)

Spec == Init /\ [][Next]_vars

(***************************************************************************)
(* The directory tree as a FAT32 reader sees it                            *)
(***************************************************************************)
IsDotName(n) == n \in {Dot, DotDot}

\* The records of directory c other than "." and "..".
ChildrenIn(d, c) ==
    LET live == LiveIn(d, c)
    IN  {live[k] : k \in {k \in 1..Len(live) : ~IsDotName(live[k].name)}}

Children(c) == ChildrenIn(data, c)

RECURSIVE Reach(_, _)
Reach(S, fuel) ==
    LET next == S \cup UNION {{EntryCluster(e) : e \in {e \in Children(c) : IsDir(e.attr)}} : c \in S}
    IN  IF next = S \/ fuel = 0 THEN S ELSE Reach(next, fuel - 1)

\* Clusters of the directories reachable from the root (cluster 2).
TreeDirs == Reach({2}, FatSize)

\* Every record of the tree, by where it is stored: <<directory, slot>>.
Places == {<<c, k>> \in TreeDirs \X Slot :
              k < Len(LiveSlots(c)) /\ ~IsDotName(LiveSlots(c)[k + 1].name)}
At(pl) == LiveSlots(pl[1])[pl[2] + 1]

\* The clusters of the chain a record of the tree starts.
Owned(pl) == Range(Chain(fat1, EntryCluster(At(pl))))

\* What a reader gets for a path: the first record of each name, exact
\* names, directories in between.
RECURSIVE LookupIn(_, _, _)
LookupIn(d, c, p) ==
    LET e == FirstMatch(LiveIn(d, c), LAMBDA r : r.name = Head(p))
    IN  IF Len(p) = 1 \/ IsEnd(e) THEN e
        ELSE IF IsDir(e.attr) THEN LookupIn(d, EntryCluster(e), Tail(p)) ELSE EndSlot

Lookup(c, p) == LookupIn(data, c, p)

\* Reference: the least number of clusters, at least one, holding size bytes.
CeilClusters(size) ==
    CHOOSE n \in 1..(size + 1) :
        n * ClusterBytes >= size /\ (n = 1 \/ (n - 1) * ClusterBytes < size)

\* A file record reads back as source s: its chain is exactly as long as
\* its size needs and ends in EOC, and cluster k holds piece k of s.
ReadsBackIn(fat, d, e, s) ==
    LET ch == Chain(fat, EntryCluster(e))
    IN  /\ e.size = s.size
        /\ Len(ch) = CeilClusters(e.size)
        /\ fat[ch[Len(ch)]] = EOC
        /\ \A k \in 1..Len(ch) : (k - 1) * ClusterBytes < e.size => d[ch[k]] = Chunk(s.id, k - 1)

ReadsBack(e, s) == ReadsBackIn(fat1, data, e, s)

KnownSources == Sources \cup {BareFiles[j].src : j \in 1..Len(BareFiles)}

(***************************************************************************)
(* The volume as the file store of FileStore                               *)
(***************************************************************************)
\* The store is a function of the FAT and the data area, so that the step
\* of a tool run is the mapping applied to the FAT and data before and after.
\* Paths of the regular files below directory c (at path prefix).
RECURSIVE FilesUnder(_, _, _, _)
FilesUnder(d, c, prefix, fuel) ==
    {Append(prefix, e.name) : e \in {e \in ChildrenIn(d, c) : ~IsDir(e.attr)}}
    \cup IF fuel = 0 THEN {}
         ELSE UNION {FilesUnder(d, EntryCluster(e), Append(prefix, e.name), fuel - 1) :
                        e \in {e \in ChildrenIn(d, c) : IsDir(e.attr)}}

\* The content a reader gets for path p: the source it reads back as.
Unreadable == "unreadable"
StoredContent(fat, d, p) ==
    LET e == LookupIn(d, 2, p)
    IN  IF \E s \in KnownSources : ReadsBackIn(fat, d, e, s)
        THEN (CHOOSE s \in KnownSources : ReadsBackIn(fat, d, e, s)).id
        ELSE Unreadable

StoredIn(fat, d) == [p \in FilesUnder(d, 2, <<>>, FatSize) |-> StoredContent(fat, d, p)]

InitialStore(l) ==
    IF l = "bare"
    THEN [p \in {<<RootName, BootName, BareFiles[j].name>> : j \in 1..Len(BareFiles)} |->
             (CHOOSE j \in 1..Len(BareFiles) : p[3] = BareFiles[j].name).src.id]
    ELSE <<>>

(***************************************************************************)
(* Properties                                                              *)
(***************************************************************************)
Block == [kind : {"records"}, slots : [Slot -> [name : [base : STRING, ext : STRING],
              attr : {0, AttrDirectory, AttrArchive}, hi : Nat, lo : Nat, size : Nat]]]
         \cup [kind : {"bytes"}, src : {s.id : s \in KnownSources}, part : Nat]
         \cup {Stray}

TypeOK ==
    /\ layout \in Layouts
    /\ fat1 \in [FatIndex -> Nat]
    /\ fat2 \in [FatIndex -> Nat]
    /\ data \in [DataCluster -> Block]
    /\ imageLen \in Nat
    /\ run.tool \in {"none", "copy", "update"}
    /\ run.outcome \in {"none", "ok", "dir_not_found", "dir_full", "no_space", "file_not_found", "crashed"}

\* No cluster is on the chains of two objects of the tree: first-fit
\* allocation of copy-to-image hands out only clusters whose FAT entry is 0,
\* which holds only if every earlier chain was terminated with EOC.
NoCrossLinkedClusters ==
    \A a, b \in Places : a # b => Owned(a) \cap Owned(b) = {}

\* Every file of the tree reads back as the source some tool run wrote to
\* it: size, chain length ceil(size / cluster), EOC at its end, pieces in
\* order (spec 8, first property and the 5000-byte scenario).
FileReadsBack ==
    \A pl \in Places :
        ~IsDir(At(pl).attr) => \E s \in KnownSources : ReadsBack(At(pl), s)

\* Records of the tree are never rewritten: a run only adds a record after
\* the live ones of a directory (copy-to-image's free-slot search).
RecordsOnlyAppended ==
    [][\A c \in TreeDirs : IsPrefix(LiveSlots(c), LiveSlots(c)')]_vars

\* A run that allocates nothing (update-image) writes only into the
\* clusters of regular files: never into a directory.
UpdateWritesOnlyFileData ==
    [][fat1' = fat1 =>
         \A c \in DataCluster :
            data'[c] # data[c] =>
                \E pl \in Places : ~IsDir(At(pl).attr) /\ c \in Owned(pl)]_vars

\* copy-to-image navigates and searches for a free slot in the first
\* cluster of a directory only, while update-image's list_directory reads
\* the whole chain and goes on past an end record into the next cluster.
\* The two see the same directory, and the end record ends it, as long as
\* every directory of the tree is a chain of one cluster: no run ever links
\* a directory's cluster to another one.
DirectoriesFitOneCluster ==
    \A c \in TreeDirs : Len(Chain(fat1, c)) = 1

\* FAT convention: the "." record of a subdirectory names the directory
\* itself.
DotNamesOwnDirectory ==
    \A c \in TreeDirs \ {2} :
        \A k \in 1..Len(LiveSlots(c)) :
            LiveSlots(c)[k].name = Dot => EntryCluster(LiveSlots(c)[k]) = c

\* Names are unique within a directory (a FAT directory holds one record
\* per name; a reader takes the first).
NamesUniqueInDirectory ==
    \A a, b \in Places : a # b /\ a[1] = b[1] => At(a).name # At(b).name

\* Spec 4.6: update-image locates an existing file by its path: a run on a
\* path that names a regular file of the tree succeeds.
UpdateFindsExistingFile ==
    run.tool = "update" /\ ~IsEnd(Lookup(2, run.path)) /\ ~IsDir(Lookup(2, run.path).attr)
        => run.outcome = "ok"


=============================================================================
