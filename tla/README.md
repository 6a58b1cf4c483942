# TLA+ models of the webbOS disk-image tools

The repository's image tooling is made of Python scripts. None of them runs
concurrently with another, and each does its work in one process run.

- **Builders** write a 64 MiB disk image containing one FAT32 volume that holds
  `EFI/BOOT`:
  - `create-fat32-image.py`: MBR, volume at LBA 2048.
  - `create-simple-esp.py`: MBR, volume at LBA 1.
  - `create-gpt-image.py`: protective MBR, GPT, volume at LBA 2048.
- **Mutators** change an existing image:
  - `tools/copy-to-image.py` adds a new file. It reads the whole image into
    memory, edits it there and writes it back once.
  - `update-image.py` overwrites the data of an existing file in place.
- **Inspectors** only print: `verify-image.py` and `check-boot-dir.py`.

The tools interact only through the image file. The builders' FAT sizing,
directory layout and MBR determine what the mutators find. The FAT and records
one mutator writes determine what the next run of either tool sees.

## Inventory

| Component (spec §) | State | Operations | Module |
|---|---|---|---|
| FAT sizing (4.2) | partition sectors | two-pass `sectors_per_fat`, `num_clusters` | `FatGeometry`, `FatSizing` |
| Builders (4.1, 4.2) | MBR type/start, FAT 0..4, root/EFI/BOOT records | one build each | `Fat32Image` (Init) |
| Builders' partition table and boot sector (4.1, 4.2, 6) | MBR record, BPB and its backup, FAT and data offsets, buffer lengths | one build each | `DiskImages` |
| GPT header (4.1) | protective MBR, header, array, CRCs, ESP boot sector | build | `GptBuilder` |
| copy-to-image (4.3, 4.6) | FAT 1, FAT 2, directory clusters, data clusters | `fat32_copy_file` | `Fat32Image!Copy` |
| update-image (4.5, 4.6) | data clusters (FAT and records only read) | `update_file_in_image`, crash inside `update_file` | `Fat32Image!Update`, `Fat32Image!UpdateCrash` |
| File store (4.6) | path → content | copy adds, update replaces | `FileStore` (abstract), `MCFat32ImageStore` (refinement) |
| Inspectors (4.7) | none | print; both locate the volume and its directories | `GptBuilder!VerifyEspStart`, `DiskImages!VerifyGeometry`, `DiskImages!CheckBootDirOffset`; the listings only print |

### Hard behaviours

These are what a unit test would hardly reach:

- **Sequences of tool runs on one image.** Examples are a copy after an update,
  two copies of one name, or filling a directory or the FAT.
- **Boundary arithmetic:**
  - the ceiling in `clusters_needed`, including its 0 → 1 edge;
  - the FAT sized with one spare sector;
  - the free scan running over all FAT entries, more entries than the volume
    has clusters.
- **Disagreements between components:**
  - where each tool looks for the volume;
  - how each compares names (`copy` compares the 8-character field;
    `update` compares the stripped name against a padded one);
  - `copy` reads one cluster of a directory while `update` reads the whole
    chain.
- **Crashes between writes.** `update` writes cluster by cluster, so a crash
  leaves some clusters new and the rest old (`UpdateCrash`). `copy` truncates
  the image before rewriting it. That crash is not modelled (see below).
- **Byte lengths.** A Python slice assignment with a longer value grows the
  buffer. In the builders every field is still written at its absolute
  offset, so only the buffer's length shows it. In `copy-to-image`, a slice
  that starts past the end of the bytearray does not write there: it
  appends the piece at the current end.
- **Checksums in order.** The GPT header CRC covers the field that holds the
  array CRC, and the header CRC field itself must be zero while it is taken.

## Modules

- **`FatGeometry`** (no variables). The builders' integer arithmetic, plus a
  reference definition: `MinimalSectorsPerFat` is the least FAT with an entry
  for every cluster left once the FATs are laid out.
- **`FatSizing` / `MCFatSizing`.** A constant-state spec whose initial states
  are partition sizes. Invariants over them check the arithmetic.
- **`Fat32Image`.** The image as variables:
  - `layout`: which builder made it;
  - `fat1` and `fat2`: the masked entries of the two FATs;
  - `data`: what the first bytes of each FAT-addressable cluster hold: 32-byte
    records, the k-th piece of a source file, or stray bytes;
  - `imageLen`: the image file's length, counted from the data area's start;
  - `run`: the last tool run and its outcome.

  Each tool run is one action, translated from the whole function:
  - **`Copy(p, s)`** has one disjunct per exit of `fat32_copy_file`:
    - directory not found;
    - no free record;
    - not enough free clusters;
    - success, which writes the data, links the chain, writes both FATs and
      adds the record.

    The data loop (`CopyWrites`) applies each `image[off:off+n] = piece`
    (`PlaceBytes`) to the buffer. Up to the buffer's end, the piece lands at
    its cluster. Past the end, Python appends it at the end, which may be
    another cluster or the middle of one. The image starts `TailBytes`
    after the volume's data area: 2 bytes on `fat32_mbr` (its 513-byte boot
    sector), 34 sectors on `gpt` (`esp_end = total_sectors - 35`), and 0
    on `simple_esp` and `bare`. `update` writes through `f.seek`/`f.write`,
    which always land at the offset (`UpdateLen`).
  - **`Update(p, s)`** has three exits: directory not found, file not found,
    and success, which runs `update_file`.

  - **`UpdateCrash(p, s)`** is the same run stopped inside `update_file`'s
    loop, after its first `j` cluster writes (`UpdateWrites(ch, s, j)`), for
    every `j` below the number the run would write.

  The copy edits a buffer and writes it once, so `Copy` is atomic unless the
  final write is interrupted (not modelled). The update checks everything
  before its first write, so its only intermediate states are those of
  `UpdateCrash`.
- **`MCFat32Image`.** A scaled-down instance:
  - the geometry is 32-byte sectors, 4 sectors per cluster, 1 reserved sector
    and a 33-sector volume;
  - that gives 16 FAT entries, data clusters 2..8, spare FAT entries 9..15 and
    4 records per directory cluster.

  The arithmetic is the code's own; only the constants are small. The spare
  entries past the volume exist just as in the real image (which has 162).
  The instance also supplies:
  - sources of 0, 10, 128, 129 and 1200 bytes, which cover zero, partial, one
    whole, two and ten clusters;
  - paths that hit, miss a directory, or name a file at the root.

- **`GptBuilder`.** `create_gpt_efi_image` is straight-line
  code over one buffer, so the image is an operator `Image(t)` of the disk
  size `t`. Its parts are:
  - the protective MBR;
  - the header fields and the CRC steps in the code's order
    (`HeaderFields`, `WithHeaderCrc`, `SealedHeader`);
  - the 128-entry array;
  - the ESP's boot sector (through `FatGeometry`);
  - the last sector, where the backup header belongs and which nothing
    writes.

  A CRC is uninterpreted: `Crc32(x)` is equal for equal inputs only. The
  readers are `VerifyEspStart` (verify-image), `CopyEspStart` (copy-to-image)
  and `HeaderValid` (a UEFI reader, from the GPT definition the spec cites).
  The variable `totalSectors` ranges over the disk sizes.
- **`DiskImages` / `MCDiskImages`.** Extends `GptBuilder` with the other two
  builders. The result is `Disk(b, t)` for builder `b`: the MBR record, the
  sector at LBA 1, the GPT array, and the boot sector (`BiosParameterBlock`)
  at the volume's first sector and sector 6.
  - Any other sector parses as `ZeroBpb`. This holds for the MBR's zero boot
    code and for the zero-filled rest of the buffer.
  - `BuiltGeometry` is where the builder itself writes FAT 1, the data area
    and the directories, computed from its local variables.
  - The readers compute the same offsets from the bytes:
    - `CopyGeometry` (copy-to-image, lines 25-45);
    - `VerifyGeometry` (verify-image, including `read_directory`'s hard-coded
      512);
    - `CheckBootDirOffset` (check-boot-dir, LBA 2048 and cluster 4 built in).
  - `SliceAssign(n, lo, hi, k)` is the length of a bytearray after
    `buf[lo:hi] = v`. `BootSectorBytes` and `ImageBytes` apply it to each
    builder's writes.
  - The MC module's sizes are the code's 64 MiB disk and 1020 others (every
    multiple of 1 MiB from 4 MiB to 1 GiB).
- **`FileStore`.** The abstract promise of the two mutators (spec 4.6): a
  function from paths to contents. `Put` adds a file to an existing
  directory, and `Replace` gives an existing file new content.
- **`MCFat32ImageStore`.** Shows that the copy run implements `FileStore`.
  The refinement mapping `StoredIn(fat1, data)` is a reader's view of the
  volume. It covers every regular file below the root, with the first record
  of each name, and its content is the source it reads back as
  (`unreadable` otherwise). The mapping depends only on its two arguments.
  `StoreRefinement` is `Store!Init` plus `Store!Step` applied to the mapping
  before and after each step, which is `Store!Spec` under the mapping. It is
  written with `StoredIn(fat1', data')` rather than priming the whole
  mapping, because TLC does not cache the lazily evaluated arguments of
  operators inside a primed expression.

The `bare` layout is the GPT builder's volume on its own, with no partition
table in front of it. Two files were put into `EFI/BOOT` by first-fit
allocation as `copy-to-image` does it. It is the only kind of image on which
`update-image` finds anything (it reads the BPB at byte 0), so the passing
update run uses it.

## Runs

| Run | Expect | What it shows |
|---|---|---|
| `fat_sizing` | pass | Over 2034 partition sizes, the FAT covers every cluster and is no smaller than the minimal one. |
| `fat_sizing_fat32` | violation | The builders' volumes have ~16000 clusters, too few for FAT32. |
| `copy` | pass | Any sequence of copy/update runs on the GPT image keeps the following true: chains are disjoint, files read back as their source, and records are never rewritten. Files in the spare clusters lie in the 34 sectors after the ESP, inside the image, so they still read back. Every directory stays a one-cluster chain (`DirectoriesFitOneCluster`), so `copy`'s first-cluster scan and `update`'s whole-chain scan see the same records. Seen through a reader, the runs implement `FileStore` (`StoreRefinement`). Only `Put` and stuttering steps occur: `update` never finds a file on this image (`update_partitioned`). |
| `update_bare` | pass | `update`, finished or killed between two cluster writes, never writes into a directory or a free cluster. |
| `disk_images` | pass | For 1021 disk sizes, the GPT layout is consistent with the disk and the ESP's FAT32 volume. For each of the three builders, `copy-to-image` and `verify-image` derive from the partition table and boot sector the offsets at which the builder wrote FAT 1, the data area and the directories (`ReadersFindBuiltVolume`). So does `check-boot-dir`, on the two images with the volume at LBA 2048. |
| `gpt_header` | violation | The built disk has no GPT header a UEFI reader accepts. The primary's CRC was taken over its own first CRC, and no backup exists. |
| `copy_past_image_end` | violation | On the `fat32_mbr` image a copied file stops reading back after four copies. First-fit allocation hands out the spare clusters past the volume, which lie past the image's end. A piece written after a one-byte piece is appended at the buffer's end, not at its cluster. |
| `fat32_mbr_dot` | violation | `create-fat32-image.py` writes EFI's `.` pointing at the root. |
| `copy_duplicate` | violation | Copying an existing name adds a second record. |
| `update_partitioned` | violation | `update` never finds a file on a builder image. |
| `update_name_padding` | violation | `update` misses names without a 3-character extension. |
| `image_size` | violation | `create-fat32-image.py`'s boot sector is 513 bytes, and its image is 64 MiB + 2 bytes. The 9-byte OEM name `EFI FAT32` is assigned to the 8-byte slice `boot[3:11]`, and the image receives the sector twice. Running the builder confirms it: the file is 67108866 bytes. |

Each property of a passing run has a mutant in `PROJECT.json`. The mutant
replaces one mapped definition with a plausible bug, and TLC finds the property
violated:

| Property | Mutated definition | Bug it simulates |
|---|---|---|
| `FatCoversVolume` | `SectorsPerFat` | no spare sector |
| `TypeOK` | `Chunk` | off-by-one piece index |
| `NoCrossLinkedClusters` | `LinkChain` | no EOC |
| `FileReadsBack` | `ClustersNeeded` | floor instead of ceiling |
| `RecordsOnlyAppended` | `FreeSlot` | slot not checked |
| `UpdateWritesOnlyFileData` | `UpdateFileMatch` | name not compared |
| `StoreRefinement` | `ScanFree` | free entry not checked |
| `GptGeometryConsistent` | `LastUsableLba` | off by one |
| `DirectoriesFitOneCluster` | `ScanFree` | free entry not checked |
| `ReadersFindBuiltVolume` | `CopyGeometry` | data area after one FAT |

### Bounds

- **Copy run:** three sources. The 1200-byte kernel needs ten clusters and so
  reaches the spare entries. Loader and script together fill the seven data
  clusters within a few runs, so the `no_space` and `dir_full` exits both
  occur.
- **Update run:** uses every update exit. Both bare files span more than
  one cluster, so a crash can stop after some but not all writes.
- **Disk-images run:** the sizes include the code's own and span a 256-fold range,
  so the header arithmetic, the FAT sizing and the ESP bounds are checked
  well beyond the one disk the code builds.
- **Size:** the copy run reaches 6999 states in under a minute. Every
  other run takes seconds.

### Fairness

None is assumed, and no property says that something eventually happens.
The tools are single-threaded, and each is started by a user. Nothing in the
code makes a next run happen. Within a run, every loop is bounded: the chain
walk runs at most `FatSize` steps in the model. In the code it is unbounded
on a cyclic FAT, and `FileReadsBack` rules out cycles in every reachable
image. So a run's termination is a safety fact about the FAT, not a fairness
assumption.

## Plan

`update-image`'s silent truncation (spec 4.6 and 8 call it a known gap to
verify as-is) is modelled as the code does it. `Update` keeps the record's
size and the FAT. No property restates that bound, and no run states spec
7's `TruncationLoss`, which fails by design.

1. **`Copy`'s write-back.** The image is reopened with `'wb'` and written
   whole. A crash leaves an image shorter than its partition. `imageLen`
   now exists, but the readers do not yet consult it for short reads.
2. **`DirEntryCodec`.** The 32-byte record's name padding and the hi/lo split
   of the cluster field, checked round-trip against a reference over bounded
   clusters, including clusters ≥ 65536.
3. **The refinement on the bare layout.** There, `update` replaces content
   and the refinement is expected to fail where the update truncates.

## Not modelled

- The FSInfo sector, CHS values, OEM name, label, serial and timestamps.
  These are bytes that no tool reads back. They are modelled only through
  their length, where that length can change a buffer.
- Long file names and deleted (0xE5) records. No tool writes them. The scans
  treat 0xE5 as free, as the code does.
- The inspectors' listings. They print the records the reader view reads.
  A model cluster holds four records, so their scan limits (16, 32 and 64)
  would never bind, and a property comparing the two views holds by
  definition. In the code, a directory with more records than the limit is
  listed cut short. verify-image recurses one level only, so `EFI/BOOT`'s
  files are never listed, although spec 4.7 says the walk is recursive.
- Directories of more than one cluster, and a directory name with a
  three-character extension. No tool of this repository makes either, so
  the hazards that need them (`copy`'s first-cluster scan, `list_directory`
  reading past an end record, `find_file_in_dir` without an attribute check)
  cannot be reached.
- Mixed old and new pieces after `update`. Spec 5 allows a half-updated
  file after a crash, and spec 8 allows the stale tail after a shorter
  source. A property about either would only restate `update_file`'s loop.
- On the GPT image, spare clusters past the 34 tail sectors. The model's
  seven spare clusters all fit in the tail. The real image's tail holds
  about four of its 162 spare clusters, so there a fifth one is lost, as
  on `fat32_mbr`.
- `check-boot-dir` on `create-simple-esp`'s image. There it parses a zero
  data sector at LBA 2048 as the BPB and lists nothing.
  `ReadersFindBuiltVolume` states its assumption only for the images that
  satisfy it.
- The GPT builder's FAT and directory clusters as bytes. They are the `gpt`
  layout of `Fat32Image`.
