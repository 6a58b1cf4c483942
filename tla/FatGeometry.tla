---------------------------- MODULE FatGeometry ----------------------------
(***************************************************************************)
(* The two-pass FAT32 sizing that all three image builders use              *)
(* (create-fat32-image.py, create-simple-esp.py, create-gpt-image.py):     *)
(* a first cluster count ignores the FATs, the FAT is sized from it plus    *)
(* one sector, and the cluster count is derived again once the two FATs     *)
(* are taken out of the partition.  The operators are the code's integer   *)
(* arithmetic; FatSizing checks them against a reference definition and    *)
(* Fat32Image lays its volume out with them.                               *)
(***************************************************************************)
EXTENDS Naturals

CONSTANTS
    BytesPerSector,     \* 512 in every builder
    SectorsPerCluster,  \* 8 in every builder (4 KiB clusters)
    ReservedSectors,    \* 32 in every builder
    NumFats             \* 2 in every builder

ASSUME BytesPerSector \in {n \in Nat : n >= 4 /\ n % 4 = 0}
ASSUME SectorsPerCluster \in Nat \ {0}
ASSUME NumFats \in Nat \ {0}

\* Bytes of one FAT32 entry.
FatEntryBytes == 4

ClusterBytes == SectorsPerCluster * BytesPerSector

\* First pass: clusters if the whole partition after the reserved sectors
\* were data.
FirstClusterEstimate(ps) == (ps - ReservedSectors) \div SectorsPerCluster

\* Mutant: the first estimate rounded down, without the spare sector.
SectorsPerFatNoSpare(ps) ==
    (FirstClusterEstimate(ps) * FatEntryBytes) \div BytesPerSector

\* FAT size from the first estimate, rounded up, plus one spare sector.
SectorsPerFat(ps) ==
    (FirstClusterEstimate(ps) * FatEntryBytes + BytesPerSector - 1)
        \div BytesPerSector + 1

\* Second pass: the data clusters that remain once the FATs are laid out.
\* (It is the only count the builders print; nothing stores it.)
NumClusters(ps) ==
    (ps - ReservedSectors - NumFats * SectorsPerFat(ps)) \div SectorsPerCluster

\* Entries one FAT holds; copy-to-image.py scans all of them for free ones.
FatEntries(ps) == (SectorsPerFat(ps) * BytesPerSector) \div FatEntryBytes

\* Sector of a cluster relative to the volume start (cluster_to_offset).
ClusterSector(ps, c) ==
    ReservedSectors + NumFats * SectorsPerFat(ps) + (c - 2) * SectorsPerCluster

(***************************************************************************)
(* Reference: a FAT is large enough when it has an entry for each of the   *)
(* two reserved entries and every data cluster the remaining space holds;  *)
(* the smallest such FAT.                                                  *)
(***************************************************************************)
ClustersWithFat(ps, s) ==
    (ps - ReservedSectors - NumFats * s) \div SectorsPerCluster

FatLargeEnough(ps, s) ==
    (s * BytesPerSector) \div FatEntryBytes >= ClustersWithFat(ps, s) + 2

\* A FAT with an entry per sector of the partition is always large enough,
\* so the search is bounded by its size.
FatSearchBound(ps) ==
    (FatEntryBytes * (ps \div SectorsPerCluster + 2)) \div BytesPerSector + 1

\* FatLargeEnough is monotone in s: the least s is the one just after a
\* too-small FAT.
MinimalSectorsPerFat(ps) ==
    CHOOSE s \in 1..FatSearchBound(ps) :
        FatLargeEnough(ps, s) /\ ~FatLargeEnough(ps, s - 1)

\* Microsoft's FAT specification: a volume with fewer clusters than this
\* is FAT12 or FAT16, whatever its boot sector says.
Fat32MinClusters == 65525

=============================================================================
