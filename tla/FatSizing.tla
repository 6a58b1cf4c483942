----------------------------- MODULE FatSizing -----------------------------
(***************************************************************************)
(* The builders' FAT sizing evaluated over a set of partition sizes: the    *)
(* state is the partition size, fixed by Init.                             *)
(***************************************************************************)
EXTENDS FatGeometry

CONSTANT PartitionSizes     \* partition sector counts to check

ASSUME PartitionSizes \subseteq {n \in Nat : n > ReservedSectors}

VARIABLE ps

Init == ps \in PartitionSizes

Next == UNCHANGED ps

Spec == Init /\ [][Next]_ps

(***************************************************************************)
(* The FAT the builders size has an entry for every data cluster of the    *)
(* volume (reserved entries 0 and 1 included) and is at least the minimal  *)
(* FAT: the +1 spare sector hides the first-pass estimate's rounding.      *)
(***************************************************************************)
FatCoversVolume ==
    /\ FatEntries(ps) >= NumClusters(ps) + 2
    /\ SectorsPerFat(ps) >= MinimalSectorsPerFat(ps)

(***************************************************************************)
(* The volume the builders lay out has the cluster count of a FAT32 volume *)
(* (spec 4.2 requires InsufficientCapacity below a minimum; the builders   *)
(* check nothing).                                                         *)
(***************************************************************************)
ClusterCountIsFat32 == NumClusters(ps) >= Fat32MinClusters

=============================================================================
