--------------------------- MODULE MCFat32Image ----------------------------
EXTENDS Fat32Image

(***************************************************************************)
(* The builders' geometry scaled down: 32-byte sectors, 4 sectors a        *)
(* cluster (4 directory records a cluster), 1 reserved sector, 2 FATs and   *)
(* a 33-sector volume.  The two-pass sizing gives 2 sectors a FAT, 16 FAT   *)
(* entries and 7 data clusters (2..8): entries 9..15 name clusters past     *)
(* the volume's end, as the real 64 MiB layout has 162 of them.            *)
(***************************************************************************)
MCVolumeSectors == 33

Loader == [id |-> "loader", size |-> 129]       \* two clusters
Kernel == [id |-> "kernel", size |-> 1200]      \* ten clusters
Script == [id |-> "script", size |-> 0]         \* one cluster, no bytes
Config == [id |-> "config", size |-> 128]       \* exactly one cluster

OldLoader == [id |-> "oldloader", size |-> 129]
Readme == [id |-> "readme", size |-> 10]

BootX64 == Name("BOOTX64", "EFI")
StartupNsh == Name("STARTUP", "NSH")
ReadmeName == Name("README", "")

PathBootX64 == <<RootName, BootName, BootX64>>
PathStartup == <<StartupNsh>>
PathMissingDir == <<RootName, Name("NOPE", ""), Name("A", "EFI")>>
PathReadme == <<RootName, BootName, ReadmeName>>
PathBootDir == <<RootName, BootName>>

PartitionedLayouts == {"fat32_mbr", "gpt"}
BareLayout == {"bare"}
Fat32MbrLayout == {"fat32_mbr"}
GptLayout == {"gpt"}
CopyPaths == {PathBootX64, PathStartup, PathMissingDir}
CopySources == {Loader, Kernel, Script}

\* A bare image holding the bootloader and a README in EFI/BOOT.
MCBareFiles == <<[name |-> BootX64, src |-> OldLoader],
                 [name |-> ReadmeName, src |-> Readme]>>
UpdatePaths == {PathBootX64, PathReadme, PathMissingDir, PathStartup}
UpdateSources == {Loader, Kernel, Script, Config}
=============================================================================
