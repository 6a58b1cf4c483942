---------------------------- MODULE MCDiskImages ----------------------------
EXTENDS DiskImages

\* The builders' disk, 64 MiB, and every whole-MiB disk from 4 MiB to
\* 1 GiB, in sectors.
BuilderDiskSectors == (64 * 1024 * 1024) \div 512
MCBuilderDisk == {BuilderDiskSectors}
MCDiskSizes == {BuilderDiskSectors} \cup {m * 2048 : m \in 4..1024}

=============================================================================
