--------------------------- MODULE MCFatSizing ---------------------------
EXTENDS FatSizing

\* The builders' partition sizes: create-fat32-image.py (MBR at 2048),
\* create-simple-esp.py (MBR at 1) and create-gpt-image.py (GPT, ESP up to
\* the last usable LBA - 1), all for a 64 MiB image.
BuilderPartitionSizes == {129024, 131071, 128990}

\* Every image size from 1 MiB to 128 MiB in 64 KiB steps, as a maintainer
\* editing image_size would get them, with the partition starting at 2048.
MCPartitionSizes ==
    BuilderPartitionSizes \cup {k * 128 - 2048 : k \in 17..2048}
=============================================================================
