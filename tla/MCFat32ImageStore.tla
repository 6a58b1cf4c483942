-------------------------- MODULE MCFat32ImageStore --------------------------
(***************************************************************************)
(* MCFat32Image with the refinement of FileStore: the copy and update runs *)
(* on the GPT image, seen through a reader of the volume, form a         *)
(* behaviour of the abstract file store.                                   *)
(***************************************************************************)
EXTENDS MCFat32Image

(***************************************************************************)
(* Refinement of FileStore under the mapping files <- StoredIn(fat1, data).*)
(* [][Next]_files under that mapping is Step(StoredIn(fat1, data),         *)
(* StoredIn(fat1, data)'), and StoredIn depends on no variable but its     *)
(* arguments, so its primed form is StoredIn(fat1', data'): the mapping is *)
(* applied to the FAT and data area of each state as values.               *)
(***************************************************************************)
Store == INSTANCE FileStore WITH
            files <- StoredIn(fat1, data),
            DirPaths <- {<<>>, <<RootName>>, <<RootName, BootName>>},
            Names <- {Last(p) : p \in Paths} \cup {BareFiles[j].name : j \in 1..Len(BareFiles)},
            Contents <- {s.id : s \in KnownSources},
            InitialStores <- {InitialStore(l) : l \in Layouts}

\* The tool runs implement the file store of spec 4.6: seen through a
\* reader (first record of each name, content read back along the chain),
\* the image starts as one of the stores the builders make, and every
\* copy-to-image or update-image run either leaves the files as they were,
\* adds a new file to an existing directory, or replaces the content of an
\* existing file.
StoreRefinement ==
    /\ Store!Init
    /\ [][Store!Step(StoredIn(fat1, data), StoredIn(fat1', data'))]_vars
=============================================================================
