----------------------------- MODULE FileStore ------------------------------
(***************************************************************************)
(* What the two image tools promise (spec 4.6, FileWriter/Updater), with   *)
(* the FAT32 volume abstracted away: a store from file paths to contents.  *)
(* A copy adds a file that does not exist yet in an existing directory; an *)
(* update replaces the content of an existing file.  A run that fails     *)
(* leaves the store as it was.                                             *)
(***************************************************************************)
EXTENDS SequencesExt

CONSTANTS
    DirPaths,       \* the directories of the volume, as paths from the root
    Names,          \* the file names a path can end with
    Contents,       \* the contents a file can be given
    InitialStores   \* the stores a volume can start with

VARIABLE files      \* [path -> content]

\* A new file in an existing directory: store f becomes g.
PutStep(f, g, p, c) ==
    /\ Front(p) \in DirPaths
    /\ p \notin DOMAIN f
    /\ g = f @@ (p :> c)

\* New content for an existing file.
ReplaceStep(f, g, p, c) ==
    /\ p \in DOMAIN f
    /\ g = [f EXCEPT ![p] = c]

\* One operation, or none (a run that fails), taking store f to store g.
Step(f, g) ==
    \/ g = f
    \/ \E d \in DirPaths, n \in Names, c \in Contents :
          PutStep(f, g, Append(d, n), c) \/ ReplaceStep(f, g, Append(d, n), c)

Put(p, c) == PutStep(files, files', p, c)
Replace(p, c) == ReplaceStep(files, files', p, c)

Init == files \in InitialStores

Next ==
    \E d \in DirPaths, n \in Names, c \in Contents :
        Put(Append(d, n), c) \/ Replace(Append(d, n), c)

Spec == Init /\ [][Next]_files

=============================================================================
