------------------------------- MODULE Loader -------------------------------
(***************************************************************************)
(* Loading a manifest directory (manifest/loader/loader.go) while others   *)
(* write to it.  Load walks the directory to list its files, copies it to  *)
(* a temporary one and walks the copy; then the files of the list are      *)
(* scanned (imagescanner.go Scan), and what ends up in a package is the    *)
(* temporary directory.  A step is one call to the file system.            *)
(*                                                                         *)
(* A version of a file is the time it was written at.  Only manifests are  *)
(* modelled: files with other extensions are passed over.  A file is read  *)
(* in one step, directories neither come nor go, and what the walks do in  *)
(* lexical order is done in any order here.                                *)
(***************************************************************************)
EXTENDS Naturals

CONSTANTS
    Files,       \* paths that manifests may have, relative to the directory
    Dirs,        \* the directory and all below it
    Root,        \* the directory itself
    Below,       \* the directories immediately below one
    DirOf,       \* the directory that a file is in
    Start,       \* the time when Load is called
    MaxTime      \* bound: files are not written later than that

ASSUME LoaderAssumption ==
    /\ Root \in Dirs
    /\ Below \in [Dirs -> SUBSET Dirs]
    /\ \A D \in SUBSET Dirs : Root \in D /\ (\A d \in D : Below[d] \subseteq D) => D = Dirs
    /\ DirOf \in [Files -> Dirs]
    /\ Start \in Nat /\ MaxTime \in Nat /\ Start <= MaxTime

\* The time of a file that is not there.
Absent == 0

VARIABLES
    source,      \* source[f]: the version of f in the manifest directory
    clock,       \* the time of the last write
    pc,
    dirs,        \* directories that the current walk has not read
    entries,     \* files of the directories read that have not been looked at
    infos,       \* modification times of the files that are copied next
    relPaths,    \* files found by the first walk
    copied,      \* copied[f]: the version of f in the temporary directory
    times        \* times[f]: the modification time of f there

vars == <<source, clock, pc, dirs, entries, infos, relPaths, copied, times>>

Versions == 0..MaxTime

TypeOK ==
    /\ source \in [Files -> Versions]
    /\ clock \in Start..MaxTime
    /\ pc \in {"list", "copy", "read", "scan", "push", "failed"}
    /\ dirs \subseteq Dirs /\ entries \subseteq Files /\ relPaths \subseteq Files
    /\ infos \in [Files -> Versions]
    /\ copied \in [Files -> Versions] /\ times \in [Files -> Versions]

In(dir) == {f \in Files : dir[f] # Absent}
None == [f \in Files |-> Absent]

Init ==
    /\ source \in [Files -> 0..Start]
    /\ clock = Start
    /\ pc = "list" /\ dirs = {Root} /\ entries = {} /\ relPaths = {}
    /\ infos = None /\ copied = None /\ times = None

-----------------------------------------------------------------------------
(* Others write to the manifest directory.                                 *)

Write(f) ==
    /\ clock < MaxTime
    /\ clock' = clock + 1
    /\ source' = [source EXCEPT ![f] = clock']
    /\ UNCHANGED <<pc, dirs, entries, infos, relPaths, copied, times>>

Remove(f) ==
    /\ source' = [source EXCEPT ![f] = Absent]
    /\ UNCHANGED <<clock, pc, dirs, entries, infos, relPaths, copied, times>>

-----------------------------------------------------------------------------
(* Load.                                                                   *)

Abort ==
    /\ pc' = "failed"
    /\ UNCHANGED <<source, clock, dirs, entries, infos, relPaths, copied, times>>

\* A fault: directories are taken for files.
EntriesAndDirs(d) == {f \in In(source) : DirOf[f] = d} \cup Below[d]

\* A fault: the list has the files of the directory itself only.
EntriesAtTop(d) == IF pc = "list" /\ d # Root THEN {} ELSE {f \in In(source) : DirOf[f] = d}
Entries(d) == {f \in In(source) : DirOf[f] = d}

\* Both walks read the names in a directory, and look at each file after that.
\* The second one goes below it when it has looked at all of them.
ReadDir(d) ==
    /\ pc \in {"list", "copy"} /\ d \in dirs
    /\ pc = "copy" => \A f \in entries : d \notin Below[DirOf[f]]
    /\ dirs' = (dirs \ {d}) \cup Below[d]
    /\ entries' = entries \cup Entries(d)
    /\ UNCHANGED <<source, clock, pc, infos, relPaths, copied, times>>

\* getFiles stops with an error at a file that is gone since.
List(f) ==
    /\ pc = "list" /\ f \in entries
    /\ IF f \in In(source)
       THEN /\ relPaths' = relPaths \cup {f}
            /\ entries' = entries \ {f}
            /\ UNCHANGED <<source, clock, pc, dirs, infos, copied, times>>
       ELSE Abort

EndList ==
    /\ pc = "list" /\ dirs = {} /\ entries = {}
    /\ IF relPaths # {}
       THEN /\ pc' = "copy" /\ dirs' = {Root}
            /\ UNCHANGED <<source, clock, entries, infos, relPaths, copied, times>>
       ELSE Abort

\* copy.Copy looks at all files of a directory first, and if one is gone it
\* passes over the directory, and those below, without an error.
Stat(f) ==
    /\ pc = "copy" /\ f \in entries
    /\ IF f \in In(source)
       THEN /\ infos' = [infos EXCEPT ![f] = source[f]]
            /\ entries' = entries \ {f}
            /\ UNCHANGED dirs
       ELSE /\ infos' = [g \in Files |-> IF DirOf[g] = DirOf[f] THEN Absent ELSE infos[g]]
            /\ entries' = {g \in entries : DirOf[g] # DirOf[f]}
            /\ dirs' = dirs \ Below[DirOf[f]]
    /\ UNCHANGED <<source, clock, pc, relPaths, copied, times>>

\* A fault: a copy has the time it was made at.
TimeOfCopy(f) == clock
Preserved(f) == infos[f]

\* A file that is gone now is passed over too.  A copy gets the time that was
\* looked up before, its contents are those of now.
CopyFile(f) ==
    /\ pc = "copy" /\ f \in In(infos)
    /\ \A g \in entries : DirOf[g] # DirOf[f]
    /\ infos' = [infos EXCEPT ![f] = Absent]
    /\ IF f \in In(source)
       THEN /\ copied' = [copied EXCEPT ![f] = source[f]]
            /\ times' = [times EXCEPT ![f] = Preserved(f)]
       ELSE UNCHANGED <<copied, times>>
    /\ UNCHANGED <<source, clock, pc, dirs, entries, relPaths>>

EndCopy ==
    /\ pc = "copy" /\ dirs = {} /\ entries = {} /\ infos = None
    /\ pc' = "read"
    /\ UNCHANGED <<source, clock, dirs, entries, infos, relPaths, copied, times>>

\* Nobody else writes to the temporary directory: this walk is one step.
ReadTemp ==
    /\ pc = "read"
    /\ IF In(copied) # {}
       THEN /\ pc' = "scan"
            /\ UNCHANGED <<source, clock, dirs, entries, infos, relPaths, copied, times>>
       ELSE Abort

\* A fault: a file that is in the list and not in the directory is skipped.
AnyScan == TRUE

\* Scan opens each file of the list in the temporary directory.
Scannable == relPaths \subseteq In(copied)

Scan ==
    /\ pc = "scan"
    /\ IF Scannable
       THEN /\ pc' = "push"
            /\ UNCHANGED <<source, clock, dirs, entries, infos, relPaths, copied, times>>
       ELSE Abort

Load ==
    \/ \E d \in Dirs : ReadDir(d)
    \/ \E f \in Files : List(f) \/ Stat(f) \/ CopyFile(f)
    \/ EndList \/ EndCopy \/ ReadTemp \/ Scan

Next == Load \/ \E f \in Files : Write(f) \/ Remove(f)

Spec == Init /\ [][Next]_vars

\* MostRecentlyModified returns the first file, of files sorted by time.
MostRecentlyModified ==
    CHOOSE t \in {times[f] : f \in In(copied)} : \A f \in In(copied) : t <= times[f]

-----------------------------------------------------------------------------
(* Properties.                                                             *)

\* A manifest that has been there since before Load was called and that nobody
\* touches is in the package as it is and has been scanned, although the copy
\* passes over files and whole directories in which another file goes away
\* (Load, copy.Copy, Scan).
QuietFilesLoaded ==
    pc = "push" =>
        \A f \in Files : source[f] \in 1..Start => copied[f] = source[f] /\ f \in relPaths

\* What is in the package without having been scanned was written after Load
\* was called (the list is made before the copy).
UnscannedAreNew ==
    pc \in {"scan", "push"} => \A f \in In(copied) \ relPaths : copied[f] > Start

\* No copy claims to be later than what it holds: its time is that of the
\* version or, when the file was written in between, of one before
\* (PreserveTimes), and so is the time of the package.
TimesNotLater == \A f \in In(copied) : times[f] \in 1..copied[f]

\* README.md:61, "Tape can parse a directory with Kubernetes configuration and
\* find all canonical references to application images": every manifest that is
\* pushed has been scanned (Load lists files before it copies them).
PackagedAreScanned == pc = "push" => In(copied) \subseteq relPaths

\* package.go:183, "using source epoch timestamp %s from most recently modified
\* manifest file %q" (MostRecentlyModified).
EpochIsLatest ==
    pc = "push" => \A f \in In(copied) : times[f] <= MostRecentlyModified
=============================================================================
