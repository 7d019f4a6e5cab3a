----------------------------- MODULE Provenance -----------------------------
(***************************************************************************)
(* What `tape package` attests to about the manifests themselves: the      *)
(* checker of Git provenance (attest/vcs/git/git.go), the registry of      *)
(* checkers and statements (attest/registry.go), and the calls that        *)
(* tape/app/package.go makes to both, while people go on working in the    *)
(* repository.  A step is one read of the repository, or all that is done  *)
(* between two of them.                                                    *)
(*                                                                         *)
(* Manifests are loaded in the initial state (Loader has the steps of it). *)
(* The contents of a manifest stand for its digest; what they become when  *)
(* the image references are replaced is Updated.  What the statements say  *)
(* of references is in TapePackage: here it is about which file, of which  *)
(* digest, they are.                                                       *)
(***************************************************************************)
EXTENDS GitRepo

CONSTANTS
    Manifests,   \* files of the manifest directory that are manifests
    HasImages,   \* contents with image references
    Updated,     \* what such contents are replaced by
    InGit        \* whether a directory above the manifest directory is a repository

ASSUME ProvenanceAssumption ==
    /\ Manifests \subseteq InDir
    /\ HasImages \subseteq Contents
    /\ Updated \in [HasImages -> HasImages]
    /\ InGit \in BOOLEAN

\* Where an entry says that it comes from; of the remotes, SameRepo looks at
\* the URL of the primary one and at how many there are.
Source == [url : URLs \cup {NoURL}, commit : Nat, remotes : Nat]
NoSource == [url |-> NoURL, commit |-> 0, remotes |-> 0]

\* The entry of the directory (tree: what HEAD had of it) and those of files.
DirEntry == [tree : [InDir -> Contents \cup {Absent}], unmodified : BOOLEAN, source : Source]
Entry == [path : Manifests, digest : Contents, unmodified : BOOLEAN,
          object : Contents, source : Source]

\* A statement with several subjects is one record for each.
Statement == [kind : {"dirContents", "original", "resolved", "replaced"},
              path : Manifests, digest : Contents]

Mutation == [path : Manifests, digest : Contents, old : Contents]

VARIABLES
    pc,
    temp,        \* temp[f]: the contents of f in the temporary directory
    trackers,    \* trackers[f]: the digests of f that the scanner has found
    registered,  \* the paths and digests that there is a path checker for
    mutated,     \* paths with new digests, and the old ones
    base,        \* the checker of the manifest directory, and its entry
    unread,      \* files of its tree that have not been compared
    checker,     \* the checker of a file that is at work: path, object, hash
    entries,     \* the entries of the files
    statements

appVars == <<temp, trackers, registered, mutated, base, unread, checker, entries, statements>>
vars == <<pc, appVars, gitVars>>

Checker == [path : Files, object : Contents \cup {Absent}, hash : Contents \cup {Absent}]

TypeOK ==
    /\ GitTypeOK
    /\ pc \in {"detect", "compare", "staged", "unstaged", "scan", "summariseDir", "find", "read",
               "summarise", "associate", "resolve", "update", "rescan", "push", "failed", "panicked"}
    /\ temp \in [Manifests -> Contents \cup {Absent}]
    /\ trackers \in [Manifests -> SUBSET Contents]
    /\ registered \subseteq Manifests \X Contents
    /\ mutated \subseteq Mutation
    /\ base \in DirEntry
    /\ unread \subseteq InDir
    /\ checker \subseteq Checker
    /\ entries \subseteq Entry
    /\ statements \subseteq Statement

Init ==
    /\ GitInit
    /\ pc = "detect"
    /\ temp = [f \in Manifests |-> worktree[f]]
    /\ \E f \in Manifests : worktree[f] # Absent
    /\ trackers = [f \in Manifests |-> {}]
    /\ registered = {} /\ mutated = {}
    /\ base = [tree |-> [f \in InDir |-> Absent], unmodified |-> TRUE, source |-> NoSource]
    /\ unread = {} /\ checker = {} /\ entries = {} /\ statements = {}

Goto(l) == pc' = l /\ UNCHANGED gitVars

\* Execute returns at the first error: nothing has been pushed.
Abort == Goto("failed") /\ UNCHANGED appVars

-----------------------------------------------------------------------------
(* DetectVCS: the manifest directory is checked.                           *)

\* Outside of Git there is no registry, and its first method is called on nil.
Detect ==
    /\ pc = "detect"
    /\ IF ~InGit
       THEN Goto("panicked") /\ UNCHANGED appVars
       ELSE IF \A f \in InDir : HeadTree[f] = Absent
       THEN Abort
       ELSE /\ base' = [base EXCEPT !.tree = [f \in InDir |-> HeadTree[f]]]
            /\ unread' = {f \in InDir : HeadTree[f] # Absent}
            /\ Goto("compare")
            /\ UNCHANGED <<temp, trackers, registered, mutated, checker, entries, statements>>

\* The files of the tree are opened one by one, in any order here, until one
\* is modified; one that is gone from the worktree is an error.
CompareFile(f) ==
    /\ pc = "compare" /\ base.unmodified /\ f \in unread
    /\ IF worktree[f] = Absent
       THEN Abort
       ELSE /\ base' = [base EXCEPT !.unmodified = (worktree[f] = base.tree[f])]
            /\ unread' = unread \ {f}
            /\ Goto("compare")
            /\ UNCHANGED <<temp, trackers, registered, mutated, checker, entries, statements>>

EndCompare ==
    /\ pc = "compare" /\ (unread = {} \/ ~base.unmodified)
    /\ Goto(IF base.unmodified THEN "staged" ELSE "scan")
    /\ UNCHANGED appVars

\* A fault: any change in the repository counts.
CompareAnywhere(changed, next) ==
    /\ base' = [base EXCEPT !.unmodified = @ /\ changed = {}]
    /\ Goto(next)
    /\ UNCHANGED <<temp, trackers, registered, mutated, unread, checker, entries, statements>>

\* Only changes in the manifest directory count.
Compare(changed, next) ==
    /\ base' = [base EXCEPT !.unmodified = @ /\ changed \cap InDir = {}]
    /\ Goto(next)
    /\ UNCHANGED <<temp, trackers, registered, mutated, unread, checker, entries, statements>>

CompareStaged == pc = "staged" /\ Compare(StagedChanges, "unstaged")
CompareUnstaged == pc = "unstaged" /\ Compare(UnstagedChanges, "scan")

-----------------------------------------------------------------------------
(* Scan, and the statement on the contents of the directory.               *)

There(f) == temp[f] # Absent

\* A fault: a digest is that of the file in the manifest directory.
DigestOfSource(f) == worktree[f]

\* The digest of what the scanner reads, from the temporary directory.
Scanned(f) == temp[f]

Scan ==
    /\ pc = "scan"
    /\ trackers' = [f \in Manifests |-> IF There(f) THEN {Scanned(f)} ELSE {}]
    /\ registered' = {<<f, Scanned(f)>> : f \in {g \in Manifests : There(g)}}
    /\ Goto("summariseDir")
    /\ UNCHANGED <<temp, mutated, base, unread, checker, entries, statements>>

\* The last part of MakeSummary, which reads the remotes and HEAD again.
Sources == {[url |-> u, commit |-> head, remotes |-> Cardinality(RemotesThere)] : u \in PrimaryURLs}

\* The checker of the directory keeps what it found in DetectVCS.
SummariseDir ==
    /\ pc = "summariseDir"
    /\ \E s \in Sources : base' = [base EXCEPT !.source = s]
    /\ Goto("find")
    /\ UNCHANGED <<temp, trackers, registered, mutated, unread, checker, entries, statements>>

Unsummarised == {r[1] : r \in registered} \ {e.path : e \in entries}

\* A fault: what is staged is taken for what is committed.
FindStaged(f) ==
    /\ pc = "find" /\ f \in Unsummarised
    /\ IF index[f] = Absent
       THEN Abort
       ELSE /\ checker' = {[path |-> f, object |-> index[f], hash |-> Absent]}
            /\ Goto("read")
            /\ UNCHANGED <<temp, trackers, registered, mutated, base, unread, entries, statements>>

\* Path checkers come out of a map.  A file that is not in HEAD is an error,
\* and so is one that is not in the worktree.
Find(f) ==
    /\ pc = "find" /\ f \in Unsummarised
    /\ IF HeadTree[f] = Absent
       THEN Abort
       ELSE /\ checker' = {[path |-> f, object |-> HeadTree[f], hash |-> Absent]}
            /\ Goto("read")
            /\ UNCHANGED <<temp, trackers, registered, mutated, base, unread, entries, statements>>

Read(c) ==
    /\ pc = "read" /\ c \in checker
    /\ IF worktree[c.path] = Absent
       THEN Abort
       ELSE /\ checker' = {[c EXCEPT !.hash = worktree[c.path]]}
            /\ Goto("summarise")
            /\ UNCHANGED <<temp, trackers, registered, mutated, base, unread, entries, statements>>

\* The hash of a file is that of the object when it is unmodified.
Summarise(c) ==
    /\ pc = "summarise" /\ c \in checker
    /\ \E r \in registered, s \in Sources :
         /\ r[1] = c.path
         /\ entries' = entries \cup {[path |-> c.path, digest |-> r[2],
                                      unmodified |-> c.object = c.hash,
                                      object |-> c.hash, source |-> s]}
    /\ checker' = {}
    /\ Goto("find")
    /\ UNCHANGED <<temp, trackers, registered, mutated, base, unread, statements>>

\* A fault: mutated paths are not looked up.
RelevantIfRegistered(ss) == \A s \in ss : <<s.path, s.digest>> \in registered

\* A statement must be about a registered path or a mutated one.
Relevant(ss) ==
    \A s \in ss : \/ <<s.path, s.digest>> \in registered
                  \/ \E m \in mutated : m.path = s.path /\ m.digest = s.digest

Associate(ss, next) ==
    IF Relevant(ss)
    THEN /\ statements' = statements \cup ss
         /\ Goto(next)
         /\ UNCHANGED <<temp, trackers, registered, mutated, base, unread, checker, entries>>
    ELSE Abort

Subjects == {[kind |-> "dirContents", path |-> e.path, digest |-> e.digest] : e \in entries}

AssociateCoreStatements ==
    /\ pc = "find" /\ Unsummarised = {}
    /\ Associate(Subjects, "associate")

-----------------------------------------------------------------------------
(* Statements on image references, before and after they are replaced.     *)

\* GetImages: the manifests, with digests, that the scanner found images in.
ImageStatements(kind) ==
    UNION {{[kind |-> kind, path |-> f, digest |-> c] : c \in trackers[f] \cap HasImages} : f \in Manifests}

AssociateOriginal == pc = "associate" /\ Associate(ImageStatements("original"), "resolve")
AssociateResolved == pc = "resolve" /\ Associate(ImageStatements("resolved"), "update")

\* What is in the temporary directory after the update.
Rewritten(f) == IF temp[f] \in HasImages THEN Updated[temp[f]] ELSE temp[f]

\* A fault: the scanner keeps what it has found before the update.
RescanWithoutReset(f) == trackers[f] \cup {Rewritten(f)}

\* The second scan starts from nothing, and registers nothing.
Rescanned(f) == {Rewritten(f)}

\* The files with images are written, the mutations are registered, and the
\* manifests are scanned again.
Update ==
    /\ pc = "update"
    /\ temp' = [f \in Manifests |-> Rewritten(f)]
    /\ mutated' = {[path |-> f, digest |-> Rewritten(f), old |-> temp[f]] :
                     f \in {g \in Manifests : temp[g] \in HasImages}}
    /\ trackers' = [f \in Manifests |-> IF There(f) THEN Rescanned(f) ELSE {}]
    /\ Goto("rescan")
    /\ UNCHANGED <<registered, base, unread, checker, entries, statements>>

AssociateReplaced == pc = "rescan" /\ Associate(ImageStatements("replaced"), "push")

-----------------------------------------------------------------------------
Tape ==
    \/ Detect
    \/ \E f \in InDir : CompareFile(f)
    \/ EndCompare \/ CompareStaged \/ CompareUnstaged
    \/ Scan \/ SummariseDir
    \/ \E f \in Manifests : Find(f)
    \/ \E c \in checker : Read(c) \/ Summarise(c)
    \/ AssociateCoreStatements \/ AssociateOriginal \/ AssociateResolved
    \/ Update \/ AssociateReplaced

Next ==
    \/ Tape
    \/ People /\ UNCHANGED <<pc, appVars>>

Spec == Init /\ [][Next]_vars

-----------------------------------------------------------------------------
(* Properties.                                                             *)

\* The attestations of a package tell of a manifest that nobody touched while
\* it was made exactly what is the case: the digest is that of the file on
\* disk, which is unmodified if and only if HEAD has the same contents, and
\* the commit that is named has the object that is named, whatever was done
\* with other files, with HEAD or with the remotes (Check, MakeSummary,
\* Register).
QuietFilesTold ==
    pc = "push" => \A e \in entries : e.path \notin touched =>
        /\ e.digest = worktree[e.path] /\ e.object = worktree[e.path]
        /\ e.unmodified <=> worktree[e.path] = HeadTree[e.path]
        /\ e.unmodified => commits[e.source.commit][e.path] = e.object

\* A manifest directory that nobody touched is attested to be unmodified if and
\* only if each file in it is the same on disk, in the index and in HEAD, or is
\* ignored and in neither: staged changes and new files count, files elsewhere
\* do not (Check, fileIsInDir, Status).
QuietDirTold ==
    pc = "push" /\ touched \cap InDir = {} =>
        (base.unmodified <=>
            \A f \in InDir : \/ worktree[f] = index[f] /\ index[f] = HeadTree[f]
                             \/ f \in Ignored /\ index[f] = Absent /\ HeadTree[f] = Absent)

\* What is attested to be unmodified has been committed, as it is named, at
\* some time, whatever is staged, committed or reset in between (findByPath).
UnmodifiedIsCommitted ==
    \A e \in entries : e.unmodified => \E k \in DOMAIN commits : commits[k][e.path] = e.object

\* Each manifest of a package can be followed back to the one that was loaded:
\* there is one entry for it, with a digest that the statements on its original
\* and resolved references are about; the one on replaced references is about
\* the manifest in the package, which the registry leads back from; a manifest
\* without references is packaged as it was loaded (RegisterMutated, Reset,
\* AssociateStatements).
StatementsAboutPackage ==
    pc = "push" => \A f \in Manifests : There(f) =>
        \E e \in entries :
            /\ {x \in entries : x.path = f} = {e}
            /\ {s \in statements : s.path = f /\ s.kind \in {"dirContents", "original", "resolved"}}
                 = {[kind |-> k, path |-> f, digest |-> e.digest] :
                      k \in IF e.digest \in HasImages THEN {"dirContents", "original", "resolved"}
                            ELSE {"dirContents"}}
            /\ IF e.digest \in HasImages
               THEN /\ {s \in statements : s.path = f /\ s.kind = "replaced"}
                         = {[kind |-> "replaced", path |-> f, digest |-> temp[f]]}
                    /\ {m \in mutated : m.path = f}
                         = {[path |-> f, digest |-> temp[f], old |-> e.digest]}
               ELSE temp[f] = e.digest

\* package.go:91, "path %q is not in VCS": a directory outside of Git is
\* packaged, with a warning (BaseDirSummary).
OutsideGitWarned == pc # "panicked"

\* A directory whose manifests are all checked in, none of whose files has been
\* removed and which nobody touches is not refused: none of the statements about
\* it is irrelevant, before and after the update (Check, AssociateStatements).
CheckedInNotRefused ==
    /\ touched \cap InDir = {}
    /\ \A f \in InDir : HeadTree[f] # Absent => worktree[f] # Absent
    /\ \A f \in Manifests : worktree[f] # Absent => HeadTree[f] # Absent
    => pc # "failed"

\* README.md:72, "if any manifest files are checked in Git, Tape will attest to
\* what Git repository each file came from": nor is a directory that has
\* manifests which are not (MakeSummary).
PartlyCheckedInNotRefused ==
    /\ touched \cap InDir = {}
    /\ \A f \in InDir : HeadTree[f] # Absent => worktree[f] # Absent
    /\ \E f \in Manifests : worktree[f] # Absent /\ HeadTree[f] # Absent
    => pc # "failed"

\* README.md:73, "and whether it's been modified or not": the manifest whose
\* digest is attested, the one that is packaged, is unmodified (Register).
UnmodifiedIsDigest ==
    pc = "push" => \A e \in entries : e.unmodified => e.digest = e.object

\* README.md:73, "what Git repository each file came from, all of the revision
\* metadata": an unmodified file is in the commit that is named (MakeSummary).
UnmodifiedIsInCommit ==
    pc = "push" => \A e \in entries :
        e.unmodified => commits[e.source.commit][e.path] = e.object

\* git.go:174, "fallback to first entry": files of one repository, in which
\* nothing changes, are attested to come from one repository (MakeSummary).
OneRepository ==
    pc = "push" /\ changes = 0 => \A e \in entries : e.source = base.source
=============================================================================
