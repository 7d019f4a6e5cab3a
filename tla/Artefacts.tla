------------------------------ MODULE Artefacts ------------------------------
(***************************************************************************)
(* Packages in a registry and on disk: PushArtefact (oci/artefact.go),     *)
(* which `tape package` ends with, `tape pull` (tape/app/pull.go) and      *)
(* `tape view` (tape/app/view.go), at the same time, killed and repeated.  *)
(* A step is a request to the registry or the writing of a file.           *)
(*                                                                         *)
(* A package is an index of at most two parts: the manifests, and the      *)
(* attestations if there are any.  A part is a layer and an OCI manifest   *)
(* that names it (with its empty configuration, which is pushed as a layer *)
(* is).  The time that a package is annotated with is left out.            *)
(***************************************************************************)
EXTENDS Naturals

CONSTANTS
    Contents,    \* directories of manifests, as they are packaged
    Attests,     \* sequences of statements, encoded
    NoAttest,    \* of a package without attestations
    Partial,     \* a file of attestations that is not complete
    NoFile,
    Paths,       \* paths of files in the directory
    Versions,    \* of such files
    Absent,      \* a path at which there is no file
    FileIn,      \* FileIn[c][f]: the version of f in c
    Images,
    Replaced,    \* Replaced[a]: the images that statements of a say were put in manifests
    Prefix,      \* Prefix[c]: the first 7 digits of the hash of c
    Prefixes,
    Pushes,      \* calls of PushArtefact
    Package,     \* Package[w]: what w pushes
    Pulls,       \* directories that packages are pulled to, by one pull after the other
    Wanted,      \* those of them for which attestations are asked for
    Views,       \* calls of `tape view`
    Asked,       \* the tags that are asked for
    NoPackage, Nothing,
    MaxRepeats   \* bound: how often pulls are repeated

\* The parts of a package; the tags made of its contents.
Parts == ({"content"} \X Contents) \cup ({"attest"} \X Attests)
Packages == Contents \X (Attests \cup {NoAttest})
PartsOf(x) == {<<"content", x[1]>>} \cup (IF x[2] = NoAttest THEN {} ELSE {<<"attest", x[2]>>})
Tags == ({"config"} \X Contents) \cup ({"alias"} \X Prefixes)
FullTag(x) == <<"config", x[1]>>
Alias(x) == <<"alias", Prefix[x[1]]>>

Readers == Pulls \cup Views
Files == [Paths -> Versions \cup {Absent}]
AttestFiles == Attests \cup {NoFile, Partial}

ASSUME ArtefactsAssumption ==
    /\ NoAttest \notin Attests
    /\ FileIn \in [Contents -> Files]
    /\ Replaced \in [Attests -> SUBSET Images]
    /\ Prefix \in [Contents -> Prefixes]
    /\ Package \in [Pushes -> Packages]
    /\ Wanted \subseteq Pulls /\ Pulls \cap Views = {}
    /\ Asked \subseteq Tags
    /\ NoPackage \notin Packages
    /\ MaxRepeats \in Nat

VARIABLES
    layers,      \* parts whose layer is in the repository
    manifests,   \* parts whose OCI manifest is
    indexes,     \* packages whose index is
    tags,        \* the package whose index a tag points at
    push,        \* push[w]: where w is, the tag it writes, parts by progress
    read,        \* read[q]: where q is, the tag, the index, parts opened, files to write
    dir,         \* dir[q]: the files in the output directory of q
    file,        \* file[q]: the attestations file of q
    repeats

registryVars == <<layers, manifests, indexes, tags>>
diskVars == <<dir, file>>
vars == <<registryVars, push, read, diskVars, repeats>>

Push == [pc : {"head", "children", "done", "failed"}, tag : Tags,
         todo : SUBSET Parts, missing : SUBSET Parts, uploaded : SUBSET Parts]
Read == [pc : {"head", "get", "fetch", "extract", "create", "write", "done", "failed"},
         tag : Tags, index : Packages \cup {NoPackage},
         opened : SUBSET Parts, unwritten : SUBSET Paths]

TypeOK ==
    /\ layers \subseteq Parts /\ manifests \subseteq Parts /\ indexes \subseteq Packages
    /\ tags \in [Tags -> Packages \cup {NoPackage}]
    /\ push \in [Pushes -> Push]
    /\ read \in [Readers -> Read]
    /\ dir \in [Pulls -> Files]
    /\ file \in [Pulls -> AttestFiles]
    /\ repeats \in 0..MaxRepeats

Asking(t) == [pc |-> "head", tag |-> t, index |-> NoPackage, opened |-> {}, unwritten |-> {}]

Init ==
    /\ layers = {} /\ manifests = {} /\ indexes = {}
    /\ tags = [t \in Tags |-> NoPackage]
    /\ push = [w \in Pushes |-> [pc |-> "head", tag |-> FullTag(Package[w]),
                                 todo |-> {}, missing |-> {}, uploaded |-> {}]]
    /\ \E wanted \in [Readers -> Asked] : read = [q \in Readers |-> Asking(wanted[q])]
    /\ dir = [q \in Pulls |-> [f \in Paths |-> Absent]]
    /\ file = [q \in Pulls |-> NoFile]
    /\ repeats = 0

-----------------------------------------------------------------------------
(* PushArtefact: WriteIndex with the full tag, then Tag with the alias,    *)
(* which in this version of the library is the same procedure.             *)

Proceed(w, r) == push' = [push EXCEPT ![w] = r]

\* A fault: a tag that has been written is looked up again, and written again
\* when it has been moved.
NextTagOnceSeen(w) ==
    IF tags[push[w].tag] # Package[w] THEN [push[w] EXCEPT !.pc = "head"]
    ELSE IF push[w].tag = FullTag(Package[w])
    THEN [push[w] EXCEPT !.pc = "head", !.tag = Alias(Package[w])]
    ELSE [push[w] EXCEPT !.pc = "done"]

NextTag(w) ==
    IF push[w].tag = FullTag(Package[w])
    THEN [push[w] EXCEPT !.pc = "head", !.tag = Alias(Package[w])]
    ELSE [push[w] EXCEPT !.pc = "done"]

\* Nothing is pushed when the tag points at this index already.
HeadTag(w) ==
    /\ push[w].pc = "head"
    /\ Proceed(w, IF tags[push[w].tag] = Package[w] THEN NextTag(w)
                  ELSE [push[w] EXCEPT !.pc = "children", !.todo = PartsOf(Package[w])])
    /\ UNCHANGED <<registryVars, read, diskVars, repeats>>

\* Parts are pushed concurrently, each unless its manifest is there.
HeadManifest(w, m) ==
    /\ push[w].pc = "children" /\ m \in push[w].todo
    /\ Proceed(w, [push[w] EXCEPT !.todo = @ \ {m},
                                  !.missing = IF m \in manifests THEN @ ELSE @ \cup {m}])
    /\ UNCHANGED <<registryVars, read, diskVars, repeats>>

PutLayer(w, m) ==
    /\ push[w].pc = "children" /\ m \in push[w].missing
    /\ layers' = layers \cup {m}
    /\ Proceed(w, [push[w] EXCEPT !.missing = @ \ {m}, !.uploaded = @ \cup {m}])
    /\ UNCHANGED <<manifests, indexes, tags, read, diskVars, repeats>>

PutManifest(w, m) ==
    /\ push[w].pc = "children" /\ m \in push[w].uploaded
    /\ manifests' = manifests \cup {m}
    /\ Proceed(w, [push[w] EXCEPT !.uploaded = @ \ {m}])
    /\ UNCHANGED <<layers, indexes, tags, read, diskVars, repeats>>

\* A fault: the index is pushed when all parts have been looked up.
PartsChecked(w) == push[w].todo = {} /\ push[w].uploaded = {}

\* All parts have been pushed or were there.
PartsPushed(w) == push[w].todo = {} /\ push[w].missing = {} /\ push[w].uploaded = {}

PutIndex(w) ==
    /\ push[w].pc = "children" /\ PartsPushed(w)
    /\ indexes' = indexes \cup {Package[w]}
    /\ tags' = [tags EXCEPT ![push[w].tag] = Package[w]]
    /\ Proceed(w, NextTag(w))
    /\ UNCHANGED <<layers, manifests, read, diskVars, repeats>>

FailPush(w) ==
    /\ push[w].pc \in {"head", "children"}
    /\ Proceed(w, [push[w] EXCEPT !.pc = "failed"])
    /\ UNCHANGED <<registryVars, read, diskVars, repeats>>

-----------------------------------------------------------------------------
(* Fetch.                                                                  *)

Continue(q, r) == read' = [read EXCEPT ![q] = r]

\* GetIndexOrImage asks for the media type first, and then for the index, by
\* the same tag.
HeadRef(q) ==
    /\ read[q].pc = "head"
    /\ Continue(q, [read[q] EXCEPT !.pc = IF tags[read[q].tag] = NoPackage THEN "failed" ELSE "get"])
    /\ UNCHANGED <<registryVars, push, diskVars, repeats>>

GetIndex(q) ==
    /\ read[q].pc = "get"
    /\ Continue(q, [read[q] EXCEPT !.pc = "fetch", !.index = tags[read[q].tag]])
    /\ UNCHANGED <<registryVars, push, diskVars, repeats>>

\* The manifest and the layer of a part, by the digests that the index and the
\* manifest name.
FetchPart(q, m) ==
    /\ read[q].pc = "fetch" /\ m \in PartsOf(read[q].index) \ read[q].opened
    /\ Continue(q, IF m \in manifests /\ m \in layers
                   THEN [read[q] EXCEPT !.opened = @ \cup {m}]
                   ELSE [read[q] EXCEPT !.pc = "failed"])
    /\ UNCHANGED <<registryVars, push, diskVars, repeats>>

Fetched(q) == read[q].pc = "fetch" /\ read[q].opened = PartsOf(read[q].index)

-----------------------------------------------------------------------------
(* `tape pull` and `tape view`.                                            *)

ContentOf(parts) == CHOOSE c \in Contents : <<"content", c>> \in parts
AttestOf(parts) ==
    IF \E a \in Attests : <<"attest", a>> \in parts
    THEN CHOOSE a \in Attests : <<"attest", a>> \in parts
    ELSE NoAttest
ContentOpened(q) == ContentOf(read[q].opened)
AttestOpened(q) == AttestOf(read[q].opened)

BeginExtract(q) ==
    /\ q \in Pulls /\ Fetched(q)
    /\ Continue(q, [read[q] EXCEPT !.pc = "extract",
                      !.unwritten = {f \in Paths : FileIn[ContentOpened(q)][f] # Absent}])
    /\ UNCHANGED <<registryVars, push, diskVars, repeats>>

\* A fault: a file that is there already is left as it is.
ExtractUnlessThere(q, f) ==
    /\ read[q].pc = "extract" /\ f \in read[q].unwritten
    /\ dir' = [dir EXCEPT ![q][f] = IF @ = Absent THEN FileIn[ContentOpened(q)][f] ELSE @]
    /\ Continue(q, [read[q] EXCEPT !.unwritten = @ \ {f}])
    /\ UNCHANGED <<registryVars, push, file, repeats>>

\* Files are replaced one by one, and other files in the directory are left.
ExtractFile(q, f) ==
    /\ read[q].pc = "extract" /\ f \in read[q].unwritten
    /\ dir' = [dir EXCEPT ![q][f] = FileIn[ContentOpened(q)][f]]
    /\ Continue(q, [read[q] EXCEPT !.unwritten = @ \ {f}])
    /\ UNCHANGED <<registryVars, push, file, repeats>>

\* A fault: attestations are written whether the package has any or not.
EndExtractForAll(q) ==
    /\ read[q].pc = "extract" /\ read[q].unwritten = {}
    /\ Continue(q, [read[q] EXCEPT !.pc = IF q \in Wanted THEN "create" ELSE "done"])
    /\ UNCHANGED <<registryVars, push, diskVars, repeats>>

EndExtract(q) ==
    /\ read[q].pc = "extract" /\ read[q].unwritten = {}
    /\ Continue(q, [read[q] EXCEPT
                      !.pc = IF q \in Wanted /\ AttestOpened(q) # NoAttest THEN "create" ELSE "done"])
    /\ UNCHANGED <<registryVars, push, diskVars, repeats>>

\* An attestations file that is there already is an error.
Create(q) ==
    /\ read[q].pc = "create"
    /\ IF file[q] # NoFile
       THEN UNCHANGED file /\ Continue(q, [read[q] EXCEPT !.pc = "failed"])
       ELSE /\ file' = [file EXCEPT ![q] = Partial]
            /\ Continue(q, [read[q] EXCEPT !.pc = "write"])
    /\ UNCHANGED <<registryVars, push, dir, repeats>>

Write(q) ==
    /\ read[q].pc = "write"
    /\ file' = [file EXCEPT ![q] = AttestOpened(q)]
    /\ Continue(q, [read[q] EXCEPT !.pc = "done"])
    /\ UNCHANGED <<registryVars, push, dir, repeats>>

\* What CollectInfo makes of the parts is reported at once.
CollectInfo(q) ==
    /\ q \in Views /\ Fetched(q)
    /\ Continue(q, [read[q] EXCEPT !.pc = "done"])
    /\ UNCHANGED <<registryVars, push, diskVars, repeats>>

\* A request fails, or the process is killed.
FailRead(q) ==
    /\ read[q].pc \notin {"done", "failed"}
    /\ Continue(q, [read[q] EXCEPT !.pc = "failed"])
    /\ UNCHANGED <<registryVars, push, diskVars, repeats>>

\* The user pulls again, the same tag or another, to the same directory, and
\* may remove the attestations file before.
PullAgain(q, t) ==
    /\ read[q].pc \in {"done", "failed"}
    /\ repeats < MaxRepeats /\ repeats' = repeats + 1
    /\ Continue(q, Asking(t))
    /\ \E left \in {file[q], NoFile} : file' = [file EXCEPT ![q] = left]
    /\ UNCHANGED <<registryVars, push, dir>>

-----------------------------------------------------------------------------
StepPush(w) ==
    \/ HeadTag(w) \/ PutIndex(w)
    \/ \E m \in Parts : HeadManifest(w, m) \/ PutLayer(w, m) \/ PutManifest(w, m)

StepRead(q) ==
    \/ HeadRef(q) \/ GetIndex(q) \/ CollectInfo(q)
    \/ \E m \in Parts : FetchPart(q, m)
    \/ BeginExtract(q) \/ EndExtract(q) \/ Create(q) \/ Write(q)
    \/ \E f \in Paths : ExtractFile(q, f)

Next ==
    \/ \E w \in Pushes : StepPush(w) \/ FailPush(w)
    \/ \E q \in Readers : StepRead(q) \/ FailRead(q)
    \/ \E q \in Pulls, t \in Asked : PullAgain(q, t)

Spec == Init /\ [][Next]_vars

\* A command goes on unless it is killed.
Fairness == (\A w \in Pushes : WF_vars(StepPush(w))) /\ (\A q \in Readers : WF_vars(StepRead(q)))
FairSpec == Spec /\ Fairness

-----------------------------------------------------------------------------
(* Properties.                                                             *)

\* The packages that can be fetched with everything they name.
Complete == {x \in indexes : PartsOf(x) \subseteq manifests /\ PartsOf(x) \subseteq layers}

\* Whatever was killed in between, a manifest in the repository has its layer,
\* an index has its manifests, and a tag leads to an index made of contents
\* with this hash, or this beginning of a hash; when a push has succeeded both
\* tags are there (WriteIndex, Tag).
StoreClosed ==
    /\ manifests \subseteq layers
    /\ \A x \in indexes : PartsOf(x) \subseteq manifests
    /\ \A t \in Tags : tags[t] # NoPackage => tags[t] \in indexes /\ t \in {FullTag(tags[t]), Alias(tags[t])}
    /\ \A w \in Pushes : push[w].pc = "done" =>
           tags[FullTag(Package[w])] # NoPackage /\ tags[Alias(Package[w])] # NoPackage

\* What a reader that has succeeded is left with: the directory and the
\* attestations file, or the report.
Result(q) ==
    IF q \in Pulls THEN <<dir[q], file[q]>>
    ELSE <<ContentOpened(q), AttestOpened(q),
           IF AttestOpened(q) = NoAttest THEN {} ELSE Replaced[AttestOpened(q)]>>

\* What that may be for package x: all of its files are in the directory, and
\* the attestations that were asked for are its own.
GivenPull(q, x) ==
    {<<d, a>> : d \in {e \in Files : \A f \in Paths : FileIn[x[1]][f] \in {e[f], Absent}},
                a \in IF q \in Wanted /\ x[2] # NoAttest THEN {x[2]} ELSE AttestFiles}
GivenView(x) == {<<x[1], x[2], IF x[2] = NoAttest THEN {} ELSE Replaced[x[2]]>>}
Given == [q \in Readers |-> [x \in Packages |-> IF q \in Pulls THEN GivenPull(q, x) ELSE GivenView(x)]]

\* The repository as its readers see it: PackageStore.  A package is there when
\* it is complete; a pull or a view that succeeds has all of one package, that
\* its tag pointed at while it ran, although layers, manifests, tags, files are
\* written one by one and tags move meanwhile (Fetch, Execute, CollectInfo).
Store == INSTANCE PackageStore WITH
    packages <- Complete,
    wanted <- [q \in Readers |-> read[q].tag],
    chosen <- [q \in Readers |-> read[q].index],
    result <- [q \in Readers |-> IF read[q].pc = "done" THEN Result(q) ELSE Nothing]
StoreSpec == Store!Spec

\* The phases of a push in their order, for one tag and then for the other, and
\* the requests that are left to make for the parts.
PushPhase(w) ==
    IF push[w].pc \in {"done", "failed"} THEN 4
    ELSE (IF push[w].tag = FullTag(Package[w]) THEN 0 ELSE 2) + (IF push[w].pc = "head" THEN 0 ELSE 1)
PushWork(w) ==
    (push[w].todo \X {"head", "layer", "manifest"}) \cup (push[w].missing \X {"layer", "manifest"})
    \cup (push[w].uploaded \X {"manifest"})

\* The phases of a reader, and the parts or files that are left to it.
ReadPhase(q) ==
    CASE read[q].pc = "head" -> 0
      [] read[q].pc = "get" -> 1
      [] read[q].pc = "fetch" -> 2
      [] read[q].pc = "extract" -> 3
      [] read[q].pc = "create" -> 4
      [] read[q].pc = "write" -> 5
      [] read[q].pc \in {"done", "failed"} -> 6
ReadWork(q) ==
    CASE read[q].pc = "fetch" -> PartsOf(read[q].index) \ read[q].opened
      [] read[q].pc = "extract" -> read[q].unwritten
      [] OTHER -> {}

\* No command goes back to a tag it has written or a part it has seen to, or
\* makes a request or writes a file twice, whatever the others do to the same
\* tags and files: its steps end a phase or leave strictly less to do in it; only
\* a user begins again (WriteIndex, Tag, OpenFile).
CommandsAdvance ==
    [][/\ \A w \in Pushes : push'[w] # push[w] =>
             \/ PushPhase(w)' > PushPhase(w)
             \/ PushPhase(w)' = PushPhase(w) /\ PushWork(w)' \subseteq PushWork(w) /\ PushWork(w)' # PushWork(w)
       /\ \A q \in Readers : read'[q] # read[q] =>
             \/ ReadPhase(q)' > ReadPhase(q)
             \/ ReadPhase(q)' = ReadPhase(q) /\ ReadWork(q)' \subseteq ReadWork(q) /\ ReadWork(q)' # ReadWork(q)
             \/ ReadPhase(q) = 6 /\ repeats' > repeats]_vars

\* Each command ends, also when several move one tag for ever: writing a tag and
\* creating a file are never tried again (WriteIndex, Tag, OpenFile).
CommandsEnd ==
    /\ \A w \in Pushes : <>(push[w].pc \in {"done", "failed"})
    /\ \A q \in Readers : []<>(read[q].pc \in {"done", "failed"})
=============================================================================
