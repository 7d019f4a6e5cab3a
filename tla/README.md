# Tape: a verification development

Tape (`src/`, written in Go) packages a directory of Kubernetes manifests as an OCI artefact: it finds the images the
manifests refer to, copies them with their signatures into one repository, rewrites the references to digests of that
repository, and pushes the result with attestations. This directory has TLA+ models of its logic, TLC configurations
that check them on small instances, and TLAPS proofs for all instances. `PROJECT.json` lists the parts of the system,
the runs, the lines of Go each definition stands for, the hazards and the theorems.

    tlc -config package_single.cfg MCTapePackage.tla      # a run: each names its module in PROJECT.json
    tlapm TapePackageProof.tla                            # a proof module

## 1. The system

### Parts

| Part | Source | State it keeps | Operations | Correct when |
|---|---|---|---|---|
| Packaging (`tape package`) | `tape/app/package.go`, `manifest/packager` | none of its own: the order of calls | `Execute` | a package that is visible is whole, whatever fails before |
| Manifest loader | `manifest/loader` | list of files, temporary copy, times | `Load`, `RelPaths`, `MostRecentlyModified`, `Cleanup` | what is packaged is what is scanned; the time is that of the files |
| Image scanner | `manifest/imagescanner` | trackers: references with their locations | `Scan`, `GetImages`, `Reset` | every reference of the listed files is found |
| References and lists | `manifest/image` (`image.go`, `list.go`) | items, relations between items | `Append`, `Dedup`, `AppendWithRelationTo`, `GroupByManifest` | nothing that differs is merged |
| Short names | `manifest/image/alias.go` | for each name how much of it is the alias | `MakeAliasesForNames`, `Match` | unique, as short as possible, found again |
| Image resolver | `manifest/imageresolver` | none | `ResolveDigests`, `FindRelatedTags`, `FindRelatedFromIndecies` | one digest per location; all artefacts of it |
| Image copier | `manifest/imagecopier` | none | `CopyImages`, `SetNewImageRefs` | everything a package needs is in the destination first |
| Manifest updater | `manifest/updater` | the files of the temporary copy | `Update` | every reference ends up at its own digest |
| OCI client | `oci` | none | `Digest`, `Copy`, `ListRelated`, `GetIndexOrImage`, `PushArtefact`, `Fetch…` | what is read back is what was written |
| OCI registries | outside the repository | manifests, tags | | — |
| Attestation registry | `attest/registry.go`, `attest/types`, `attest/manifest` | checkers by path, mutated paths, statements | `Register`, `RegisterMutated`, `Associate…Statements`, `GetStatements` | statements are about what is in the package, without contradiction |
| Git path checker | `attest/vcs/git` | a repository, a cached result | `DetectRepo`, `Check`, `MakeSummary` | a summary is true of one moment of the worktree |
| Inspection | `tape/app/images.go`, `view.go` | collected information | `CollectInfo` | nothing is reported for the wrong image |
| Fetching | `tape/app/pull.go`, `oci/artefact.go` | files written | `Execute`, `FetchFromIndexOrImage` | a pull yields the package or an error, and can be repeated |
| Test registry | `trex` | a port | `RunShared`, `Run` | test infrastructure |
| Command line, logging | `tape/app/app.go`, `logger` | flags | | no state to get wrong |

### How they interact

A run of `tape package` is one goroutine. It calls the parts above one after the other: load, detect Git, scan, attest
to the references, resolve, attest, merge equal items, list signatures of the images, list signatures of the manifests
the images list, copy the three lists, update, scan again, attest, push. The parts share the `ImageList`s and the
attestation registry, and hand over files through the temporary directory. At the first error `Execute` returns, and
nothing is undone.

There are no messages between processes and no locks. What makes the program hard is that everything it reads can
change between two calls, and that what it writes is shared:

* the authors of images move tags, delete them and sign again while Tape resolves, lists and copies;
* runs of Tape with one `--output-image` write the same tags of the destination, and read them back;
* a run can be killed or fail at any call: what it pushed stays;
* manifests are edited while the loader lists and copies them;
* lists come out of Go maps in any order, and several algorithms work on a list in place, in that order.

`PROJECT.json` has each hazard at the line where it bites, with the properties about it.

## 2. The plan

Order of the work, the most important behaviour first.

| | Modules | What | State |
|---|---|---|---|
| 1 | `ImageRegistry`, `TapePackage`, `TapedRegistry`, `TapePackageProof`, `AttestedProof`, `RunsProof` | `tape package` against registries, with its abstract specification | done |
| 2 | `AliasCache`, `AliasCacheProof` | short names | done |
| 3 | `Loader`, `LoaderProof` | loading a directory that is written to | done |
| 4 | `GitRepo`, `Provenance`, `ProvenanceProof` | what is attested of the manifests themselves: the Git checker and the attestation registry, composed, in a repository that people work in | done |
| 5 | `PackageStore`, `Artefacts`, `ArtefactsProof` | pushing a package request by request, pulling and viewing it, killed and repeated, with the abstract specification of what readers get | done |
| 6 | `Inspection`, `InspectionProof` | `tape images`: which document is reported for which image | done |

## 3. The models

### ImageRegistry

A repository is a set of digests that can be fetched (`stored`) and a function from tags to digests (`tags`). A
digest stands for the manifest, so SHA-256 is assumed to be free of collisions; an index lists the digests in `IndexOf`.
`Digest` and `ListRelated` are the calls of `oci/oci.go` that read, `Push` is `crane.Copy`: an index with its manifests,
then the tag. `Retag` is what authors do, at any time: point a tag at another version or delete it. Nothing deletes
manifests; garbage collection of a registry is outside the model. A tag of a copied image, `app.<sha256 of name:tag>`,
is the pair that is hashed; a cosign tag has the digest it names in `Subject`.

### TapePackage

Each element of `Procs` is one run of `tape package`; `run[p]` is what the Go process has in its variables and in its
temporary directory. Manifests are reduced to their *locations*, places with an image reference; `contents` are the
references there now, and the contents of a package. A step is one call to a registry, or everything between two calls.

| Action | Code |
|---|---|
| `Load` | `Load`, `Scan`, `GetImages` and the first statements (`package.go:72-110`) |
| `ResolveDigest` | one iteration of `ResolveDigests`: a lookup for each location, also for equal references |
| `Dedup` | `Dedup` and the second statements; the order of items is any, as that of a Go map |
| `FindRelatedTags`, `FindRelatedToManifests` | one iteration of `FindRelatedTags`, for the images and for the manifests they list |
| `FindIndexManifests` | `FindRelatedFromIndecies`, with its errors for single-platform images and duplicates |
| `BeginCopy`, `CopyImage`, `VerifyCopy` | `SetNewImageRefs`, `CopyImages`, `Copy`: push, then read the tag back |
| `BeginUpdate`, `ReplaceImage` | `Update`: the filter of one image over all of its files, in the order of the list |
| `Rescan` | second scan and the statements about replaced references (`package.go:152-168`) |
| `WriteIndex`, `TagAlias` | `PushArtefact`: the index with its tag, then the alias |
| `Fail` | any call fails or the process is killed; the attestations that can fail are part of it |
| `Author` | authors of images |

Abstracted: what a manifest has besides references; the regular expression in the imagetag filter (a name matches
itself only); the lookups of one iteration of `FindIndexManifests` (manifests are immutable, so when they are read does
not matter); the layers of a package, which are complete before its index is written, since `remote` uploads blobs first.

Properties: `ClosedPackages` (a visible package refers only to manifests of the destination), `VersionsKept` (a
location gets the digest it was resolved to), `AttestedPackages` (three statements for each location, consistent with
each other and with the contents), `RelatedCopied`, `Termination`, and `TapedSpec`: the module implements
**TapedRegistry**, where packages appear at once, whole, and names lead to packages that are there. The refinement maps
`images` to `stored[Dest]` and the other variables to themselves. `RunsAdvance` is the argument for termination, stated of
single steps: each ends its phase (`Phase`) or leaves strictly less to do in it (`Work`). `RefusedForAReason` says with
which state of affairs a run may end in an error: each disjunct is a fact about the references or about what others copied,
none mentions what the code compares. `RelatedTagsKept` says when the tag of a signature leads to the signature that was found.

`VersionsKept` holds for locations that are `Unambiguous`: in a file with two versions of one image, or with references
to the destination repository that collide with rewritten ones, the filters take one location for the other. This is
what `package_pinned` shows. `PinnedKept` is what is left of the sentence in the README: a digest that is written is used if
all references the filters could take for this one have it written.

### AliasCache

A name is a sequence of parts, an alias the last `width` of them. `Compare` is one pair of the two inner loops of
`MakeAliasesForNames` with both checks, `EndSweep` the end of the loop over all pairs. The loop in
`extendIfSuffixMatches` is not executed step by step: `Leaves` says where it stops, which is right because the suffixes
it tries grow by one part each and an alias can only equal a suffix of its own length. `Candidates` is `Match`; the strings
`slices.Compare` and `strings.Join` work on are compared part by part, which is the same for parts without separators.

`ShortestUnique` is the declarative definition: an alias is the shortest suffix that no other name ends in, or the
whole name. It does not mention the order of the list, so the aliases do not depend on it. `NoLongerThanNeeded` says
so for every moment of a sweep. `NamesJoined` is about the joined strings kept beside the positions, `AliasesLead`
about `Match`, `SweepsEnd` about termination, and `SweepsAdvance` about the reason for it: a sweep follows another only
after an alias has grown, and within a sweep no pair is compared again.

### Loader

The version of a file is the time it was written. `ReadDir` and `List` are the walk of `getFiles`; `Stat` and `CopyFile`
the copy by `github.com/otiai10/copy`, which reads a directory, looks at all files in it, then copies one after the
other, and silently passes over a file, or over a whole directory, when a file is gone; `ReadTemp` the second walk;
`Scan` opens the listed files in the copy. `Write` and `Remove` are other processes, between any two of these calls.
Abstracted: files with other extensions, links, errors of permission, directories that come and go (a write creates a
file in one that exists), and a file that is written to while it is copied. Walks take directories in any order, where
the code has a lexical one, so the model has more behaviours than the code.

`QuietFilesLoaded`: a manifest nobody touches is in the package, unchanged, and has been scanned, although the copy may
have passed over its directory: then `Scan` fails for lack of the file. `UnscannedAreNew`: what is in the package
unscanned was written after `Load` began. `TimesNotLater`: a copy never claims a time later than its contents.
`TapePackage` takes the outcome of `Load` as given: the composition is by the file list, which is constant after `Scan`.

### GitRepo and Provenance

`GitRepo` is the repository as go-git reads it: the contents of each file in the worktree, in the index and in the trees
of the commits, HEAD, and the remotes. `Edit`, `Stage`, `Commit`, `Reset` and `SetRemote` are people, between any two reads
of Tape; `touched` is a history variable with the files they changed anywhere. Contents stand for their hash.

`Provenance` is one run of `tape package`, reduced to what it attests of the manifests. A step is one read of the repository:

| Action | Code |
|---|---|
| `Detect`, `CompareFile`, `EndCompare`, `CompareStaged`, `CompareUnstaged` | `DetectVCS` with `Check` of the directory: HEAD's tree, each file of it until one is modified, then `Status`, which compares HEAD with the index and the index with the files |
| `Scan` | `Scan` with `Register`: paths with the digests of the *temporary copies* |
| `SummariseDir`, `Find`, `Read`, `Summarise` | `MakeSummary` for each registered path, which looks a file up in HEAD, reads the worktree, then the remotes and HEAD again |
| `AssociateCoreStatements`, `AssociateOriginal`, `AssociateResolved`, `AssociateReplaced` | the four calls of package.go, with the test of relevance |
| `Update` | `Update`, `RegisterMutated`, `Reset` and the second `Scan` |

`base` is the entry of the directory: `DetectVCS` has checked it and made a summary of it, of which only the verdict is
kept, and `SummariseDir` makes the one that is attested. Abstracted: links, submodules and file modes; what the
statements say of images, which is in `TapePackage`. Manifests are loaded in the initial state; `Loader` has how.

`QuietFilesTold` and `QuietDirTold` are the promise of README.md:72-73 for what nobody touches: digest, object, verdict
and commit are right, if and only if. The first holds while others edit other files, move HEAD and change remotes; it
fails for files that are touched, which the violations show. `UnmodifiedIsCommitted` is what remains for those: what is
called unmodified has been committed at some time. `StatementsAboutPackage` follows each manifest of the package back
to the one that was loaded. `CheckedInNotRefused`: nothing a run does itself makes a statement irrelevant.

### PackageStore and Artefacts

A package is an index of at most two parts, manifests and attestations; a part is a layer and an OCI manifest.
`HeadTag` to `PutIndex` are one `WriteIndex` in the version of the library that is vendored: look the tag up, look the parts up,
concurrently, push what is not there, then the index with the tag. `Tag`, which the code calls for the alias, is the
same procedure there, so both tags are `NextTag` after `NextTag` of one loop. `HeadRef`, `GetIndex` and `FetchPart` are
`Fetch`; `BeginExtract` to `Write` are `tape pull`, one file at a time; `CollectInfo` is `tape view`. `FailPush` and
`FailRead` are errors and kills at any point, `PullAgain` the user who pulls again to the same directory, and may have
removed the attestations file.

**PackageStore** is what a reader of the repository may rely on: a package appears at once, with a tag; a reader is given
a package that its tag pointed at while it was reading, whole, or nothing. `StoreSpec` says that `Artefacts` implements
it, where a package is there when it is complete, and what a pull has been given is all of its directory. What it does not
promise is what the code does not: other files in the directory stay, and a pull that failed may have left the
manifests of one package beside the attestations of another, since the attestations file is created with `O_EXCL`, after the
manifests have been extracted. `StoreClosed` is the order of uploads; `CommandsEnd` that two pushes with the same tags end, and
`CommandsAdvance` that no request of a phase is made twice, although each push undoes what the other one wrote to the tags.

Packages without attestations can be pushed by `PushArtefact`, not by `tape package`; `tape view` can only print them as JSON.

### Inspection

`tape images`: references are resolved and merged, tags listed for each image and looked up one by one, indexes inspected,
tags listed for the manifests in them, and the documents under all these tags fetched, by digest. The loops are over
lists in Go-map order, so each phase takes its items in any order. `Refused` is `AppendWithRelationTo`, which keeps one
relation per reference, and with it all that `DocumentsOfImage`, `NothingMissed` and `LocationsReported` depend on. `info`
is the report, by reference. `DigestsTold` is what holds of "Digest provided": an image whose
manifests give its digest is said to have one, and one without is only if another name or tag has that digest written; of the
two items that `Dedup` may leave of one reference it is not the other one that decides. The registry is `ImageRegistry` again, here with nothing pushed. Abstracted: the media types and the
formats of documents, whose errors are `Fail`, and what is only printed.

## 4. The runs

| Run | Instance | Distinct states | Shows |
|---|---|---|---|
| `package_single` | 1 process; 4 locations: one reference in two files; in one of them another image, and a reference to the destination, rewritten by an earlier run; 2 author steps | 37 574 | `TypeOK`, `ClosedPackages`, `VersionsKept`, `AttestedPackages`, `RelatedCopied`, `PinnedKept` hold |
| `package_race` | 2 processes with one image in common and different second ones, colliding aliases; 1 author step; fairness | 72 368 | `TapedSpec`, `RelatedCopied`, `RelatedTagsKept`, `RunsAdvance`, `RefusedForAReason`, `Termination` hold |
| `package_pinned` | one file that pins two versions of an image | | `PinnedDigestUsed` (README.md:62) does not hold |
| `package_mirrored` | one image in two repositories with signatures of their own | | `RelatedTagsCopied` (README.md:64) does not hold |
| `aliases` | all lists of 3 names of up to 3 parts, and all lists of 4 of six nested names; 2 different parts | 101 800 | the five invariants, `SweepsAdvance` and `SweepsEnd` hold |
| `loader` | one file at the top, two in a subdirectory; 2 writes, any number of removals | 89 033 | the four invariants hold |
| `loader_unscanned` | same | | `PackagedAreScanned` (README.md:61) does not hold |
| `loader_epoch` | same | | `EpochIsLatest` (package.go:183) does not hold |
| `vcs` | 4 files: two manifests, an ignored file beside them, one elsewhere; usual trees; 2 changes; two remotes | 1 349 343 | the six invariants hold |
| `vcs_outside` | a directory outside of Git | | `OutsideGitWarned` (package.go:91) does not hold |
| `artefacts` | two packages with one alias and a file in common, one without attestations; a pull that may be repeated once, a view; kills; fairness | 442 118 | `TypeOK`, `StoreClosed`, `StoreSpec`, `CommandsAdvance`, `CommandsEnd` hold |
| `inspect` | four locations, three references, two repositories; eight kinds of artefacts; 2 tag moves | 36 889 | the six invariants hold |

Eight more configurations each show that one sentence does not hold; section 6 says what they mean.

| Configuration | Module | Instance | What does not hold |
|---|---|---|---|
| `package_twotags.cfg` | `MCTapePackage` | one image under two tags; no author, no failure | `NothingRefused` (README.md:64) |
| `package_oneplatform.cfg` | `MCTapePackage` | an image that is not an index; no author, no failure | `NothingRefused` |
| `vcs_partly.cfg` | `MCProvenance` | one of two manifests checked in, nobody there | `PartlyCheckedInNotRefused` (README.md:72) |
| `vcs_edit.cfg` | `MCProvenance` | 2 changes | `UnmodifiedIsDigest` (README.md:73) |
| `vcs_commit.cfg` | `MCProvenance` | 2 changes | `UnmodifiedIsInCommit` (README.md:73) |
| `vcs_remotes.cfg` | `MCProvenance` | two remotes, none called origin, nobody there | `OneRepository` (git.go:174) |
| `inspect_single.cfg` | `MCInspection` | an image of one platform | `SingleRefused` (imageresolver.go:111) |
| `inspect_provided.cfg` | `MCInspection` | one image in two repositories, one digest | `DigestProvidedTold` (images.go:414) |

Why these bounds are enough to be of interest. With two tag moves a tag changes between the lookups of two locations
and again before a copy, or an image is re-signed between listing and copying; a third would repeat one of these.
Two locations of one reference in different files make the lookups differ; another image in a shared file
lets filters meet, and the location that is rewritten already lets them meet what others wrote. Index `X` lists `M`, both signed, so all three lists of copies are used. In the race
both processes push the same tag with different digests, which the read-back of either can see; aliases are
constant, so they always collide. Three names are what an extension for one collision needs to create, or to make
superfluous, another; four nested ones add chains of extensions. In `loader` a file can be listed, removed, written
again and copied, beside a quiet file in its directory.

`vcs` starts from the states that a file is usually in: checked in, edited, staged and restored, new. Two changes make
an edit that is undone, an edit that is committed, and a commit with a reset; a second manifest is touched while the first is
quiet. In `artefacts` the two packages share the alias and a file, so that each push can be overtaken and each pull find files
of the other; a third push would repeat one of the two. Two tag moves in `inspect` change a tag between two lookups of one reference,
or between listing, lookup and fetch of a signature.

The instances of the violations are the same modules with the inputs of the comment in question, chosen so that
no author and no other process interferes where the sentence does not speak of them.

The actions of all modules are taken in the passing runs, and for every property of a passing run `PROJECT.json` names
a fault ("A fault: …" in the modules) under which the run fails. `CHECK_DEADLOCK FALSE` is used since all of these programs end.

### Fairness

`TapePackage!Fairness` is weak fairness of `Step(p)` for each process: a run that is not killed goes on, as each of
its calls returns or fails, which the code leaves to the HTTP client and the operating system: it sets no deadline of its
own, so a registry that accepts a connection and never answers is excluded by this assumption. Authors are not fair. `Termination` then says that no run retries for ever, also if two runs keep moving the same tag. `Fail` may
end a run and is never needed to. `AliasCache!FairSpec` is weak fairness of a single goroutine that waits for nothing.
`Artefacts!FairSpec` is weak fairness of each command for the same reason; kills and repetitions are not fair. `Loader` has no liveness property: a walk of a directory to which others add for ever need not end.

## 5. The proofs

Each holds for all constants that satisfy the assumptions named in the modules (`RegistryAssumption`,
`PackageAssumption`, `AliasAssumption`, `LoaderAssumption`, `GitAssumption`, `ProvenanceAssumption`,
`ArtefactsAssumption`, `InspectionAssumption`, `DestAssumption`); these only give types, for `Loader` that every
directory is reached from the root, for `GitRepo` that there are finitely many remotes, for `Provenance` that a rewritten
manifest still has images, and for `AttestedProof` that others do not remove the tags of copies (`DestAssumption`).

**TapePackageProof**: `TypeCorrect`, `PackagesClosed`, `VersionsAreKept`, `Refinement` (`Spec => TapedSpec`), for any number
of processes, manifests, images and author steps. `ClosedPackages` alone is not inductive: that a pushed reference is
held follows from the copies made three phases before. The invariant `IInv` therefore follows a run through its
phases: the manifests are as scanned until the update (`ScannedInv`); resolved locations have digests (`ResolvedInv`);
every location is in an item with its digest (`ImagesInv`); what was copied is held, and after copying so are all items
(`CopiedInv`); during the update each location either has a reference of an image in the list, the right one if it is
unambiguous, or still waits for its filter (`UpdateInv`); a package is there before its alias (`PushedInv`). Steps of
other processes preserve it because nothing is removed from `stored` (`HeldStays`, `RunsKept`). The hard case is
`ReplaceImage`, where a filter can hit a location before its own does. The refinement maps every step to a step of
`TapedRegistry` or a stutter (`StepRefines`).

**AliasCacheProof**: `TypeCorrect`, `JoinedAliases`, `NeverTooLong`, `AliasesShortestUnique`, `AliasesFindNames`, for lists
of any length. The invariant adds to the properties that pairs compared in this sweep are `Settled` unless the sweep
has changed something; a comparison that changes nothing settles its pair (`CompareSettles`), so after a sweep without change all
pairs are. That an alias is extended only while some other name shares it (`CompareWidths`) gives minimality,
and settled pairs give uniqueness (`SettledUnique`): if two aliases collided at the length of the shorter one, that pair
would not be settled. No induction over lengths is needed. `SweepsAlwaysAdvance` takes from the same case
analysis that a comparison only lengthens aliases (`CompareGrows`) and that a pair is followed by a later one (`AfterLater`).
`ComparisonsEnd` is what the model takes for granted when it has no steps for the inner loop: the loop of each comparison
ends in one place (`LeavesOne`), the least length at which it can (`LeastNumber`).

**LoaderProof**: `TypeCorrect`, `QuietLoaded`, `UnscannedNew`, `CopyTimes`, for every directory tree and any writes. The invariant
says of the first walk that there is a set of directories, read already, whose quiet files are listed or about to be and
whose subdirectories are read or about to be (`Walked`): when nothing is left to read the set is closed under `Below` and
has the root, so by the assumption it has all directories. Quiet files are in the list from then on,
and whatever is copied of them is the version they had.

**ProvenanceProof**: `TypeCorrect`, `QuietFiles`, `QuietDir`, `UnmodifiedCommitted`, `NotRefused`, `StatementsLeadBack`, for
any files, initial trees, remotes and changes. The properties speak of the end of a run, when what they relate was read at
four earlier times, so the invariant says at each phase what has been read of a file nobody touched: its copy is the
worktree's (`LoadInv`), it is registered once and with that digest (`RegisterInv`), its checker has the object of HEAD and
then the hash of the worktree (`CheckerInv`), its entry says so (`EntryInv`). It survives changes of other files because
people's steps keep what is untouched and only add commits (`PeopleStep`); that commits stay is also why an
unmodified entry names something committed. `StatementInv` counts the statements of each phase and `DirInv` follows the
verdict on the directory through the comparison file by file, then of staged, then of unstaged changes.

**ArtefactsProof**: `TypeCorrect`, `StoreIsClosed`, `Refinement` (`Spec => StoreSpec`), for any number of runs, readers, packages
and kills. `StoreClosed` is not inductive: that an index is put after its parts is in what the pusher
remembers. `PushInv` says that each part of its package is still to do, or missing, or uploaded, or there; `ReadInv`
that what a reader has opened is of the one index it has chosen; `PullInv` that the files of that package are extracted, and that
its attestations come last. The refinement maps the store to what is tagged, and a reader to what it has got: the
steps in between are stutters (`PushStutters`), and a whole package is the result because the parts identify their package
(`PackageParts`). `CommandsAlwaysAdvance` needs one thing more, that what a push has to look up, to upload and to finish is
apart (`ApartInv`): a request then takes its part out of one of the three and does not put it into one that is past.

**AttestedProof**, on top of the invariant of `TapePackageProof`: `PackagesAttested`, `RelatedAreCopied`. `AttestInv` says which
statements there are at each phase (`OriginalsMade`, `ResolvedsMade`, `ReplacedsMade` relate the lists of images to
locations), and that a pinned reference was resolved to its digest. `RelatedInv` says that what is copied has a tag, which
stays because tags of copies are moved but not removed: this program never removes one (`TagsStay`), and
`DestAssumption` says the same of others, where manifests refer to images in the destination itself.

**InspectionProof**: `TypeCorrect`, `RightDocuments`, `AllFound`, `LocationsOnce`, `AllInlineReported`, for any manifests and
registries. `FoundInv` says that all that is listed or found is about a target of its phase, `KeptInv` that a tag that is
always there is waiting to be looked up or found, once its target has been listed. `InspectInv` is what `LocationsOnce`
rests on: `Dedup` can leave two items of one reference, of which the report keeps one, and the locations of the other would
be lost; but the second to be inspected lists a manifest that is in the list already and is refused, so at the end
no two items have one reference. `DigestsAreTold` rests on the same fact (`ReportedOnce`): the verdict is passed
by digest (`WrittenInv`, `ProvidedInv`), and a location that has the digest written, with the name and tag of the image, is
reported with it, so an image without one owes the verdict to another name or tag.

**RunsProof**, on top of both invariants about `tape package`: `RunsAlwaysAdvance`, `RunsCanGoOn`, `RefusalsHaveReasons`,
`RelatedTagsAreKept`, `PinnedAreKept`, for any number of processes and authors. `RunsInv` adds what the first two did not need.
`OneCopyInv`: at most one copy is not verified yet, and it is one of those that are left; without it verifying a copy need
not leave less to do. `ListInv`: each artefact that was found is about an image that has been listed, and none about a
manifest that has not; so a duplicate comes from two different items with one digest, which `ItemsDiffer` traces back to two
references, and two manifests of one name never share an artefact. `TagInv`: the tag of a copy leads to something that some
process copied under it or that others put there; of the copy being verified, to the copy itself or to what someone else did.
It is kept because what is known of a tag only grows (`KnownGrows`) and only a copy or an author moves one (`TagMoved`).
One lemma for each step (`LoadGoes` to `UpdateGoes`) proves all of this together with the advance. `RunsCanGoOn` is about the
two choices a run makes, of an order of its images and of the next copy: there always is one, since finite sets
can be ordered (`OrderingsOf`) and no image is in the list twice (`OnceInv`), so what precedes has a first (`SomeCopyIsNext`).
`PinnedAreKept` combines `VersionsAreKept` with `AttestInv`.

Not proved, only checked by TLC: `Termination`, `SweepsEnd` and `CommandsEnd`, as liveness under fairness is beyond the
prover. The safety half of each is proved: every step goes ahead (`RunsAlwaysAdvance`, `SweepsAlwaysAdvance`,
`CommandsAlwaysAdvance`), and for `tape package` some step can be taken until the run has ended (`RunsCanGoOn`); what remains to
TLC is that the work of a phase is finite and that a step that can be taken is. All invariants, action properties and
refinements of the passing runs are proved.

## 6. Disagreements found

* `package_pinned`: two versions of one image pinned in one file end up as one (`updater.go:77`, the filter matches by
  name), against "If an image reference contains a digest, Tape will use it" (README.md:62).
* `package_mirrored`: signatures of one image in two repositories are copied to the same tag, the later one hides the
  other (`imagecopier.go`), against README.md:64.
* `loader_unscanned`: a manifest created between listing and copying is packaged and not scanned (`loader.go:86`),
  against README.md:61.
* `loader_epoch`: "most recently modified manifest file" (`package.go:183`) is the one modified least recently
  (`loader.go:100`, files are sorted by ascending time).
* `package_twotags`, `package_oneplatform`: manifests that refer to one image under two tags, or to an image built for one
  platform, cannot be packaged (`list.go:49`, `imageresolver.go:110`), against README.md:64.
* `vcs_outside`: outside of Git the program panics at `package.go:83`, before the warning at line 91.
* `vcs_partly`: one manifest that is not checked in stops the run (`types.go:272`), against "if any manifest files are checked
  in Git" (README.md:72).
* `vcs_edit`, `vcs_commit`: digest, verdict and commit of one entry are read at three times (`registry.go:66`, `git.go:271`,
  `git.go:192`), so a modified version can be attested to be unmodified, or in a commit that does not have it.
* `vcs_remotes`: "fallback to first entry" (`git.go:174`) takes the first of a list in map order, so files of one repository are
  attested to come from several.
* `inspect_single`: `tape images` panics on an image of one platform, for which `imageresolver.go:111` has an error.
* `inspect_provided`: "Digest provided" is printed for images whose references have none (`images.go:133`).

## 7. Not modelled

* The test registry: its only logic of its own is the choice of a port.
* Command line, logging, test data, formatting of output: no state that a property could be about.
* The order in which `GetStatements` sorts statements, and their encoding: statements are compared as sets.
* Vendored libraries, except for what the program depends on: the imagetag filter, the directory copy, the pusher, the
  extraction of archives, the listing of tags and the status of a worktree.
* Contents of attestations, layers and hashes as bytes; time-outs and retries inside HTTP clients, which are `Fail` or nothing.
