----------------------------- MODULE TapePackage -----------------------------
(***************************************************************************)
(* `tape package` (tape/app/package.go), run by several processes at any   *)
(* time: each works on a temporary copy of its own manifest directory and  *)
(* all of them write to one destination repository, while the authors of   *)
(* the images move their tags.  A step of a process is one call to a       *)
(* registry, or all it does with its own files between two such calls.     *)
(*                                                                         *)
(* A place where a manifest refers to an image is a location.  Of the      *)
(* contents of a package only the references at the locations are kept.    *)
(***************************************************************************)
EXTENDS ImageRegistry, Sequences, Functions

CONSTANTS
    Procs,       \* runs of `tape package` with the same --output-image
    Locs,        \* locations in the manifests
    Files,       \* manifest files
    Scanned,     \* Scanned[p][l]: the file and the reference at l in the manifests of p
    Epochs,      \* timestamps
    Epoch,       \* Epoch[p]: the timestamp p puts on its package
    Prefix(_)    \* the first 7 digits of the hash of some contents

ScannedRef == [file : Files, name : Names, tag : Tags \cup {NoTag},
               digest : Digests \cup {NoDigest}]

ASSUME PackageAssumption ==
    /\ IsFiniteSet(Locs)
    /\ Scanned \in [Procs -> [Locs -> ScannedRef]]
    /\ Epoch \in [Procs -> Epochs]

\* Nobody removes a tag that copies have in the destination: the program, which
\* writes them, never does, nor does it know of another user of them.
ASSUME DestAssumption ==
    Dest \in Names => \A t \in Tags \cap (CosignTags \cup AppTags) : NoDigest \notin Versions[Dest][t]

\* An item of an ImageList (manifest/image/image.go): locs are its Sources.
Image == [name : Names, tag : Tags \cup {NoTag}, digest : Digests, locs : SUBSET Locs]

\* A copy to make: which of the lists of CopyImages the image is in, and the image.
Copy == (1..3) \X Image

\* A statement of the attestations about the reference at one location.
Statement == [kind : {"original", "resolved", "replaced"}, loc : Locs, ref : Ref]

\* A package index: the content layer, the attestations, the annotated time.
Package == [contents : [Locs -> Ref], statements : SUBSET Statement, created : Epochs]

\* What a process keeps in memory and in its temporary directory.
Run == [pc : {"idle", "resolve", "related", "relatedToManifests", "copy", "verify",
              "update", "push", "alias", "done", "failed"},
        contents : [Locs -> Ref],     \* references in the temporary copy of the manifests
        unresolved : SUBSET Locs,     \* locations that ResolveDigests has not come to
        resolved : [Locs -> Digests \cup {NoDigest}],
        images : Seq(Image),          \* the list of images after Dedup
        unlisted : SUBSET Image,      \* images that FindRelatedTags has not come to
        related : SUBSET Image,       \* cosign artefacts of the images
        relatedToManifests : SUBSET Image, \* cosign artefacts of their manifests
        copying : SUBSET Copy,        \* the copy that is written and not yet verified
        copied : SUBSET Copy,         \* copies written and verified
        cursor : Nat \ {0},           \* the next image to replace in the manifests
        statements : SUBSET Statement]

VARIABLES
    run,         \* run[p]: the state of process p
    packages,    \* package indexes pushed to Dest
    tagged,      \* packages that a tag config.<hash> points at
    aliased      \* packages that an alias config.<prefix> points at

packageVars == <<packages, tagged, aliased>>
vars == <<run, packageVars, registryVars>>

TypeOK ==
    /\ RegistryTypeOK
    /\ run \in [Procs -> Run]
    /\ packages \subseteq Package
    /\ tagged \subseteq Package
    /\ aliased \subseteq Package

\* The reference an image was found under, and the one it is copied to:
\* cosign artefacts keep their tag, images get app.<hash of name and tag>.
OriginalRef(i) == [name |-> i.name, tag |-> i.tag, digest |-> i.digest]
NewTag(i) == IF i.tag \in CosignTags THEN i.tag ELSE <<i.name, i.tag>>

\* A fault: tag and digest are taken to exclude each other.
NewRefByTag(i) == [name |-> Dest, tag |-> NewTag(i), digest |-> NoDigest]
NewRef(i) == [name |-> Dest, tag |-> NewTag(i), digest |-> i.digest]

Init ==
    /\ RegistryInit
    /\ run = [p \in Procs |->
                [pc |-> "idle",
                 contents |-> [l \in Locs |-> OriginalRef(Scanned[p][l])],
                 unresolved |-> Locs,
                 resolved |-> [l \in Locs |-> NoDigest],
                 images |-> <<>>, unlisted |-> {}, related |-> {}, relatedToManifests |-> {},
                 copying |-> {}, copied |-> {}, cursor |-> 1, statements |-> {}]]
    /\ packages = {} /\ tagged = {} /\ aliased = {}

Become(p, r) == run' = [run EXCEPT ![p] = r]

\* Execute returns at the first error.  Nothing it did so far is undone.
Abort(p) ==
    /\ Become(p, [run[p] EXCEPT !.pc = "failed"])
    /\ UNCHANGED <<packageVars, registryVars>>

-----------------------------------------------------------------------------
(* Load the manifests, scan them for images, resolve the references.       *)

\* GetImages: an item for each location of the temporary copy as it is now.
GetImages(r) == {[name |-> r.contents[l].name, tag |-> r.contents[l].tag,
                  digest |-> r.contents[l].digest, locs |-> {l}] : l \in Locs}

\* One statement for each source of each image.
Statements(kind, is) ==
    UNION {{[kind |-> kind, loc |-> l, ref |-> OriginalRef(i)] : l \in i.locs} : i \in is}

Load(p) ==
    LET r == run[p] IN
    /\ r.pc = "idle"
    /\ Become(p, [r EXCEPT !.pc = "resolve",
                           !.statements = Statements("original", GetImages(r))])
    /\ UNCHANGED <<packageVars, registryVars>>

\* A fault: a tag that the registry does not know is left unresolved.
AnyAnswer(ref) == TRUE
Resolves(ref) == Digest(ref) # NoDigest /\ ref.digest \in {NoDigest, Digest(ref)}

\* One lookup for each location, even where references are equal.
ResolveDigest(p, l) ==
    LET r == run[p] IN
    /\ r.pc = "resolve" /\ l \in r.unresolved
    /\ IF Resolves(r.contents[l])
       THEN /\ Become(p, [r EXCEPT !.resolved[l] = Digest(r.contents[l]),
                                   !.unresolved = @ \ {l}])
            /\ UNCHANGED <<packageVars, registryVars>>
       ELSE Abort(p)

SameItem(r, l, m) == r.contents[l] = r.contents[m] /\ r.resolved[l] = r.resolved[m]

\* A fault: the key of the merge is the reference alone, and one digest wins.
ItemOfReference(r, l) ==
    LET same == {m \in Locs : r.contents[l] = r.contents[m]}
    IN  [name |-> r.contents[l].name, tag |-> r.contents[l].tag,
         digest |-> r.resolved[CHOOSE m \in same : TRUE], locs |-> same]

\* The item that Dedup merges location l into.
ItemOf(r, l) == [name |-> r.contents[l].name, tag |-> r.contents[l].tag,
                 digest |-> r.resolved[l], locs |-> {m \in Locs : SameItem(r, l, m)}]

Items(r) == {ItemOf(r, l) : l \in Locs}

ItemsOf(r) == {r.images[k] : k \in DOMAIN r.images}

\* The lists of all elements of a set S, each once.
Orderings(S) == Surjection(1..Cardinality(S), S)

\* Dedup returns the items in the order of a Go map, which can be any.
Dedup(p) ==
    LET r == run[p] IN
    /\ r.pc = "resolve" /\ r.unresolved = {}
    /\ \E is \in Orderings(Items(r)) :
         Become(p, [r EXCEPT !.pc = "related", !.images = is, !.unlisted = Items(r),
                             !.statements = @ \cup Statements("resolved", Items(r))])
    /\ UNCHANGED <<packageVars, registryVars>>

-----------------------------------------------------------------------------
(* Find the cosign artefacts of the images, then those of the manifests    *)
(* that the images list.                                                   *)

\* A fault: the artefacts of all images of a repository are taken for those of one.
RelatedToName(i) == {[name |-> i.name, tag |-> t, digest |-> tags[i.name][t], locs |-> {}] :
                       t \in {u \in CosignTags : tags[i.name][u] # NoDigest}}

RelatedTo(i) == {[name |-> i.name, tag |-> t, digest |-> tags[i.name][t], locs |-> {}] :
                   t \in ListRelated(i.name, i.digest)}

\* AppendWithRelationTo refuses a reference that is in the list already.
FindRelatedTags(p, i) ==
    LET r == run[p] IN
    /\ r.pc = "related" /\ i \in r.unlisted
    /\ IF RelatedTo(i) \cap r.related = {}
       THEN /\ Become(p, [r EXCEPT !.unlisted = @ \ {i}, !.related = @ \cup RelatedTo(i)])
            /\ UNCHANGED <<packageVars, registryVars>>
       ELSE Abort(p)

FindRelatedToManifests(p, i) ==
    LET r == run[p] IN
    /\ r.pc = "relatedToManifests" /\ i \in r.unlisted
    /\ IF RelatedTo(i) \cap r.relatedToManifests = {}
       THEN /\ Become(p, [r EXCEPT !.unlisted = @ \ {i},
                                   !.relatedToManifests = @ \cup RelatedTo(i)])
            /\ UNCHANGED <<packageVars, registryVars>>
       ELSE Abort(p)

\* The manifests an image lists, under the name of the image.
ManifestsOf(i) == {[name |-> i.name, tag |-> NoTag, digest |-> d, locs |-> {}] :
                     d \in IndexOf[i.digest]}

\* GetIndexOrImage returns no index for an image of a single platform.
IsIndex(i) == IndexOf[i.digest] # {}

\* An image that is no index is an error, and so is a manifest that is
\* listed by two of the images under the same name.
FindIndexManifests(p) ==
    LET r == run[p]
        is == ItemsOf(r)
    IN
    /\ r.pc = "related" /\ r.unlisted = {}
    /\ IF /\ \A i \in is : IsIndex(i)
          /\ \A i, j \in is : i # j => ManifestsOf(i) \cap ManifestsOf(j) = {}
       THEN /\ Become(p, [r EXCEPT !.pc = "relatedToManifests",
                                   !.unlisted = UNION {ManifestsOf(i) : i \in is}])
            /\ UNCHANGED <<packageVars, registryVars>>
       ELSE Abort(p)

-----------------------------------------------------------------------------
(* Copy the images, then their cosign artefacts, then those of their       *)
(* manifests; by digest, one after the other, each verified.               *)

BeginCopy(p) ==
    LET r == run[p] IN
    /\ r.pc = "relatedToManifests" /\ r.unlisted = {}
    /\ Become(p, [r EXCEPT !.pc = "copy"])
    /\ UNCHANGED <<packageVars, registryVars>>

\* A fault: the third list is forgotten.
LeftOfTwo(r) == (({1} \X ItemsOf(r)) \cup ({2} \X r.related)) \ r.copied

\* The copies that are left to make, in the three lists.
Left(r) == (({1} \X ItemsOf(r)) \cup ({2} \X r.related) \cup ({3} \X r.relatedToManifests)) \ r.copied

\* One list comes after the other, the images in their order; the order in
\* which FindRelatedTags returns its list can be any.
Precedes(r, c, d) ==
    \/ c[1] < d[1]
    \/ /\ c[1] = 1 /\ d[1] = 1
       /\ \E j, k \in DOMAIN r.images : j < k /\ r.images[j] = c[2] /\ r.images[k] = d[2]

NextCopies(r) == {c \in Left(r) : \A d \in Left(r) : ~Precedes(r, d, c)}

\* Writes the manifests and the tag in the destination.
CopyImage(p, c) ==
    LET r == run[p] IN
    /\ r.pc = "copy" /\ c \in NextCopies(r)
    /\ Push(c[2].digest, NewTag(c[2]))
    /\ Become(p, [r EXCEPT !.pc = "verify", !.copying = {c}])
    /\ UNCHANGED packageVars

\* A fault: a copy whose tag has been moved meanwhile is made again.
VerifyCopyAgain(p) ==
    LET r == run[p] IN
    /\ r.pc = "verify"
    /\ IF \A c \in r.copying : tags[Dest][NewTag(c[2])] = c[2].digest
       THEN Become(p, [r EXCEPT !.pc = "copy", !.copied = @ \cup r.copying, !.copying = {}])
       ELSE Become(p, [r EXCEPT !.pc = "copy", !.copying = {}])
    /\ UNCHANGED <<packageVars, registryVars>>

\* Reads the tag back: another process may have moved it.
VerifyCopy(p) ==
    LET r == run[p] IN
    /\ r.pc = "verify"
    /\ IF \A c \in r.copying : tags[Dest][NewTag(c[2])] = c[2].digest
       THEN /\ Become(p, [r EXCEPT !.pc = "copy", !.copied = @ \cup r.copying, !.copying = {}])
            /\ UNCHANGED <<packageVars, registryVars>>
       ELSE Abort(p)

-----------------------------------------------------------------------------
(* Replace the references in the manifests, scan them again.               *)

BeginUpdate(p) ==
    LET r == run[p] IN
    /\ r.pc = "copy" /\ Left(r) = {}
    /\ Become(p, [r EXCEPT !.pc = "update"])
    /\ UNCHANGED <<packageVars, registryVars>>

\* The files that the sources of an image are in: GroupByManifest.
FilesOf(p, i) == {Scanned[p][l].file : l \in i.locs}

\* A fault: a filter is applied to all manifests.
MatchesAnywhere(p, i, l) == run[p].contents[l].name = i.name

\* The imagetag filter of image i goes through the whole of each of its files
\* and replaces every reference with the name of i, whatever its tag and digest.
Matches(p, i, l) ==
    /\ Scanned[p][l].file \in FilesOf(p, i)
    /\ run[p].contents[l].name = i.name

\* The filters run one after the other, in the order of the list of images.
ReplaceImage(p) ==
    LET r == run[p]
        i == r.images[r.cursor]
    IN
    /\ r.pc = "update" /\ r.cursor \in DOMAIN r.images
    /\ Become(p, [r EXCEPT !.cursor = @ + 1,
                           !.contents = [l \in Locs |-> IF Matches(p, i, l) THEN NewRef(i)
                                                        ELSE @[l]]])
    /\ UNCHANGED <<packageVars, registryVars>>

\* A fault: the statements are made from the images found before the update.
ReplacedFromImages(r) == Statements("replaced", ItemsOf(r))
Replaced(r) == Statements("replaced", GetImages(r))

Rescan(p) ==
    LET r == run[p] IN
    /\ r.pc = "update" /\ r.cursor \notin DOMAIN r.images
    /\ Become(p, [r EXCEPT !.pc = "push", !.statements = @ \cup Replaced(r)])
    /\ UNCHANGED <<packageVars, registryVars>>

-----------------------------------------------------------------------------
(* Push the package: the index with its full tag, then the alias.          *)

PackageOf(p) == [contents |-> run[p].contents, statements |-> run[p].statements,
                 created |-> Epoch[p]]

\* A fault: the alias is pointed at the index before the index is pushed.
WriteAliasFirst(p) ==
    LET x == PackageOf(p) IN
    /\ run[p].pc = "push"
    /\ aliased' = {y \in aliased : Prefix(y.contents) # Prefix(x.contents)} \cup {x}
    /\ Become(p, [run[p] EXCEPT !.pc = "alias"])
    /\ UNCHANGED <<packages, tagged, registryVars>>

\* The tag is made of the hash of the contents alone: it moves to x from a
\* package with the same contents and other attestations or another time.
WriteIndex(p) ==
    LET x == PackageOf(p) IN
    /\ run[p].pc = "push"
    /\ packages' = packages \cup {x}
    /\ tagged' = {y \in tagged : y.contents # x.contents} \cup {x}
    /\ Become(p, [run[p] EXCEPT !.pc = "alias"])
    /\ UNCHANGED <<aliased, registryVars>>

\* The alias is a second request, and moves from any package with the prefix.
TagAlias(p) ==
    LET x == PackageOf(p) IN
    /\ run[p].pc = "alias"
    /\ aliased' = {y \in aliased : Prefix(y.contents) # Prefix(x.contents)} \cup {x}
    /\ Become(p, [run[p] EXCEPT !.pc = "done"])
    /\ UNCHANGED <<packages, tagged, registryVars>>

-----------------------------------------------------------------------------
\* The process is killed, or a call fails: in any step but the last.
Fail(p) == run[p].pc \notin {"done", "failed"} /\ Abort(p)

Step(p) ==
    \/ Load(p)
    \/ \E l \in Locs : ResolveDigest(p, l)
    \/ Dedup(p)
    \/ \E i \in run[p].unlisted : FindRelatedTags(p, i) \/ FindRelatedToManifests(p, i)
    \/ FindIndexManifests(p)
    \/ BeginCopy(p)
    \/ \E c \in NextCopies(run[p]) : CopyImage(p, c)
    \/ VerifyCopy(p)
    \/ BeginUpdate(p)
    \/ ReplaceImage(p)
    \/ Rescan(p)
    \/ WriteIndex(p)
    \/ TagAlias(p)

Author == \E n \in Names : \E t \in Tags : Retag(n, t) /\ UNCHANGED <<run, packageVars>>

Next ==
    \/ \E p \in Procs : Step(p) \/ Fail(p)
    \/ Author

Spec == Init /\ [][Next]_vars

\* A process goes on unless it is killed; nothing obliges the authors.
Fairness == \A p \in Procs : WF_vars(Step(p))
FairSpec == Spec /\ Fairness

\* Runs that nothing happens to: no call fails, no tag is moved by authors.
UndisturbedSpec == Init /\ [][\E p \in Procs : Step(p)]_vars

-----------------------------------------------------------------------------
(* Properties.                                                             *)

\* A package is self-contained: each of its image references names the
\* destination repository and carries the digest of a manifest that is there,
\* with all manifests that one lists, whatever other processes push, wherever
\* tags move and whenever a run fails (CopyImages, Update, PushArtefact).
ClosedPackages ==
    \A x \in packages : \A l \in Locs :
        LET ref == x.contents[l] IN
        /\ ref.name = Dest
        /\ ref.digest \in stored[Dest]
        /\ IndexOf[ref.digest] \subseteq stored[Dest]

\* The filters cannot take location l for another: all references of its file
\* with its name, or the name it is about to get, were resolved to one digest.
Unambiguous(p, l) ==
    \A m \in Locs :
        /\ Scanned[p][m].file = Scanned[p][l].file
        /\ Scanned[p][m].name \in {Scanned[p][l].name, Dest}
        => run[p].resolved[m] = run[p].resolved[l]

\* A location that is unambiguous in its file ends up with the digest it was
\* resolved to: not one that its tag had before or has now, and not that of
\* an equal reference in another file that was looked up at another time
\* (ResolveDigests, Dedup, Update).
VersionsKept ==
    \A p \in Procs : \A l \in Locs :
        run[p].pc \in {"push", "alias", "done"} /\ Unambiguous(p, l) =>
            run[p].contents[l].digest = run[p].resolved[l]

\* The attestations of a package tell one story for each location: it has one
\* statement of each kind, the resolved reference is the original one with a
\* digest, which is in the destination too, and the replaced one is what the
\* manifests of the package say (Make...ImageRefStatements, GetImages).
AttestedPackages ==
    \A x \in packages : \A l \in Locs :
        \E orig, res, repl \in x.statements :
            /\ {s \in x.statements : s.loc = l} = {orig, res, repl}
            /\ orig.kind = "original" /\ res.kind = "resolved" /\ repl.kind = "replaced"
            /\ orig.ref.digest \in {NoDigest, res.ref.digest}
            /\ orig.ref = [res.ref EXCEPT !.digest = orig.ref.digest]
            /\ res.ref.digest \in stored[Dest]
            /\ repl.ref = x.contents[l]

\* When the manifests are about to be updated, every cosign artefact that was
\* found is in the destination and a tag of its name is there, be it one that
\* another process has moved since (FindRelatedTags, CopyImages).
RelatedCopied ==
    \A p \in Procs : run[p].pc \in {"update", "push", "alias", "done"} =>
        \A i \in run[p].related \cup run[p].relatedToManifests :
            i.digest \in stored[Dest] /\ tags[Dest][i.tag] # NoDigest

\* The destination repository as its readers see it: TapedRegistry.
Taped == INSTANCE TapedRegistry WITH images <- stored[Dest]
TapedSpec == Taped!Spec

\* Every run that is started ends, done or failed, also when two processes
\* keep moving the same tag (CopyImages does not retry).
Termination == \A p \in Procs : <>(run[p].pc \in {"done", "failed"})

\* The phases of a run in their order; copies are written and verified in one.
Phase(r) ==
    CASE r.pc = "idle" -> 0
      [] r.pc = "resolve" -> 1
      [] r.pc = "related" -> 2
      [] r.pc = "relatedToManifests" -> 3
      [] r.pc \in {"copy", "verify"} -> 4
      [] r.pc = "update" -> 5
      [] r.pc = "push" -> 6
      [] r.pc = "alias" -> 7
      [] r.pc \in {"done", "failed"} -> 8

\* What is left to do in it.
Work(r) ==
    CASE r.pc = "resolve" -> r.unresolved
      [] r.pc \in {"related", "relatedToManifests"} -> r.unlisted
      [] r.pc \in {"copy", "verify"} ->
           (Left(r) \X {"verify"}) \cup ((Left(r) \ r.copying) \X {"write"})
      [] r.pc = "update" -> r.cursor..Len(r.images)
      [] OTHER -> {}

\* A run never goes back, nor does a lookup, a copy or a filter again, whatever
\* other processes do to the same tags: each of its steps ends the phase or
\* leaves strictly less to do in it (Execute; Copy does not retry).
RunsAdvance ==
    [][\A p \in Procs : run'[p] # run[p] =>
          \/ Phase(run'[p]) > Phase(run[p])
          \/ /\ Phase(run'[p]) = Phase(run[p])
             /\ Work(run'[p]) \subseteq Work(run[p]) /\ Work(run'[p]) # Work(run[p])]_vars

\* Reasons for an error: a reference that leads nowhere; an image of a single
\* platform; two references to one repository whose images list a common
\* manifest; a tag that someone else copies another image to, or moves.
LeadsNowhere(p) == \E l \in run[p].unresolved : ~Resolves(OriginalRef(Scanned[p][l]))
SinglePlatform(p) == \E l \in Locs : IndexOf[run[p].resolved[l]] = {}
CommonManifest(p) ==
    \E l, m \in Locs :
        /\ Scanned[p][l].name = Scanned[p][m].name
        /\ OriginalRef(Scanned[p][l]) # OriginalRef(Scanned[p][m]) \/ run[p].resolved[l] # run[p].resolved[m]
        /\ IndexOf[run[p].resolved[l]] \cap IndexOf[run[p].resolved[m]] # {}

\* The digests that process p has copied under tag t, and those that other
\* users of the destination put there.
CopiedUnder(p, t) == {c[2].digest : c \in {d \in run[p].copied \cup run[p].copying : NewTag(d[2]) = t}}
Others(t) == IF Dest \in Names /\ t \in Tags THEN Versions[Dest][t] ELSE {}
TagTaken(p) ==
    \E c \in run[p].copying :
        \E d \in (UNION {CopiedUnder(q, NewTag(c[2])) : q \in Procs \ {p}}) \cup Others(NewTag(c[2])) :
            d # c[2].digest

\* Packaging that is not interrupted ends with an error for one of these reasons
\* only, in the phase it is about: images that have nothing in common but their
\* repository, artefact or file never stand in each other's way, and artefacts
\* of manifests are never refused (FindRelatedTags, FindRelatedFromIndecies,
\* AppendWithRelationTo, Copy).
RefusedForAReason ==
    [][\A p \in Procs : run[p].pc # "failed" /\ run'[p].pc = "failed" /\ Step(p) =>
          \/ run[p].pc = "resolve" /\ LeadsNowhere(p)
          \/ run[p].pc = "related" /\ (SinglePlatform(p) \/ CommonManifest(p))
          \/ run[p].pc = "verify" /\ TagTaken(p)]_vars

\* When the manifests are about to be updated, a cosign tag in the destination
\* leads to the artefact that was found under it, unless something else has been
\* copied to that tag, or put there (doSetNewImageRef, CopyImages).
RelatedTagsKept ==
    \A p \in Procs : run[p].pc \in {"update", "push", "alias", "done"} =>
        \A i \in run[p].related \cup run[p].relatedToManifests :
            (UNION {CopiedUnder(q, i.tag) : q \in Procs}) \cup Others(i.tag) \subseteq {i.digest} =>
                tags[Dest][i.tag] = i.digest

\* A digest that the author wrote is used if all references of the file that
\* the filters could take for this one have the same digest written, whatever
\* their tags point at (doResolveDigest, Dedup, doUpdate).
PinnedKept ==
    \A p \in Procs : \A l \in Locs :
        /\ run[p].pc \in {"push", "alias", "done"}
        /\ Scanned[p][l].digest # NoDigest
        /\ \A m \in Locs : /\ Scanned[p][m].file = Scanned[p][l].file
                           /\ Scanned[p][m].name \in {Scanned[p][l].name, Dest}
                           => Scanned[p][m].digest = Scanned[p][l].digest
        => run[p].contents[l].digest = Scanned[p][l].digest

\* README.md:62, "If an image reference contains a digest, Tape will use it":
\* the manifests of a package keep the digests the author wrote (doUpdate).
PinnedDigestUsed ==
    \A p \in Procs : \A l \in Locs :
        run[p].pc = "done" /\ Scanned[p][l].digest # NoDigest =>
            run[p].contents[l].digest = Scanned[p][l].digest

\* README.md:64, "Tape will make a copy of every application image and any tags
\* related to it": in a destination that only this process writes to, the tag
\* of a cosign artefact leads to the copy of that artefact (doSetNewImageRef).
RelatedTagsCopied ==
    \A p \in Procs : run[p].pc = "done" =>
        \A i \in run[p].related \cup run[p].relatedToManifests :
            tags[Dest][i.tag] = i.digest

\* README.md:64-65, "Tape will make a copy of every application image" and
\* "Once images are copied, it updates manifests": manifests whose images are
\* all there are packaged, whatever images they refer to and however
\* (FindRelatedFromIndecies, AppendWithRelationTo).
NothingRefused == \A p \in Procs : run[p].pc # "failed"
=============================================================================
