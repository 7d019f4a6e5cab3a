--------------------------- MODULE TapePackageProof ---------------------------
(***************************************************************************)
(* Proofs about TapePackage, for every number of processes, manifests and  *)
(* images.                                                                 *)
(***************************************************************************)
EXTENDS TapePackage, FiniteSetTheorems, TLAPS

\* d can be run from the destination: it is there with all that it lists.
Held(d) == d \in stored[Dest] /\ IndexOf[d] \subseteq stored[Dest]

\* The manifests are as they were scanned until the update begins.
ScannedInv(p) ==
    run[p].pc \in {"idle", "resolve", "related", "relatedToManifests", "copy", "verify"} =>
        /\ run[p].contents = [l \in Locs |-> OriginalRef(Scanned[p][l])]
        /\ run[p].cursor = 1

\* A location that has been looked up has a digest.
ResolvedInv(p) == \A l \in Locs \ run[p].unresolved : run[p].resolved[l] \in Digests

\* After Dedup every location is in an item, with its name and its digest.
ImagesInv(p) ==
    run[p].pc \notin {"idle", "resolve", "failed"} =>
        /\ \A l \in Locs : \E k \in DOMAIN run[p].images : l \in run[p].images[k].locs
        /\ \A k \in DOMAIN run[p].images : \A l \in run[p].images[k].locs :
             /\ run[p].images[k].name = Scanned[p][l].name
             /\ run[p].images[k].digest = run[p].resolved[l]

\* What has been copied is held, and no image is left out.
CopiedInv(p) ==
    /\ \A c \in run[p].copied \cup run[p].copying : Held(c[2].digest)
    /\ run[p].pc \in {"update", "push", "alias", "done"} =>
         \A k \in DOMAIN run[p].images : Held(run[p].images[k].digest)

\* The reference at l is that of an image, the right one if it can be told.
ReplacedAt(p, l) ==
    \E k \in DOMAIN run[p].images :
        /\ run[p].contents[l] = NewRef(run[p].images[k])
        /\ Unambiguous(p, l) => run[p].images[k].digest = run[p].resolved[l]

\* The filter of the item that l is in has not run.
AwaitsReplacement(p, l) ==
    /\ run[p].contents[l] = OriginalRef(Scanned[p][l])
    /\ \A k \in DOMAIN run[p].images : k < run[p].cursor => l \notin run[p].images[k].locs

\* During the update a location keeps its reference until the filter of its
\* own item, or of an item of the same name before it, has run.
UpdateInv(p) ==
    /\ run[p].pc = "update" => \A l \in Locs : ReplacedAt(p, l) \/ AwaitsReplacement(p, l)
    /\ run[p].pc \in {"push", "alias", "done"} => \A l \in Locs : ReplacedAt(p, l)

\* The package is there before its alias is.
PushedInv(p) == run[p].pc \in {"alias", "done"} => PackageOf(p) \in packages

RunInv(p) ==
    /\ run[p] \in Run
    /\ ScannedInv(p) /\ ResolvedInv(p) /\ ImagesInv(p)
    /\ CopiedInv(p) /\ UpdateInv(p) /\ PushedInv(p)

PackagesInv ==
    /\ packages \subseteq Package /\ tagged \subseteq Package /\ aliased \subseteq Package
    /\ ClosedPackages

\* The inductive invariant.
IInv ==
    /\ RegistryTypeOK
    /\ run \in [Procs -> Run]
    /\ \A p \in Procs : RunInv(p)
    /\ PackagesInv

-----------------------------------------------------------------------------
(* The registry.                                                           *)

\* A lookup answers a digest or NoDigest (oci/oci.go Digest).
LEMMA DigestType ==
    ASSUME RegistryTypeOK, NEW ref \in Ref
    PROVE  Digest(ref) \in Digests \cup {NoDigest}
  BY RegistryAssumption DEF RegistryTypeOK, Digest, TagOf, Ref, AllTags

\* The reference and the new tag of an image are well formed (doSetNewImageRef).
LEMMA RefTypes ==
    ASSUME NEW i \in Image
    PROVE  OriginalRef(i) \in Ref /\ NewRef(i) \in Ref /\ NewTag(i) \in AllTags
  <1>1. i.name \in Names /\ i.tag \in Tags \cup {NoTag} /\ i.digest \in Digests
    BY DEF Image
  <1>2. NewTag(i) \in AllTags
    BY <1>1, RegistryAssumption DEF NewTag, AllTags, AppTags
  <1> QED BY <1>1, <1>2 DEF OriginalRef, NewRef, Ref, Repos, AllTags

\* A copy adds manifests of the destination (oci/oci.go Copy).
LEMMA PushType ==
    ASSUME RegistryTypeOK, NEW d \in Digests, NEW t \in AllTags, Push(d, t)
    PROVE  /\ RegistryTypeOK'
           /\ d \in stored'[Dest] /\ IndexOf[d] \subseteq stored'[Dest]
           /\ \A r \in Repos : stored[r] \subseteq stored'[r]
  BY RegistryAssumption DEF RegistryTypeOK, Push, Repos

\* An author moves a tag to another manifest, or removes it: the registry keeps its
\* types and what the destination holds.
LEMMA RetagType ==
    ASSUME RegistryTypeOK, NEW n \in Names, NEW t \in Tags, Retag(n, t)
    PROVE  RegistryTypeOK' /\ stored' = stored
  <1>1. PICK d \in Versions[n][t] : tags' = [tags EXCEPT ![n][t] = d]
    BY DEF Retag
  <1>2. d \in Digests \cup {NoDigest}
    BY RegistryAssumption
  <1>3. tags' \in [Repos -> [AllTags -> Digests \cup {NoDigest}]]
    BY <1>1, <1>2 DEF RegistryTypeOK, AllTags, Repos
  <1>4. retags' \in 0..MaxRetags /\ stored' = stored
    BY RegistryAssumption DEF Retag, RegistryTypeOK
  <1> QED BY <1>3, <1>4 DEF RegistryTypeOK

\* The artefacts found for an image are images themselves (FindRelatedTags).
LEMMA RelatedToType ==
    ASSUME RegistryTypeOK, NEW i \in Image
    PROVE  RelatedTo(i) \subseteq Image
  <1> SUFFICES ASSUME NEW t \in ListRelated(i.name, i.digest)
               PROVE  [name |-> i.name, tag |-> t, digest |-> tags[i.name][t], locs |-> {}] \in Image
    BY DEF RelatedTo
  <1>1. i.name \in Names /\ i.name \in Repos
    BY DEF Image, Repos
  <1>2. t \in CosignTags /\ t \in Tags /\ t \in AllTags /\ tags[i.name][t] # NoDigest
    BY RegistryAssumption DEF ListRelated, AllTags
  <1>3. tags[i.name][t] \in Digests
    BY <1>1, <1>2 DEF RegistryTypeOK
  <1> QED BY <1>1, <1>2, <1>3 DEF Image

\* The manifests of an index are images themselves (FindRelatedFromIndecies).
LEMMA ManifestsOfType ==
    ASSUME NEW i \in Image
    PROVE  ManifestsOf(i) \subseteq Image
  BY RegistryAssumption DEF ManifestsOf, Image

-----------------------------------------------------------------------------
(* What a step of one process leaves alone.                                *)

\* Nothing is removed from a repository, so what is held stays held.
LEMMA HeldStays ==
    ASSUME RegistryTypeOK, \A r \in Repos : stored[r] \subseteq stored'[r], NEW d, Held(d)
    PROVE  Held(d)'
  BY DEF Held, Repos

\* A step of p keeps the invariant of the other processes.
LEMMA RunsKept ==
    ASSUME IInv, NEW p \in Procs, run' = [run EXCEPT ![p] = run'[p]], RunInv(p)',
           \A r \in Repos : stored[r] \subseteq stored'[r],
           packages \subseteq packages'
    PROVE  run' \in [Procs -> Run] /\ \A q \in Procs : RunInv(q)'
  <1>1. run'[p] \in Run
    BY DEF RunInv
  <1>2. run' \in [Procs -> Run]
    BY <1>1 DEF IInv
  <1>3. ASSUME NEW q \in Procs, q # p PROVE RunInv(q)'
    <2>1. run'[q] = run[q] /\ RunInv(q)
      BY <1>3 DEF IInv
    <2>2. ScannedInv(q)' /\ ResolvedInv(q)' /\ ImagesInv(q)'
      BY <2>1 DEF RunInv, ScannedInv, ResolvedInv, ImagesInv
    <2>3. CopiedInv(q)'
      BY <2>1, HeldStays DEF RunInv, CopiedInv, IInv
    <2>4. UpdateInv(q)'
      BY <2>1 DEF RunInv, UpdateInv, ReplacedAt, AwaitsReplacement, Unambiguous
    <2>5. PushedInv(q)'
      BY <2>1 DEF RunInv, PushedInv, PackageOf
    <2> QED BY <1>2, <2>1, <2>2, <2>3, <2>4, <2>5 DEF RunInv
  <1> QED BY <1>2, <1>3

\* A step of p that touches neither the registry nor the packages.
LEMMA LocalStep ==
    ASSUME IInv, NEW p \in Procs, run' = [run EXCEPT ![p] = run'[p]], RunInv(p)',
           UNCHANGED <<packageVars, registryVars>>
    PROVE  IInv'
  <1>2. RegistryTypeOK' /\ PackagesInv'
    BY DEF IInv, packageVars, registryVars, RegistryTypeOK, PackagesInv, ClosedPackages
  <1>3. (\A s \in Repos : stored[s] \subseteq stored'[s]) /\ packages \subseteq packages'
    BY DEF packageVars, registryVars
  <1> QED BY <1>2, <1>3, RunsKept DEF IInv

\* A failed process has nothing left to keep but its types.
LEMMA AbortStep ==
    ASSUME IInv, NEW p \in Procs, Abort(p)
    PROVE  IInv'
  <1>1. /\ run'[p] = [run[p] EXCEPT !.pc = "failed"]
        /\ run' = [run EXCEPT ![p] = run'[p]]
    BY DEF IInv, Abort, Become
  <1>2. RunInv(p)
    BY DEF IInv
  <1>3. RunInv(p)'
    BY <1>1, <1>2 DEF RunInv, Run, ScannedInv, ResolvedInv, ImagesInv, CopiedInv, UpdateInv,
          PushedInv, Abort, registryVars, Held
  <1> QED BY <1>1, <1>3, LocalStep DEF Abort

-----------------------------------------------------------------------------
(* The steps, in the order in which a process takes them.                  *)

\* The invariant of p, and what the steps that only write run do to it.
LEMMA BecomeEffect ==
    ASSUME IInv, NEW p \in Procs, NEW r \in Run, Become(p, r)
    PROVE  run'[p] = r /\ run' = [run EXCEPT ![p] = run'[p]]
  BY DEF IInv, Become

\* The invariant holds before any process has started.
LEMMA InitIInv == Init => IInv
  <1> SUFFICES ASSUME Init PROVE IInv
    OBVIOUS
  <1>1. RegistryTypeOK
    BY RegistryAssumption DEF Init, RegistryInit, RegistryTypeOK, PushedBy, AllTags
  <1>2. ASSUME NEW p \in Procs PROVE RunInv(p)
    <2>1. \A l \in Locs : OriginalRef(Scanned[p][l]) \in Ref
      BY PackageAssumption DEF ScannedRef, OriginalRef, Ref, Repos, AllTags
    <2>2. run[p] \in Run
      BY <2>1, <1>2 DEF Init, Run
    <2> QED BY <2>2, <1>2 DEF Init, RunInv, ScannedInv, ResolvedInv, ImagesInv, CopiedInv,
            UpdateInv, PushedInv
  <1>3. run \in [Procs -> Run]
    BY <1>2 DEF Init, RunInv
  <1>4. PackagesInv
    BY DEF Init, PackagesInv, ClosedPackages
  <1> QED BY <1>1, <1>2, <1>3, <1>4 DEF IInv

\* Statements about images at locations are statements.
LEMMA StatementsType ==
    ASSUME NEW kind \in {"original", "resolved", "replaced"}, NEW is,
           \A i \in is : OriginalRef(i) \in Ref /\ i.locs \subseteq Locs
    PROVE  Statements(kind, is) \subseteq Statement
  BY DEF Statements, Statement

\* Scanning a manifest directory gives images of the locations (GetImages).
LEMMA GetImagesType ==
    ASSUME NEW r \in Run
    PROVE  \A i \in GetImages(r) : OriginalRef(i) \in Ref /\ i.locs \subseteq Locs
  BY DEF GetImages, Run, OriginalRef, Ref

\* Loading and scanning the manifests keeps the invariant (Execute).
LEMMA LoadStep ==
    ASSUME IInv, NEW p \in Procs, Load(p)
    PROVE  IInv'
  <1> DEFINE r == [run[p] EXCEPT !.pc = "resolve",
                                 !.statements = Statements("original", GetImages(run[p]))]
  <1>1. RunInv(p) /\ run[p] \in Run
    BY DEF IInv, RunInv
  <1>2. Statements("original", GetImages(run[p])) \subseteq Statement
    BY <1>1, StatementsType, GetImagesType
  <1>3. r \in Run
    BY <1>1, <1>2 DEF Run
  <1>4. run'[p] = r /\ run' = [run EXCEPT ![p] = run'[p]]
    BY <1>3 DEF Load, IInv, Become
  <1>5. RunInv(p)'
    BY <1>1, <1>3, <1>4 DEF RunInv, Run, ScannedInv, ResolvedInv, ImagesInv, CopiedInv, UpdateInv,
          PushedInv, Load, registryVars, Held
  <1> QED BY <1>4, <1>5, LocalStep DEF Load

\* Resolving the reference at one location keeps the invariant (doResolveDigest).
LEMMA ResolveDigestStep ==
    ASSUME IInv, NEW p \in Procs, NEW l \in Locs, ResolveDigest(p, l)
    PROVE  IInv'
  <1> DEFINE d == Digest(run[p].contents[l])
             r == [run[p] EXCEPT !.resolved[l] = d, !.unresolved = @ \ {l}]
  <1>1. RunInv(p) /\ run[p] \in Run
    BY DEF IInv, RunInv
  <1>2. CASE ~ Resolves(run[p].contents[l])
    BY <1>2, AbortStep DEF ResolveDigest
  <1>3. CASE Resolves(run[p].contents[l])
    <2>1. d \in Digests
      BY <1>1, <1>3, DigestType DEF IInv, Run, Resolves
    <2>2. r \in Run
      BY <1>1, <2>1 DEF Run
    <2>3. run'[p] = r /\ run' = [run EXCEPT ![p] = run'[p]]
      BY <1>3, <2>2 DEF ResolveDigest, IInv, Become
    <2>4. ResolvedInv(p)'
      BY <1>1, <2>1, <2>3 DEF RunInv, ResolvedInv, Run
    <2>5. run'[p].pc = "resolve" /\ ScannedInv(p)'
      BY <1>1, <2>3 DEF ResolveDigest, RunInv, ScannedInv, Run
    <2>6. CopiedInv(p)'
      BY <1>1, <1>3, <2>3, <2>5 DEF ResolveDigest, RunInv, CopiedInv, Run, registryVars, Held
    <2>7. RunInv(p)'
      BY <2>2, <2>3, <2>4, <2>5, <2>6 DEF RunInv, ImagesInv, UpdateInv, PushedInv
    <2> QED BY <1>3, <2>3, <2>7, LocalStep DEF ResolveDigest
  <1> QED BY <1>2, <1>3

\* After all lookups the items are images, one location in each at least.
LEMMA ItemsType ==
    ASSUME IInv, NEW p \in Procs, run[p].pc = "resolve", run[p].unresolved = {}
    PROVE  /\ Items(run[p]) \subseteq Image
           /\ IsFiniteSet(Items(run[p]))
           /\ \A i \in Items(run[p]) : OriginalRef(i) \in Ref /\ i.locs \subseteq Locs
           /\ \A i \in Items(run[p]) : \A l \in i.locs :
                i.name = Scanned[p][l].name /\ i.digest = run[p].resolved[l]
  <1>1. RunInv(p) /\ run[p] \in Run
    BY DEF IInv, RunInv
  <1>2. run[p].contents = [l \in Locs |-> OriginalRef(Scanned[p][l])]
    BY <1>1 DEF RunInv, ScannedInv
  <1>3. \A l \in Locs : run[p].resolved[l] \in Digests
    BY <1>1 DEF RunInv, ResolvedInv
  <1>4. \A l \in Locs : ItemOf(run[p], l) \in Image
    BY <1>2, <1>3, PackageAssumption DEF ItemOf, Image, ScannedRef, OriginalRef
  <1>5. IsFiniteSet(Items(run[p]))
    <2> DEFINE f == [l \in Locs |-> ItemOf(run[p], l)]
    <2>1. f \in Surjection(Locs, Items(run[p]))
      BY DEF Surjection, Items
    <2> QED BY <2>1, FS_Surjection, PackageAssumption
  <1>6. ASSUME NEW m \in Locs, NEW l \in ItemOf(run[p], m).locs
        PROVE  /\ ItemOf(run[p], m).name = Scanned[p][l].name
               /\ ItemOf(run[p], m).digest = run[p].resolved[l]
    <2>1. l \in Locs /\ run[p].contents[l] = run[p].contents[m]
                     /\ run[p].resolved[l] = run[p].resolved[m]
      BY DEF ItemOf, SameItem
    <2>2. run[p].contents[l].name = Scanned[p][l].name
      BY <1>2, <2>1 DEF OriginalRef
    <2> QED BY <2>1, <2>2 DEF ItemOf
  <1> QED BY <1>4, <1>5, <1>6, RefTypes DEF Items, Image

\* Merging equal references keeps the invariant: every location has its item (Dedup).
LEMMA DedupStep ==
    ASSUME IInv, NEW p \in Procs, Dedup(p)
    PROVE  IInv'
  <1> DEFINE S == Items(run[p])
             r(is) == [run[p] EXCEPT !.pc = "related", !.images = is, !.unlisted = S,
                                     !.statements = @ \cup Statements("resolved", S)]
  <1>1. RunInv(p) /\ run[p] \in Run
    BY DEF IInv, RunInv
  <1>2. PICK is \in Orderings(S) : Become(p, r(is))
    BY DEF Dedup
  <1>3. /\ S \subseteq Image /\ IsFiniteSet(S)
        /\ \A i \in S : \A l \in i.locs :
             i.name = Scanned[p][l].name /\ i.digest = run[p].resolved[l]
        /\ Statements("resolved", S) \subseteq Statement
    BY ItemsType, StatementsType DEF Dedup
  <1>4. /\ is \in Seq(Image) /\ \A k \in DOMAIN is : is[k] \in S
        /\ \A x \in S : \E k \in DOMAIN is : is[k] = x
    BY <1>2, <1>3, FS_CardinalityType DEF Orderings, Surjection
  <1>5. r(is) \in Run
    BY <1>1, <1>3, <1>4 DEF Run
  <1>6. run'[p] = r(is) /\ run' = [run EXCEPT ![p] = run'[p]]
    BY <1>2, <1>5 DEF IInv, Become
  <1>7. run'[p] \in Run /\ run'[p].pc = "related" /\ run'[p].images = is
        /\ run'[p].resolved = run[p].resolved /\ run'[p].unresolved = run[p].unresolved
        /\ run'[p].copied = run[p].copied /\ run'[p].copying = run[p].copying
        /\ run'[p].contents = run[p].contents /\ run'[p].cursor = run[p].cursor
    BY <1>1, <1>5, <1>6 DEF Run
  <1>8. \A l \in Locs : \E k \in DOMAIN is : l \in is[k].locs
    <2> SUFFICES ASSUME NEW l \in Locs PROVE \E k \in DOMAIN is : l \in is[k].locs
      OBVIOUS
    <2>1. l \in ItemOf(run[p], l).locs /\ ItemOf(run[p], l) \in S
      BY DEF Items, ItemOf, SameItem
    <2> QED BY <2>1, <1>4
  <1>9. ImagesInv(p)'
    BY <1>3, <1>4, <1>7, <1>8 DEF ImagesInv
  <1>10. ScannedInv(p)' /\ ResolvedInv(p)'
    BY <1>1, <1>7 DEF RunInv, ScannedInv, ResolvedInv, Dedup
  <1>11. CopiedInv(p)' /\ UpdateInv(p)' /\ PushedInv(p)'
    BY <1>1, <1>7 DEF RunInv, CopiedInv, UpdateInv, PushedInv, Dedup, registryVars, Held
  <1> QED BY <1>6, <1>7, <1>9, <1>10, <1>11, LocalStep DEF RunInv, Dedup

\* The steps between Dedup and the copies change only the lists of artefacts.
LEMMA ListingStep ==
    ASSUME IInv, NEW p \in Procs,
           run[p].pc \in {"related", "relatedToManifests"},
           run' = [run EXCEPT ![p] = run'[p]], run'[p] \in Run,
           run'[p].pc \in {"related", "relatedToManifests", "copy"},
           \A f \in {"contents", "unresolved", "resolved", "images", "copying", "copied", "cursor"} :
              run'[p][f] = run[p][f],
           UNCHANGED <<packageVars, registryVars>>
    PROVE  IInv'
  <1>1. RunInv(p)
    BY DEF IInv
  <1>2. /\ run'[p].contents = run[p].contents /\ run'[p].unresolved = run[p].unresolved
        /\ run'[p].resolved = run[p].resolved /\ run'[p].images = run[p].images
        /\ run'[p].copying = run[p].copying /\ run'[p].copied = run[p].copied
        /\ run'[p].cursor = run[p].cursor
    OBVIOUS
  <1>3. ScannedInv(p)' /\ ResolvedInv(p)' /\ ImagesInv(p)'
    BY <1>1, <1>2 DEF RunInv, ScannedInv, ResolvedInv, ImagesInv
  <1>4. CopiedInv(p)' /\ UpdateInv(p)' /\ PushedInv(p)'
    BY <1>1, <1>2 DEF RunInv, CopiedInv, UpdateInv, PushedInv, registryVars, Held
  <1> QED BY <1>3, <1>4, LocalStep DEF RunInv

\* Listing the cosign tags of an image or manifest keeps the invariant (FindRelatedTags).
LEMMA FindRelatedTagsStep ==
    ASSUME IInv, NEW p \in Procs, NEW i \in run[p].unlisted,
           FindRelatedTags(p, i) \/ FindRelatedToManifests(p, i)
    PROVE  IInv'
  <1>1. run[p] \in Run /\ i \in Image /\ RelatedTo(i) \subseteq Image
    BY RelatedToType DEF IInv, Run
  <1>2. CASE Abort(p)
    BY <1>2, AbortStep
  <1>3. CASE /\ FindRelatedTags(p, i) /\ UNCHANGED <<packageVars, registryVars>>
             /\ Become(p, [run[p] EXCEPT !.unlisted = @ \ {i}, !.related = @ \cup RelatedTo(i)])
    <2> DEFINE r == [run[p] EXCEPT !.unlisted = @ \ {i}, !.related = @ \cup RelatedTo(i)]
    <2>1. r \in Run
      BY <1>1 DEF Run
    <2>2. run'[p] = r /\ run' = [run EXCEPT ![p] = run'[p]]
      BY <1>3, <2>1 DEF IInv, Become
    <2> QED BY <1>1, <1>3, <2>1, <2>2, ListingStep DEF FindRelatedTags, Run
  <1>4. CASE /\ FindRelatedToManifests(p, i) /\ UNCHANGED <<packageVars, registryVars>>
             /\ Become(p, [run[p] EXCEPT !.unlisted = @ \ {i},
                                         !.relatedToManifests = @ \cup RelatedTo(i)])
    <2> DEFINE r == [run[p] EXCEPT !.unlisted = @ \ {i},
                                   !.relatedToManifests = @ \cup RelatedTo(i)]
    <2>1. r \in Run
      BY <1>1 DEF Run
    <2>2. run'[p] = r /\ run' = [run EXCEPT ![p] = run'[p]]
      BY <1>4, <2>1 DEF IInv, Become
    <2> QED BY <1>1, <1>4, <2>1, <2>2, ListingStep DEF FindRelatedToManifests, Run
  <1> QED BY <1>2, <1>3, <1>4 DEF FindRelatedTags, FindRelatedToManifests

\* Listing the manifests of the images keeps the invariant (FindRelatedFromIndecies).
LEMMA FindIndexManifestsStep ==
    ASSUME IInv, NEW p \in Procs, FindIndexManifests(p)
    PROVE  IInv'
  <1> DEFINE ms == UNION {ManifestsOf(i) : i \in ItemsOf(run[p])}
             r == [run[p] EXCEPT !.pc = "relatedToManifests", !.unlisted = ms]
  <1>1. run[p] \in Run
    BY DEF IInv
  <1>2. CASE Abort(p)
    BY <1>2, AbortStep
  <1>3. CASE Become(p, r) /\ UNCHANGED <<packageVars, registryVars>>
    <2>1. ItemsOf(run[p]) \subseteq Image
      BY <1>1 DEF ItemsOf, Run
    <2>2. ms \subseteq Image
      BY <2>1, ManifestsOfType
    <2>3. r \in Run
      BY <1>1, <2>2 DEF Run
    <2>4. run'[p] = r /\ run' = [run EXCEPT ![p] = run'[p]]
      BY <1>3, <2>3 DEF IInv, Become
    <2> QED BY <1>1, <1>3, <2>3, <2>4, ListingStep DEF FindIndexManifests, Run
  <1> QED BY <1>2, <1>3 DEF FindIndexManifests

\* Giving the copies their references keeps the invariant (SetNewImageRefs).
LEMMA BeginCopyStep ==
    ASSUME IInv, NEW p \in Procs, BeginCopy(p)
    PROVE  IInv'
  <1> DEFINE r == [run[p] EXCEPT !.pc = "copy"]
  <1>1. run[p] \in Run /\ r \in Run
    BY DEF IInv, Run
  <1>2. run'[p] = r /\ run' = [run EXCEPT ![p] = run'[p]]
    BY <1>1 DEF BeginCopy, IInv, Become
  <1> QED BY <1>1, <1>2, ListingStep DEF BeginCopy, Run

\* The images of all lists, and so all copies, are well formed.
LEMMA LeftType ==
    ASSUME NEW r \in Run
    PROVE  Left(r) \subseteq Copy
  BY DEF Left, ItemsOf, Copy, Run

\* Copying one image keeps the invariant: it adds to the destination (Copy).
LEMMA CopyImageStep ==
    ASSUME IInv, NEW p \in Procs, NEW c \in NextCopies(run[p]), CopyImage(p, c)
    PROVE  IInv'
  <1> DEFINE r == [run[p] EXCEPT !.pc = "verify", !.copying = {c}]
  <1>1. RunInv(p) /\ run[p] \in Run /\ RegistryTypeOK
    BY DEF IInv, RunInv
  <1>2. c \in Copy /\ c[2] \in Image /\ c[2].digest \in Digests /\ NewTag(c[2]) \in AllTags
    BY <1>1, LeftType, RefTypes DEF NextCopies, Copy, Image
  <1>3. r \in Run
    BY <1>1, <1>2 DEF Run
  <1>4. run'[p] = r /\ run' = [run EXCEPT ![p] = run'[p]]
    BY <1>3 DEF CopyImage, IInv, Become
  <1>5. /\ RegistryTypeOK' /\ Held(c[2].digest)'
        /\ \A s \in Repos : stored[s] \subseteq stored'[s]
    BY <1>1, <1>2, PushType DEF CopyImage, Held
  <1>6. \A d : Held(d) => Held(d)'
    BY <1>1, <1>5, HeldStays
  <1>7. CopiedInv(p)'
    BY <1>1, <1>4, <1>5, <1>6 DEF RunInv, CopiedInv, Run
  <1>8. ScannedInv(p)' /\ ResolvedInv(p)' /\ ImagesInv(p)' /\ UpdateInv(p)' /\ PushedInv(p)'
    BY <1>1, <1>4 DEF RunInv, ScannedInv, ResolvedInv, ImagesInv, UpdateInv, PushedInv, Run,
          CopyImage
  <1>9. run' \in [Procs -> Run] /\ \A q \in Procs : RunInv(q)'
    BY <1>3, <1>4, <1>5, <1>7, <1>8, RunsKept DEF RunInv, CopyImage, packageVars
  <1>10. PackagesInv'
    <2>1. Dest \in Repos
      BY DEF Repos
    <2> QED BY <1>5, <2>1 DEF IInv, PackagesInv, ClosedPackages, CopyImage, packageVars
  <1> QED BY <1>5, <1>9, <1>10 DEF IInv

\* Verifying a copy keeps the invariant: what was copied is held (Copy).
LEMMA VerifyCopyStep ==
    ASSUME IInv, NEW p \in Procs, VerifyCopy(p)
    PROVE  IInv'
  <1> DEFINE r == [run[p] EXCEPT !.pc = "copy", !.copied = @ \cup run[p].copying, !.copying = {}]
  <1>1. RunInv(p) /\ run[p] \in Run
    BY DEF IInv, RunInv
  <1>2. CASE Abort(p)
    BY <1>2, AbortStep
  <1>3. CASE Become(p, r) /\ UNCHANGED <<packageVars, registryVars>>
    <2>1. r \in Run
      BY <1>1 DEF Run
    <2>2. run'[p] = r /\ run' = [run EXCEPT ![p] = run'[p]]
      BY <1>3, <2>1 DEF IInv, Become
    <2>3. RunInv(p)'
      BY <1>1, <1>3, <2>1, <2>2 DEF RunInv, Run, ScannedInv, ResolvedInv, ImagesInv, CopiedInv,
            UpdateInv, PushedInv, VerifyCopy, registryVars, Held
    <2> QED BY <1>3, <2>2, <2>3, LocalStep
  <1> QED BY <1>2, <1>3 DEF VerifyCopy

\* When no copy is left to make all items are in the destination (CopyImages).
LEMMA BeginUpdateStep ==
    ASSUME IInv, NEW p \in Procs, BeginUpdate(p)
    PROVE  IInv'
  <1> DEFINE r == [run[p] EXCEPT !.pc = "update"]
  <1>1. RunInv(p) /\ run[p] \in Run /\ r \in Run
    BY DEF IInv, RunInv, Run
  <1>2. run'[p] = r /\ run' = [run EXCEPT ![p] = run'[p]]
    BY <1>1 DEF BeginUpdate, IInv, Become
  <1>3. \A k \in DOMAIN run[p].images : Held(run[p].images[k].digest)
    <2> SUFFICES ASSUME NEW k \in DOMAIN run[p].images
                 PROVE  Held(run[p].images[k].digest)
      OBVIOUS
    <2>1. <<1, run[p].images[k]>> \in run[p].copied
      BY DEF BeginUpdate, Left, ItemsOf
    <2> QED BY <1>1, <2>1 DEF RunInv, CopiedInv
  <1>4. ScannedInv(p)' /\ ResolvedInv(p)' /\ ImagesInv(p)' /\ PushedInv(p)'
    BY <1>1, <1>2 DEF RunInv, ScannedInv, ResolvedInv, ImagesInv, PushedInv, Run, BeginUpdate
  <1>5. CopiedInv(p)'
    BY <1>1, <1>2, <1>3 DEF RunInv, CopiedInv, Run, BeginUpdate, registryVars, Held
  <1>6. UpdateInv(p)'
    BY <1>1, <1>2 DEF RunInv, ScannedInv, UpdateInv, AwaitsReplacement, Run, BeginUpdate
  <1> QED BY <1>1, <1>2, <1>4, <1>5, <1>6, LocalStep DEF RunInv, BeginUpdate

\* The filter of an image that can be confused with no other at l finds the
\* digest that l was resolved to (doUpdate).
LEMMA MatchesRight ==
    ASSUME IInv, NEW p \in Procs, run[p].pc = "update", NEW l \in Locs,
           NEW k \in DOMAIN run[p].images, Matches(p, run[p].images[k], l), Unambiguous(p, l)
    PROVE  run[p].images[k].digest = run[p].resolved[l]
  <1> DEFINE i == run[p].images[k]
  <1>1. RunInv(p) /\ run[p] \in Run /\ i \in Image
    BY DEF IInv, RunInv, Run
  <1>2. PICK m \in i.locs : Scanned[p][m].file = Scanned[p][l].file
    BY DEF Matches, FilesOf
  <1>3. m \in Locs /\ i.name = Scanned[p][m].name /\ i.digest = run[p].resolved[m]
    BY <1>1, <1>2 DEF RunInv, ImagesInv, Image
  <1>4. run[p].contents[l].name \in {Scanned[p][l].name, Dest}
    <2>1. CASE ReplacedAt(p, l)
      BY <2>1 DEF ReplacedAt, NewRef
    <2>2. CASE AwaitsReplacement(p, l)
      BY <2>2 DEF AwaitsReplacement, OriginalRef
    <2> QED BY <1>1, <2>1, <2>2 DEF RunInv, UpdateInv
  <1> QED BY <1>2, <1>3, <1>4 DEF Matches, Unambiguous

\* One filter keeps the invariant: locations it passed refer to copies (doUpdate).
LEMMA ReplaceImageStep ==
    ASSUME IInv, NEW p \in Procs, ReplaceImage(p)
    PROVE  IInv'
  <1> DEFINE c == run[p].cursor
             i == run[p].images[c]
             new == [l \in Locs |-> IF Matches(p, i, l) THEN NewRef(i) ELSE run[p].contents[l]]
             r == [run[p] EXCEPT !.cursor = @ + 1, !.contents = new]
  <1>1. RunInv(p) /\ run[p] \in Run /\ c \in DOMAIN run[p].images /\ c \in Nat
    BY DEF IInv, RunInv, Run, ReplaceImage
  <1>2. i \in Image /\ NewRef(i) \in Ref
    BY <1>1, RefTypes DEF Run
  <1>3. new \in [Locs -> Ref] /\ r \in Run
    <2>1. run[p].contents \in [Locs -> Ref]
      BY <1>1 DEF Run
    <2>2. new \in [Locs -> Ref]
      BY <1>2, <2>1
    <2>3. c + 1 \in Nat \ {0}
      BY <1>1
    <2> HIDE DEF new
    <2> QED BY <1>1, <2>2, <2>3 DEF Run
  <1>4. run'[p] = r /\ run' = [run EXCEPT ![p] = run'[p]]
    BY <1>3 DEF ReplaceImage, IInv, Become
  <1>5. /\ run'[p].pc = "update" /\ run[p].pc = "update"
        /\ run'[p].contents = new /\ run'[p].cursor = c + 1
        /\ run'[p].images = run[p].images /\ run'[p].resolved = run[p].resolved
        /\ run'[p].unresolved = run[p].unresolved
        /\ run'[p].copied = run[p].copied /\ run'[p].copying = run[p].copying
    BY <1>1, <1>4 DEF ReplaceImage, Run
  <1>6. \A l \in Locs : Unambiguous(p, l)' <=> Unambiguous(p, l)
    BY <1>5 DEF Unambiguous
  <1>7. ASSUME NEW l \in Locs
        PROVE  ReplacedAt(p, l)' \/ AwaitsReplacement(p, l)'
    <2>1. CASE Matches(p, i, l)
      <3>1. run'[p].contents[l] = NewRef(run'[p].images[c])
        BY <1>5, <2>1
      <3>2. Unambiguous(p, l)' => run'[p].images[c].digest = run'[p].resolved[l]
        BY <1>1, <1>5, <1>6, <2>1, MatchesRight
      <3> QED BY <1>1, <1>5, <3>1, <3>2 DEF ReplacedAt
    <2>2. CASE ~ Matches(p, i, l)
      <3>1. run'[p].contents[l] = run[p].contents[l]
        BY <1>5, <2>2
      <3>2. CASE ReplacedAt(p, l)
        BY <1>5, <1>6, <3>1, <3>2 DEF ReplacedAt
      <3>3. CASE AwaitsReplacement(p, l)
        <4>1. l \notin i.locs
          <5> SUFFICES ASSUME l \in i.locs PROVE Matches(p, i, l)
            BY <2>2
          <5>1. i.name = Scanned[p][l].name
            BY <1>1, <1>5 DEF RunInv, ImagesInv
          <5>2. run[p].contents[l].name = Scanned[p][l].name
            BY <3>3 DEF AwaitsReplacement, OriginalRef
          <5> QED BY <5>1, <5>2 DEF Matches, FilesOf
        <4>2. ASSUME NEW k \in DOMAIN run[p].images, k < c + 1
              PROVE  l \notin run[p].images[k].locs
          <5>1. k \in Nat /\ (k < c \/ k = c)
            BY <1>1, <4>2 DEF Run
          <5> QED BY <3>3, <4>1, <5>1 DEF AwaitsReplacement
        <4> QED BY <1>5, <3>1, <3>3, <4>2 DEF AwaitsReplacement
      <3> QED BY <1>1, <1>5, <3>2, <3>3 DEF RunInv, UpdateInv
    <2> QED BY <2>1, <2>2
  <1>8. UpdateInv(p)'
    BY <1>5, <1>7 DEF UpdateInv
  <1>9. ScannedInv(p)' /\ ResolvedInv(p)' /\ ImagesInv(p)' /\ PushedInv(p)'
    BY <1>1, <1>5 DEF RunInv, ScannedInv, ResolvedInv, ImagesInv, PushedInv
  <1>10. CopiedInv(p)'
    BY <1>1, <1>5 DEF RunInv, CopiedInv, ReplaceImage, registryVars, Held
  <1> QED BY <1>3, <1>4, <1>8, <1>9, <1>10, LocalStep DEF RunInv, ReplaceImage

\* Scanning the updated manifests keeps the invariant (Execute, Scan).
LEMMA RescanStep ==
    ASSUME IInv, NEW p \in Procs, Rescan(p)
    PROVE  IInv'
  <1> DEFINE r == [run[p] EXCEPT !.pc = "push", !.statements = @ \cup Replaced(run[p])]
  <1>1. RunInv(p) /\ run[p] \in Run
    BY DEF IInv, RunInv
  <1>2. Replaced(run[p]) \subseteq Statement
    BY <1>1, StatementsType, GetImagesType DEF Replaced
  <1>3. r \in Run
    BY <1>1, <1>2 DEF Run
  <1>4. run'[p] = r /\ run' = [run EXCEPT ![p] = run'[p]]
    BY <1>3 DEF Rescan, IInv, Become
  <1>5. /\ run'[p].pc = "push" /\ run[p].pc = "update"
        /\ run'[p].contents = run[p].contents /\ run'[p].images = run[p].images
        /\ run'[p].resolved = run[p].resolved /\ run'[p].unresolved = run[p].unresolved
        /\ run'[p].copied = run[p].copied /\ run'[p].copying = run[p].copying
    BY <1>1, <1>4 DEF Rescan, Run
  <1>6. ASSUME NEW l \in Locs PROVE ReplacedAt(p, l)
    <2>1. \A k \in DOMAIN run[p].images : k < run[p].cursor
      <3>1. /\ run[p].cursor \in Nat \ {0} /\ Len(run[p].images) \in Nat
            /\ DOMAIN run[p].images = 1..Len(run[p].images)
        BY <1>1 DEF Run
      <3>2. run[p].cursor \notin DOMAIN run[p].images
        BY DEF Rescan
      <3> QED BY <3>1, <3>2
    <2>2. PICK k \in DOMAIN run[p].images : l \in run[p].images[k].locs
      BY <1>1, <1>5 DEF RunInv, ImagesInv
    <2> QED BY <1>1, <1>5, <2>1, <2>2 DEF RunInv, UpdateInv, AwaitsReplacement
  <1>7. UpdateInv(p)'
    BY <1>5, <1>6 DEF UpdateInv, ReplacedAt, Unambiguous
  <1>8. ScannedInv(p)' /\ ResolvedInv(p)' /\ ImagesInv(p)' /\ PushedInv(p)'
    BY <1>1, <1>5 DEF RunInv, ScannedInv, ResolvedInv, ImagesInv, PushedInv
  <1>9. CopiedInv(p)'
    BY <1>1, <1>5 DEF RunInv, CopiedInv, Rescan, registryVars, Held
  <1> QED BY <1>3, <1>4, <1>7, <1>8, <1>9, LocalStep DEF RunInv, Rescan

\* What is about to be pushed is closed.
LEMMA PushedClosed ==
    ASSUME IInv, NEW p \in Procs, run[p].pc \in {"push", "alias", "done"}
    PROVE  /\ PackageOf(p) \in Package
           /\ \A l \in Locs : /\ PackageOf(p).contents[l].name = Dest
                              /\ Held(PackageOf(p).contents[l].digest)
  <1>1. RunInv(p) /\ run[p] \in Run
    BY DEF IInv, RunInv
  <1>2. PackageOf(p) \in Package
    BY <1>1, PackageAssumption DEF PackageOf, Package, Run
  <1>3. ASSUME NEW l \in Locs
        PROVE  run[p].contents[l].name = Dest /\ Held(run[p].contents[l].digest)
    <2>1. PICK k \in DOMAIN run[p].images : run[p].contents[l] = NewRef(run[p].images[k])
      BY <1>1 DEF RunInv, UpdateInv, ReplacedAt
    <2>2. Held(run[p].images[k].digest)
      BY <1>1 DEF RunInv, CopiedInv
    <2> QED BY <2>1, <2>2 DEF NewRef
  <1> QED BY <1>2, <1>3 DEF PackageOf

\* Pushing the index of the package keeps the invariant (PushArtefact).
LEMMA WriteIndexStep ==
    ASSUME IInv, NEW p \in Procs, WriteIndex(p)
    PROVE  IInv'
  <1> DEFINE x == PackageOf(p)
             r == [run[p] EXCEPT !.pc = "alias"]
  <1>1. RunInv(p) /\ run[p] \in Run /\ r \in Run
    BY DEF IInv, RunInv, Run
  <1>2. run'[p] = r /\ run' = [run EXCEPT ![p] = run'[p]]
    BY <1>1 DEF WriteIndex, IInv, Become
  <1>3. packages' = packages \cup {x} /\ UNCHANGED registryVars /\ x' = x
    BY <1>1, <1>2 DEF WriteIndex, PackageOf, Run
  <1>4. RunInv(p)'
    <2>1. /\ run[p].pc = "push" /\ run'[p].pc = "alias"
          /\ run'[p].contents = run[p].contents /\ run'[p].images = run[p].images
          /\ run'[p].resolved = run[p].resolved /\ run'[p].unresolved = run[p].unresolved
          /\ run'[p].copied = run[p].copied /\ run'[p].copying = run[p].copying
      BY <1>1, <1>2 DEF WriteIndex, Run
    <2>2. ScannedInv(p)' /\ ResolvedInv(p)' /\ ImagesInv(p)'
      BY <1>1, <2>1 DEF RunInv, ScannedInv, ResolvedInv, ImagesInv
    <2>3. CopiedInv(p)'
      BY <1>1, <1>3, <2>1 DEF RunInv, CopiedInv, registryVars, Held
    <2>4. UpdateInv(p)'
      BY <1>1, <2>1 DEF RunInv, UpdateInv, ReplacedAt, Unambiguous
    <2>5. PushedInv(p)'
      BY <1>1, <1>3, <2>1 DEF RunInv, PushedInv
    <2> QED BY <1>1, <1>2, <2>2, <2>3, <2>4, <2>5 DEF RunInv
  <1>5. run' \in [Procs -> Run] /\ \A q \in Procs : RunInv(q)'
    BY <1>2, <1>3, <1>4, RunsKept DEF registryVars
  <1>6. PackagesInv'
    BY <1>3, PushedClosed DEF IInv, PackagesInv, ClosedPackages, WriteIndex, Held, registryVars
  <1> QED BY <1>3, <1>5, <1>6 DEF IInv, RegistryTypeOK, registryVars

\* Pointing the alias at a package keeps the invariant (PushArtefact).
LEMMA TagAliasStep ==
    ASSUME IInv, NEW p \in Procs, TagAlias(p)
    PROVE  IInv'
  <1> DEFINE x == PackageOf(p)
             r == [run[p] EXCEPT !.pc = "done"]
  <1>1. RunInv(p) /\ run[p] \in Run /\ r \in Run
    BY DEF IInv, RunInv, Run
  <1>2. run'[p] = r /\ run' = [run EXCEPT ![p] = run'[p]]
    BY <1>1 DEF TagAlias, IInv, Become
  <1>3. packages' = packages /\ UNCHANGED registryVars /\ x' = x
    BY <1>1, <1>2 DEF TagAlias, PackageOf, Run
  <1>4. RunInv(p)'
    <2>1. /\ run[p].pc = "alias" /\ run'[p].pc = "done"
          /\ run'[p].contents = run[p].contents /\ run'[p].images = run[p].images
          /\ run'[p].resolved = run[p].resolved /\ run'[p].unresolved = run[p].unresolved
          /\ run'[p].copied = run[p].copied /\ run'[p].copying = run[p].copying
      BY <1>1, <1>2 DEF TagAlias, Run
    <2>2. ScannedInv(p)' /\ ResolvedInv(p)' /\ ImagesInv(p)'
      BY <1>1, <2>1 DEF RunInv, ScannedInv, ResolvedInv, ImagesInv
    <2>3. CopiedInv(p)'
      BY <1>1, <1>3, <2>1 DEF RunInv, CopiedInv, registryVars, Held
    <2>4. UpdateInv(p)'
      BY <1>1, <2>1 DEF RunInv, UpdateInv, ReplacedAt, Unambiguous
    <2>5. PushedInv(p)'
      BY <1>1, <1>3, <2>1 DEF RunInv, PushedInv
    <2> QED BY <1>1, <1>2, <2>2, <2>3, <2>4, <2>5 DEF RunInv
  <1>5. run' \in [Procs -> Run] /\ \A q \in Procs : RunInv(q)'
    BY <1>2, <1>3, <1>4, RunsKept DEF registryVars
  <1>6. PackagesInv'
    BY <1>3, PushedClosed DEF IInv, PackagesInv, ClosedPackages, TagAlias, registryVars
  <1> QED BY <1>3, <1>5, <1>6 DEF IInv, RegistryTypeOK, registryVars

\* Authors move tags; no process keeps more of a tag than what it answered.
LEMMA AuthorStep ==
    ASSUME IInv, Author
    PROVE  IInv'
  <1>1. RegistryTypeOK' /\ stored' = stored /\ UNCHANGED <<run, packageVars>>
    BY RetagType DEF IInv, Author
  <1>2. ASSUME NEW p \in Procs PROVE RunInv(p)'
    BY <1>1 DEF IInv, RunInv, ScannedInv, ResolvedInv, ImagesInv, CopiedInv, UpdateInv, ReplacedAt,
       AwaitsReplacement, Unambiguous, PushedInv, PackageOf, packageVars, Held
  <1> QED BY <1>1, <1>2 DEF IInv, PackagesInv, ClosedPackages, packageVars

\* Every step of a process or an author keeps the invariant.
LEMMA NextIInv == IInv /\ [Next]_vars => IInv'
  <1> SUFFICES ASSUME IInv, [Next]_vars PROVE IInv'
    OBVIOUS
  <1>1. ASSUME NEW p \in Procs, Step(p) PROVE IInv'
    BY <1>1, LoadStep, ResolveDigestStep, DedupStep, FindRelatedTagsStep, FindIndexManifestsStep,
       BeginCopyStep, CopyImageStep, VerifyCopyStep, BeginUpdateStep, ReplaceImageStep, RescanStep,
       WriteIndexStep, TagAliasStep DEF Step
  <1>2. ASSUME NEW p \in Procs, Fail(p) PROVE IInv'
    BY <1>2, AbortStep DEF Fail
  <1>3. CASE UNCHANGED vars
    <2>1. UNCHANGED <<run, packages, tagged, aliased, stored, tags, retags>>
      BY <1>3 DEF vars, packageVars, registryVars
    <2>2. ASSUME NEW p \in Procs PROVE RunInv(p)'
      BY <2>1 DEF IInv, RunInv, ScannedInv, ResolvedInv, ImagesInv, CopiedInv, UpdateInv, ReplacedAt,
         AwaitsReplacement, Unambiguous, PushedInv, PackageOf, Held
    <2> QED BY <2>1, <2>2 DEF IInv, RegistryTypeOK, PackagesInv, ClosedPackages
  <1> QED BY <1>1, <1>2, <1>3, AuthorStep DEF Next

-----------------------------------------------------------------------------
(* Theorems.                                                               *)

\* The strengthening is invariant.
THEOREM Invariance == Spec => []IInv
  BY InitIInv, NextIInv, PTL DEF Spec

\* Every variable keeps its type, whatever is packaged and however often.
THEOREM TypeCorrect == Spec => []TypeOK
  <1>1. IInv => TypeOK
    BY DEF IInv, PackagesInv, TypeOK
  <1> QED BY <1>1, Invariance, PTL

\* Every package is self-contained as soon as it can be seen, for any number
\* of processes that push to one destination, fail, or are killed.
THEOREM PackagesClosed == Spec => []ClosedPackages
  <1>1. IInv => ClosedPackages
    BY DEF IInv, PackagesInv
  <1> QED BY <1>1, Invariance, PTL

\* The version of an image in a package is the one that was resolved at that
\* place, unless its file has another version of an image of that name.
THEOREM VersionsAreKept == Spec => []VersionsKept
  <1>1. IInv => VersionsKept
    <2> SUFFICES ASSUME IInv, NEW p \in Procs, NEW l \in Locs,
                        run[p].pc \in {"push", "alias", "done"}, Unambiguous(p, l)
                 PROVE  run[p].contents[l].digest = run[p].resolved[l]
      BY DEF VersionsKept
    <2>1. PICK k \in DOMAIN run[p].images :
            /\ run[p].contents[l] = NewRef(run[p].images[k])
            /\ run[p].images[k].digest = run[p].resolved[l]
      BY DEF IInv, RunInv, UpdateInv, ReplacedAt
    <2> QED BY <2>1 DEF NewRef
  <1> QED BY <1>1, Invariance, PTL

\* A step of any process or author is a step of the abstract registry: packages
\* appear whole and names lead to them.
LEMMA StepRefines == IInv /\ [Next]_vars => [Taped!Next]_(Taped!vars)
  <1> SUFFICES ASSUME IInv, Next PROVE Taped!Next \/ UNCHANGED Taped!vars
    BY DEF vars, packageVars, registryVars, Taped!vars
  <1> USE DEF Taped!Next
  <1>1. ASSUME UNCHANGED packageVars, stored[Dest] \subseteq stored'[Dest]
        PROVE  Taped!Next
    BY <1>1 DEF Taped!Hold, packageVars
  <1>2. ASSUME NEW p \in Procs, WriteIndex(p) PROVE Taped!Next
    <2>1. Taped!Closed(PackageOf(p))
      BY <1>2, PushedClosed DEF WriteIndex, Taped!Closed, Held, Package
    <2>2. Taped!Publish(PackageOf(p)) /\ PackageOf(p) \in packages'
      BY <1>2, <2>1 DEF WriteIndex, Taped!Publish, registryVars
    <2> QED BY <2>2
  <1>3. ASSUME NEW p \in Procs, TagAlias(p) PROVE Taped!Next
    <2>1. PackageOf(p) \in packages
      BY <1>3 DEF TagAlias, IInv, RunInv, PushedInv
    <2> QED BY <1>3, <2>1 DEF TagAlias, Taped!Announce, registryVars
  <1>4. Dest \in Repos
    BY DEF Repos
  <1>5. ASSUME NEW p \in Procs, NEW c \in NextCopies(run[p]), CopyImage(p, c)
        PROVE  Taped!Next
    <2>1. stored[Dest] \subseteq stored'[Dest]
      BY <1>4, <1>5 DEF CopyImage, Push, IInv, RegistryTypeOK
    <2> QED BY <1>1, <1>5, <2>1 DEF CopyImage, packageVars
  <1>6. ASSUME NEW p \in Procs, Abort(p) PROVE Taped!Next
    BY <1>1, <1>6 DEF Abort, registryVars
  <1>7. ASSUME NEW p \in Procs, Step(p) PROVE Taped!Next
    <2>1. ASSUME UNCHANGED <<packageVars, registryVars>> PROVE Taped!Next
      BY <1>1, <2>1 DEF registryVars
    <2> QED BY <1>2, <1>3, <1>5, <1>6, <1>7, <2>1 DEF Step, Load, ResolveDigest, Dedup, FindRelatedTags,
            FindRelatedToManifests, FindIndexManifests, BeginCopy, VerifyCopy, BeginUpdate,
            ReplaceImage, Rescan
  <1>8. CASE Author
    BY <1>1, <1>8 DEF Author, Retag
  <1> QED BY <1>6, <1>7, <1>8 DEF Next, Fail

\* `tape package` implements the abstract registry of packages.
THEOREM Refinement == Spec => TapedSpec
  <1>1. Init => Taped!Init
    BY DEF Init, Taped!Init
  <1> QED BY <1>1, StepRefines, Invariance, PTL DEF Spec, TapedSpec, Taped!Spec
=============================================================================
