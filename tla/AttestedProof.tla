----------------------------- MODULE AttestedProof -----------------------------
(***************************************************************************)
(* Proofs about what `tape package` attests and which cosign artefacts it  *)
(* copies, on top of the invariant of TapePackageProof.                    *)
(***************************************************************************)
EXTENDS TapePackageProof

\* What should be said of the references of p: as they were written, as they
\* were resolved, as they are now.
Originals(p) == {[kind |-> "original", loc |-> l, ref |-> OriginalRef(Scanned[p][l])] : l \in Locs}

ResolvedRef(p, l) ==
    [name |-> Scanned[p][l].name, tag |-> Scanned[p][l].tag, digest |-> run[p].resolved[l]]

Resolveds(p) == {[kind |-> "resolved", loc |-> l, ref |-> ResolvedRef(p, l)] : l \in Locs}

Replaceds(p) == {[kind |-> "replaced", loc |-> l, ref |-> run[p].contents[l]] : l \in Locs}

\* The phases between Dedup and the second scan.
Between == {"related", "relatedToManifests", "copy", "verify", "update"}

\* What has been said at each phase, and that a pinned location was resolved
\* to the digest it has.
AttestInv(p) ==
    /\ run[p].pc = "idle" => run[p].unresolved = Locs
    /\ run[p].pc \notin {"idle", "failed"} =>
         \A l \in Locs \ run[p].unresolved : Scanned[p][l].digest \in {NoDigest, run[p].resolved[l]}
    /\ run[p].pc \in Between \cup {"push", "alias", "done"} => run[p].unresolved = {}
    /\ run[p].pc = "resolve" => run[p].statements = Originals(p)
    /\ run[p].pc \in Between => run[p].statements = Originals(p) \cup Resolveds(p)
    /\ run[p].pc \in {"push", "alias", "done"} =>
         run[p].statements = Originals(p) \cup Resolveds(p) \cup Replaceds(p)

\* What is copied has a tag in the destination, and when no copy is left to
\* make, all that was found is copied.
RelatedInv(p) ==
    /\ \A i \in run[p].related \cup run[p].relatedToManifests : i.tag \in CosignTags
    /\ \A c \in run[p].copied : tags[Dest][NewTag(c[2])] # NoDigest
    /\ run[p].pc \in {"update", "push", "alias", "done"} =>
         ({2} \X run[p].related) \cup ({3} \X run[p].relatedToManifests) \subseteq run[p].copied

\* Together with IInv, an inductive invariant.
StoryInv == AttestedPackages /\ \A p \in Procs : AttestInv(p) /\ RelatedInv(p)

-----------------------------------------------------------------------------
(* Statements.                                                             *)

\* The first scan says what was written (Execute, MakeOriginalImageRefStatements).
LEMMA OriginalsMade ==
    ASSUME NEW p \in Procs, run[p].contents = [l \in Locs |-> OriginalRef(Scanned[p][l])]
    PROVE  Statements("original", GetImages(run[p])) = Originals(p)
<1> DEFINE S == Statements("original", GetImages(run[p]))
           O(l) == [kind |-> "original", loc |-> l, ref |-> OriginalRef(Scanned[p][l])]
           I(l) == [name |-> run[p].contents[l].name, tag |-> run[p].contents[l].tag,
                    digest |-> run[p].contents[l].digest, locs |-> {l}]
<1>1. \A l \in Locs : OriginalRef(I(l)) = OriginalRef(Scanned[p][l]) /\ I(l).locs = {l}
  BY DEF OriginalRef
<1>2. \A i : i \in GetImages(run[p]) <=> \E l \in Locs : i = I(l)
  BY DEF GetImages
<1>3. \A s : s \in S <=> \E i \in GetImages(run[p]) : \E m \in i.locs :
                            s = [kind |-> "original", loc |-> m, ref |-> OriginalRef(i)]
  BY DEF Statements
<1> HIDE DEF I, S
<1>4. \A s : s \in S <=> \E l \in Locs : s = O(l)
  BY <1>1, <1>2, <1>3
<1> QED BY <1>4 DEF Originals, S

\* The items say of each location what it was resolved to (MakeResolvedImageRefStatements).
LEMMA ResolvedsMade ==
    ASSUME NEW p \in Procs, run[p].contents = [l \in Locs |-> OriginalRef(Scanned[p][l])]
    PROVE  Statements("resolved", Items(run[p])) = Resolveds(p)
<1> DEFINE S == Statements("resolved", Items(run[p]))
           R(l) == [kind |-> "resolved", loc |-> l, ref |-> ResolvedRef(p, l)]
           I(l) == ItemOf(run[p], l)
<1>1. ASSUME NEW l \in Locs, NEW m \in Locs, SameItem(run[p], l, m)
      PROVE  OriginalRef(I(l)) = ResolvedRef(p, m)
  BY <1>1 DEF OriginalRef, ResolvedRef, ItemOf, SameItem
<1>2. \A l, m : m \in I(l).locs <=> m \in Locs /\ SameItem(run[p], l, m)
  BY DEF ItemOf
<1>3. \A l \in Locs : SameItem(run[p], l, l)
  BY DEF SameItem
<1>4. \A i : i \in Items(run[p]) <=> \E l \in Locs : i = I(l)
  BY DEF Items
<1>5. \A s : s \in S <=> \E i \in Items(run[p]) : \E m \in i.locs :
                            s = [kind |-> "resolved", loc |-> m, ref |-> OriginalRef(i)]
  BY DEF Statements
<1> HIDE DEF I, S
<1>6. ASSUME NEW s PROVE s \in S <=> \E m \in Locs : s = R(m)
  <2>1. ASSUME s \in S PROVE \E m \in Locs : s = R(m)
    BY <1>1, <1>2, <1>4, <1>5, <2>1
  <2>2. ASSUME NEW m \in Locs, s = R(m) PROVE s \in S
    <3>1. I(m) \in Items(run[p]) /\ m \in I(m).locs /\ OriginalRef(I(m)) = ResolvedRef(p, m)
      BY <1>1, <1>2, <1>3, <1>4
    <3> QED BY <1>5, <2>2, <3>1
  <2> QED BY <2>1, <2>2
<1> QED BY <1>6 DEF Resolveds, S

\* The second scan says what the manifests are now (MakeReplacedImageRefStatements).
LEMMA ReplacedsMade ==
    ASSUME NEW p \in Procs, run[p] \in Run
    PROVE  Replaced(run[p]) = Replaceds(p)
<1> DEFINE S == Replaced(run[p])
           R(l) == [kind |-> "replaced", loc |-> l, ref |-> run[p].contents[l]]
           I(l) == [name |-> run[p].contents[l].name, tag |-> run[p].contents[l].tag,
                    digest |-> run[p].contents[l].digest, locs |-> {l}]
<1>1. \A l \in Locs : OriginalRef(I(l)) = run[p].contents[l] /\ I(l).locs = {l}
  <2>1. \A l \in Locs : run[p].contents[l] \in Ref
    BY DEF Run
  <2> QED BY <2>1 DEF OriginalRef, Ref
<1>2. \A i : i \in GetImages(run[p]) <=> \E l \in Locs : i = I(l)
  BY DEF GetImages
<1>3. \A s : s \in S <=> \E i \in GetImages(run[p]) : \E m \in i.locs :
                            s = [kind |-> "replaced", loc |-> m, ref |-> OriginalRef(i)]
  BY DEF Statements, Replaced
<1> HIDE DEF I, S
<1>4. \A s : s \in S <=> \E l \in Locs : s = R(l)
  BY <1>1, <1>2, <1>3
<1> QED BY <1>4 DEF Replaceds, S

-----------------------------------------------------------------------------
(* What a step leaves alone.                                               *)

\* The tags that copies have.
CopyTags == CosignTags \cup AppTags

\* They are those that a copy is given (doSetNewImageRef).
LEMMA NewTagType ==
    ASSUME NEW i \in Image
    PROVE  NewTag(i) \in CopyTags
BY DEF NewTag, CopyTags, AppTags, Image

\* The tag of a copy can be moved but is never removed (Copy).
LEMMA TagsStay ==
    ASSUME IInv, [Next]_vars
    PROVE  \A t \in CopyTags : tags[Dest][t] # NoDigest => tags'[Dest][t] # NoDigest
<1>1. /\ RegistryTypeOK /\ Dest \in Repos /\ run \in [Procs -> Run]
      /\ CopyTags \subseteq AllTags
  BY RegistryAssumption DEF IInv, Repos, CopyTags, AllTags
<1>2. CASE UNCHANGED registryVars
  BY <1>2 DEF registryVars
<1>3. ASSUME NEW p \in Procs, NEW c \in NextCopies(run[p]), CopyImage(p, c)
      PROVE  \A t \in CopyTags : tags[Dest][t] # NoDigest => tags'[Dest][t] # NoDigest
  <2>1. c[2] \in Image /\ c[2].digest \in Digests
    BY <1>1, LeftType DEF NextCopies, Copy, Image
  <2>2. NewTag(c[2]) \in AllTags /\ c[2].digest # NoDigest
    BY <2>1, RefTypes, RegistryAssumption
  <2> QED BY <1>1, <1>3, <2>2 DEF CopyImage, Push, RegistryTypeOK
<1>4. ASSUME NEW n \in Names, NEW t \in Tags, Retag(n, t)
      PROVE  \A u \in CopyTags : tags[Dest][u] # NoDigest => tags'[Dest][u] # NoDigest
  <2>1. PICK d \in Versions[n][t] : tags' = [tags EXCEPT ![n][t] = d]
    BY <1>4 DEF Retag
  <2>2. n = Dest /\ t \in CopyTags => d # NoDigest
    BY <2>1, DestAssumption DEF CopyTags
  <2>3. n \in Repos /\ t \in AllTags
    BY DEF Repos, AllTags
  <2> QED BY <1>1, <2>1, <2>2, <2>3 DEF RegistryTypeOK
<1>5. CASE UNCHANGED vars
  BY <1>2, <1>5 DEF vars
<1>6. ASSUME NEW p \in Procs, Step(p) \/ Fail(p)
      PROVE  UNCHANGED registryVars \/ \E c \in NextCopies(run[p]) : CopyImage(p, c)
  BY <1>6 DEF Step, Fail, Abort, Load, ResolveDigest, Dedup, FindRelatedTags, FindRelatedToManifests,
     FindIndexManifests, BeginCopy, VerifyCopy, BeginUpdate, ReplaceImage, Rescan, WriteIndex, TagAlias
<1> QED BY <1>2, <1>3, <1>4, <1>5, <1>6 DEF Next, Author

\* Nor is a manifest removed, and packages are only added (Copy, PushArtefact).
LEMMA ContentsStay ==
    ASSUME IInv, [Next]_vars
    PROVE  stored[Dest] \subseteq stored'[Dest]
<1>1. RegistryTypeOK /\ Dest \in Repos
  BY DEF IInv, Repos
<1>2. ASSUME NEW d, NEW t, Push(d, t) PROVE stored[Dest] \subseteq stored'[Dest]
  BY <1>1, <1>2 DEF Push, RegistryTypeOK
<1> QED BY <1>2 DEF Next, Step, Fail, Abort, Author, Retag, Load, ResolveDigest, Dedup, FindRelatedTags,
     FindRelatedToManifests, FindIndexManifests, BeginCopy, CopyImage, VerifyCopy, BeginUpdate,
     ReplaceImage, Rescan, WriteIndex, TagAlias, vars, registryVars

\* What a process has said and copied stays so while others take steps.
LEMMA StoryKept ==
    ASSUME IInv, [Next]_vars, NEW q \in Procs, AttestInv(q), RelatedInv(q), run'[q] = run[q]
    PROVE  AttestInv(q)' /\ RelatedInv(q)'
<1>1. AttestInv(q)'
  BY DEF AttestInv, Originals, Resolveds, ResolvedRef, Replaceds
<1>2. \A c \in run[q].copied : NewTag(c[2]) \in CopyTags
  <2>1. run[q] \in Run
    BY DEF IInv
  <2>2. \A c \in run[q].copied : c[2] \in Image
    BY <2>1 DEF Run, Copy
  <2> QED BY <2>2, NewTagType
<1>3. RelatedInv(q)'
  BY <1>2, TagsStay DEF RelatedInv
<1> QED BY <1>1, <1>3

\* Copies keep their tags, in whatever step of their process.
LEMMA CopiesTagged ==
    ASSUME IInv, [Next]_vars, NEW p \in Procs, RelatedInv(p)
    PROVE  \A c \in run[p].copied : tags'[Dest][NewTag(c[2])] # NoDigest
<1>1. run[p] \in Run
  BY DEF IInv
<1>2. \A c \in run[p].copied : c[2] \in Image
  BY <1>1 DEF Run, Copy
<1> QED BY <1>2, NewTagType, TagsStay DEF RelatedInv

\* A process that has failed says nothing more (Execute).
LEMMA AbortTold ==
    ASSUME IInv, [Next]_vars, NEW p \in Procs, AttestInv(p), RelatedInv(p), Abort(p)
    PROVE  AttestInv(p)' /\ RelatedInv(p)'
<1>1. run[p] \in Run
  BY DEF IInv
<1>2. run'[p] = [run[p] EXCEPT !.pc = "failed"]
  BY DEF IInv, Abort, Become
<1>3. /\ run'[p].pc = "failed" /\ run'[p].related = run[p].related
      /\ run'[p].relatedToManifests = run[p].relatedToManifests /\ run'[p].copied = run[p].copied
  BY <1>1, <1>2 DEF Run
<1> QED BY <1>3, CopiesTagged DEF AttestInv, RelatedInv, Between

-----------------------------------------------------------------------------
(* The steps.                                                              *)

\* Steps that make neither statements nor lookups nor copies keep the story.
LEMMA SilentTold ==
    ASSUME IInv, [Next]_vars, NEW p \in Procs, AttestInv(p), RelatedInv(p),
           \A f \in {"resolved", "unresolved", "statements", "related", "relatedToManifests", "copied"} :
              run'[p][f] = run[p][f],
           \/ run[p].pc \in Between /\ run'[p].pc \in Between \ {"update"}
           \/ run[p].pc = "update" /\ run'[p].pc = "update"
           \/ /\ run[p].pc \in {"push", "alias"} /\ run'[p].pc \in {"alias", "done"}
              /\ run'[p].contents = run[p].contents
    PROVE  AttestInv(p)' /\ RelatedInv(p)'
<1>1. /\ run'[p].resolved = run[p].resolved /\ run'[p].unresolved = run[p].unresolved
      /\ run'[p].statements = run[p].statements /\ run'[p].related = run[p].related
      /\ run'[p].relatedToManifests = run[p].relatedToManifests /\ run'[p].copied = run[p].copied
  OBVIOUS
<1>2. RelatedInv(p)'
  BY <1>1, CopiesTagged DEF RelatedInv, Between
<1>3. Originals(p)' = Originals(p) /\ Resolveds(p)' = Resolveds(p)
  BY <1>1 DEF Originals, Resolveds, ResolvedRef
<1>4. run'[p].contents = run[p].contents => Replaceds(p)' = Replaceds(p)
  BY DEF Replaceds
<1>5. AttestInv(p)'
  BY <1>1, <1>3, <1>4 DEF AttestInv, Between
<1> QED BY <1>2, <1>5

\* The first scan is told of all locations, before any is looked up (Execute).
LEMMA LoadTold ==
    ASSUME IInv, [Next]_vars, NEW p \in Procs, AttestInv(p), RelatedInv(p), Load(p)
    PROVE  AttestInv(p)' /\ RelatedInv(p)'
<1>1. run[p] \in Run /\ RunInv(p)
  BY DEF IInv
<1>2. run'[p] = [run[p] EXCEPT !.pc = "resolve",
                              !.statements = Statements("original", GetImages(run[p]))]
  BY DEF IInv, Load, Become
<1>3. Statements("original", GetImages(run[p])) = Originals(p)
  BY <1>1, OriginalsMade DEF Load, RunInv, ScannedInv
<1>4. /\ run'[p].pc = "resolve" /\ run'[p].statements = Originals(p) /\ run'[p].unresolved = Locs
      /\ run'[p].related = run[p].related /\ run'[p].copied = run[p].copied
      /\ run'[p].relatedToManifests = run[p].relatedToManifests
  BY <1>1, <1>2, <1>3 DEF Run, Load, AttestInv
<1> QED BY <1>4, CopiesTagged DEF AttestInv, RelatedInv, Between, Originals

\* A pinned reference is answered with its digest, or not at all (doResolveDigest).
LEMMA ResolveDigestTold ==
    ASSUME IInv, [Next]_vars, NEW p \in Procs, AttestInv(p), RelatedInv(p),
           NEW l \in Locs, ResolveDigest(p, l)
    PROVE  AttestInv(p)' /\ RelatedInv(p)'
<1> DEFINE d == Digest(run[p].contents[l])
<1>1. run[p] \in Run /\ RunInv(p)
  BY DEF IInv
<1>2. CASE Abort(p)
  BY <1>2, AbortTold
<1>3. CASE /\ Resolves(run[p].contents[l])
           /\ Become(p, [run[p] EXCEPT !.resolved[l] = d, !.unresolved = @ \ {l}])
  <2>1. run'[p] = [run[p] EXCEPT !.resolved[l] = d, !.unresolved = @ \ {l}]
    BY <1>3 DEF IInv, Become
  <2>2. /\ run[p].pc = "resolve" /\ run'[p].pc = "resolve"
        /\ run'[p].statements = run[p].statements
        /\ run'[p].unresolved = run[p].unresolved \ {l}
        /\ run'[p].resolved = [run[p].resolved EXCEPT ![l] = d]
        /\ run'[p].related = run[p].related /\ run'[p].copied = run[p].copied
        /\ run'[p].relatedToManifests = run[p].relatedToManifests
    BY <1>1, <2>1 DEF Run, ResolveDigest
  <2>3. run[p].contents[l].digest = Scanned[p][l].digest
    BY <1>1, <2>2 DEF RunInv, ScannedInv, OriginalRef
  <2>4. Scanned[p][l].digest \in {NoDigest, d}
    BY <1>3, <2>3 DEF Resolves
  <2>5. run[p].resolved \in [Locs -> Digests \cup {NoDigest}]
    BY <1>1 DEF Run
  <2>6. AttestInv(p)'
    BY <2>2, <2>4, <2>5 DEF AttestInv, Between, Originals
  <2> QED BY <2>2, <2>6, CopiesTagged DEF RelatedInv
<1> QED BY <1>2, <1>3 DEF ResolveDigest

\* The merged images are told for each location, all of which are resolved (Dedup).
LEMMA DedupTold ==
    ASSUME IInv, [Next]_vars, NEW p \in Procs, AttestInv(p), RelatedInv(p), Dedup(p)
    PROVE  AttestInv(p)' /\ RelatedInv(p)'
<1>1. run[p] \in Run /\ RunInv(p)
  BY DEF IInv
<1>2. PICK is \in Orderings(Items(run[p])) :
        Become(p, [run[p] EXCEPT !.pc = "related", !.images = is, !.unlisted = Items(run[p]),
                                 !.statements = @ \cup Statements("resolved", Items(run[p]))])
  BY DEF Dedup
<1>3. Statements("resolved", Items(run[p])) = Resolveds(p)
  BY <1>1, ResolvedsMade DEF Dedup, RunInv, ScannedInv
<1>4. run'[p] = [run[p] EXCEPT !.pc = "related", !.images = is, !.unlisted = Items(run[p]),
                               !.statements = @ \cup Resolveds(p)]
  BY <1>2, <1>3 DEF IInv, Become
<1>5. /\ run[p].pc = "resolve" /\ run'[p].pc = "related" /\ run'[p].resolved = run[p].resolved
      /\ run[p].unresolved = {} /\ run'[p].unresolved = {}
      /\ run'[p].statements = run[p].statements \cup Resolveds(p)
      /\ run'[p].related = run[p].related /\ run'[p].copied = run[p].copied
      /\ run'[p].relatedToManifests = run[p].relatedToManifests
  BY <1>1, <1>4 DEF Run, Dedup
<1>6. Originals(p)' = Originals(p) /\ Resolveds(p)' = Resolveds(p)
  BY <1>5 DEF Originals, Resolveds, ResolvedRef
<1>7. AttestInv(p)'
  BY <1>5, <1>6 DEF AttestInv, Between
<1> QED BY <1>5, <1>7, CopiesTagged DEF RelatedInv

\* What is found related to an image has a cosign tag, and is told of nowhere
\* (FindRelatedTags).
LEMMA FindRelatedTold ==
    ASSUME IInv, [Next]_vars, NEW p \in Procs, AttestInv(p), RelatedInv(p),
           NEW i \in run[p].unlisted, FindRelatedTags(p, i) \/ FindRelatedToManifests(p, i)
    PROVE  AttestInv(p)' /\ RelatedInv(p)'
<1>1. run[p] \in Run
  BY DEF IInv
<1>2. CASE Abort(p)
  BY <1>2, AbortTold
<1>3. \A x \in RelatedTo(i) : x.tag \in CosignTags
  BY DEF RelatedTo, ListRelated
<1>4. ASSUME ~ Abort(p)
      PROVE  /\ run'[p].pc = run[p].pc /\ run[p].pc \in {"related", "relatedToManifests"}
             /\ run'[p].resolved = run[p].resolved /\ run'[p].unresolved = run[p].unresolved
             /\ run'[p].statements = run[p].statements /\ run'[p].copied = run[p].copied
             /\ run'[p].related \subseteq run[p].related \cup RelatedTo(i)
             /\ run'[p].relatedToManifests \subseteq run[p].relatedToManifests \cup RelatedTo(i)
  <2>1. CASE FindRelatedTags(p, i)
    <3>1. run'[p] = [run[p] EXCEPT !.unlisted = @ \ {i}, !.related = @ \cup RelatedTo(i)]
      BY <1>4, <2>1 DEF IInv, FindRelatedTags, Become
    <3> QED BY <1>1, <2>1, <3>1 DEF Run, FindRelatedTags
  <2>2. CASE FindRelatedToManifests(p, i)
    <3>1. run'[p] = [run[p] EXCEPT !.unlisted = @ \ {i},
                                   !.relatedToManifests = @ \cup RelatedTo(i)]
      BY <1>4, <2>2 DEF IInv, FindRelatedToManifests, Become
    <3> QED BY <1>1, <2>2, <3>1 DEF Run, FindRelatedToManifests
  <2> QED BY <2>1, <2>2
<1>5. ASSUME ~ Abort(p) PROVE AttestInv(p)' /\ RelatedInv(p)'
  <2>1. RelatedInv(p)'
    BY <1>3, <1>4, <1>5, CopiesTagged DEF RelatedInv
  <2>2. Originals(p)' = Originals(p) /\ Resolveds(p)' = Resolveds(p)
    BY <1>4, <1>5 DEF Originals, Resolveds, ResolvedRef
  <2>3. AttestInv(p)'
    BY <1>4, <1>5, <2>2 DEF AttestInv, Between
  <2> QED BY <2>1, <2>3
<1> QED BY <1>2, <1>5

\* The steps between two phases, and a copy that is written, tell nothing
\* (FindRelatedFromIndecies, Copy).
LEMMA PhaseTold ==
    ASSUME IInv, [Next]_vars, NEW p \in Procs, AttestInv(p), RelatedInv(p),
           FindIndexManifests(p) \/ BeginCopy(p) \/ \E c \in NextCopies(run[p]) : CopyImage(p, c)
    PROVE  AttestInv(p)' /\ RelatedInv(p)'
<1>1. run[p] \in Run
  BY DEF IInv
<1>2. CASE Abort(p)
  BY <1>2, AbortTold
<1>3. CASE FindIndexManifests(p) /\ ~ Abort(p)
  <2>1. run'[p] = [run[p] EXCEPT !.pc = "relatedToManifests",
                                 !.unlisted = UNION {ManifestsOf(i) : i \in ItemsOf(run[p])}]
    BY <1>3 DEF IInv, FindIndexManifests, Become
  <2> QED BY <1>1, <1>3, <2>1, SilentTold DEF Run, Between, FindIndexManifests
<1>4. CASE BeginCopy(p)
  <2>1. run'[p] = [run[p] EXCEPT !.pc = "copy"]
    BY <1>4 DEF IInv, BeginCopy, Become
  <2> QED BY <1>1, <1>4, <2>1, SilentTold DEF Run, Between, BeginCopy
<1>5. ASSUME NEW c \in NextCopies(run[p]), CopyImage(p, c)
      PROVE  AttestInv(p)' /\ RelatedInv(p)'
  <2>1. run'[p] = [run[p] EXCEPT !.pc = "verify", !.copying = {c}]
    BY <1>5 DEF IInv, CopyImage, Become
  <2> QED BY <1>1, <1>5, <2>1, SilentTold DEF Run, Between, CopyImage
<1> QED BY <1>2, <1>3, <1>4, <1>5

\* A copy that has been verified has its tag (Copy).
LEMMA VerifyCopyTold ==
    ASSUME IInv, [Next]_vars, NEW p \in Procs, AttestInv(p), RelatedInv(p), VerifyCopy(p)
    PROVE  AttestInv(p)' /\ RelatedInv(p)'
<1>1. run[p] \in Run
  BY DEF IInv
<1>2. CASE Abort(p)
  BY <1>2, AbortTold
<1>3. CASE ~ Abort(p)
  <2>1. /\ run'[p] = [run[p] EXCEPT !.pc = "copy", !.copied = @ \cup run[p].copying, !.copying = {}]
        /\ \A c \in run[p].copying : tags[Dest][NewTag(c[2])] = c[2].digest
        /\ UNCHANGED <<packageVars, registryVars>>
    BY <1>3 DEF IInv, VerifyCopy, Become
  <2>2. /\ run[p].pc = "verify" /\ run'[p].pc = "copy"
        /\ run'[p].resolved = run[p].resolved /\ run'[p].unresolved = run[p].unresolved
        /\ run'[p].statements = run[p].statements /\ run'[p].related = run[p].related
        /\ run'[p].relatedToManifests = run[p].relatedToManifests
        /\ run'[p].copied = run[p].copied \cup run[p].copying
    BY <1>1, <2>1 DEF Run, VerifyCopy
  <2>3. \A c \in run[p].copying : tags'[Dest][NewTag(c[2])] # NoDigest
    <3>1. \A c \in run[p].copying : c[2].digest \in Digests
      BY <1>1 DEF Run, Copy, Image
    <3> QED BY <2>1, <3>1, RegistryAssumption DEF registryVars
  <2>4. RelatedInv(p)'
    BY <2>2, <2>3, CopiesTagged DEF RelatedInv
  <2>5. Originals(p)' = Originals(p) /\ Resolveds(p)' = Resolveds(p)
    BY <2>2 DEF Originals, Resolveds, ResolvedRef
  <2>6. AttestInv(p)'
    BY <2>2, <2>5 DEF AttestInv, Between
  <2> QED BY <2>4, <2>6
<1> QED BY <1>2, <1>3

\* When the update begins nothing that was found is left to copy (CopyImages).
LEMMA BeginUpdateTold ==
    ASSUME IInv, [Next]_vars, NEW p \in Procs, AttestInv(p), RelatedInv(p), BeginUpdate(p)
    PROVE  AttestInv(p)' /\ RelatedInv(p)'
<1>1. run[p] \in Run
  BY DEF IInv
<1>2. run'[p] = [run[p] EXCEPT !.pc = "update"]
  BY DEF IInv, BeginUpdate, Become
<1>3. /\ run[p].pc = "copy" /\ run'[p].pc = "update"
      /\ run'[p].resolved = run[p].resolved /\ run'[p].unresolved = run[p].unresolved
      /\ run'[p].statements = run[p].statements /\ run'[p].related = run[p].related
      /\ run'[p].relatedToManifests = run[p].relatedToManifests /\ run'[p].copied = run[p].copied
  BY <1>1, <1>2 DEF Run, BeginUpdate
<1>4. ({2} \X run[p].related) \cup ({3} \X run[p].relatedToManifests) \subseteq run[p].copied
  BY DEF BeginUpdate, Left
<1>5. RelatedInv(p)'
  BY <1>3, <1>4, CopiesTagged DEF RelatedInv
<1>6. Originals(p)' = Originals(p) /\ Resolveds(p)' = Resolveds(p)
  BY <1>3 DEF Originals, Resolveds, ResolvedRef
<1>7. AttestInv(p)'
  BY <1>3, <1>6 DEF AttestInv, Between
<1> QED BY <1>5, <1>7

\* The filters tell nothing (doUpdate).
LEMMA ReplaceImageTold ==
    ASSUME IInv, [Next]_vars, NEW p \in Procs, AttestInv(p), RelatedInv(p), ReplaceImage(p)
    PROVE  AttestInv(p)' /\ RelatedInv(p)'
<1> DEFINE new == [l \in Locs |-> IF Matches(p, run[p].images[run[p].cursor], l)
                                  THEN NewRef(run[p].images[run[p].cursor]) ELSE run[p].contents[l]]
<1>1. run[p] \in Run
  BY DEF IInv
<1>2. run'[p] = [run[p] EXCEPT !.cursor = @ + 1, !.contents = new]
  BY DEF IInv, ReplaceImage, Become
<1> HIDE DEF new
<1> QED BY <1>1, <1>2, SilentTold DEF Run, Between, ReplaceImage

\* The second scan is told of all locations, after which none changes (Execute).
LEMMA RescanTold ==
    ASSUME IInv, [Next]_vars, NEW p \in Procs, AttestInv(p), RelatedInv(p), Rescan(p)
    PROVE  AttestInv(p)' /\ RelatedInv(p)'
<1>1. run[p] \in Run
  BY DEF IInv
<1>2. run'[p] = [run[p] EXCEPT !.pc = "push", !.statements = @ \cup Replaceds(p)]
  BY <1>1, ReplacedsMade DEF IInv, Rescan, Become
<1>3. /\ run[p].pc = "update" /\ run'[p].pc = "push" /\ run'[p].contents = run[p].contents
      /\ run'[p].resolved = run[p].resolved /\ run'[p].unresolved = run[p].unresolved
      /\ run'[p].statements = run[p].statements \cup Replaceds(p) /\ run'[p].related = run[p].related
      /\ run'[p].relatedToManifests = run[p].relatedToManifests /\ run'[p].copied = run[p].copied
  BY <1>1, <1>2 DEF Run, Rescan
<1>4. RelatedInv(p)'
  BY <1>3, CopiesTagged DEF RelatedInv
<1>5. /\ Originals(p)' = Originals(p) /\ Resolveds(p)' = Resolveds(p)
      /\ Replaceds(p)' = Replaceds(p)
  BY <1>3 DEF Originals, Resolveds, ResolvedRef, Replaceds
<1>6. AttestInv(p)'
  BY <1>3, <1>5 DEF AttestInv, Between
<1> QED BY <1>4, <1>6

\* The pushes tell nothing (PushArtefact).
LEMMA PushTold ==
    ASSUME IInv, [Next]_vars, NEW p \in Procs, AttestInv(p), RelatedInv(p),
           WriteIndex(p) \/ TagAlias(p)
    PROVE  AttestInv(p)' /\ RelatedInv(p)'
<1>1. run[p] \in Run
  BY DEF IInv
<1>2. CASE WriteIndex(p)
  <2>1. run'[p] = [run[p] EXCEPT !.pc = "alias"]
    BY <1>2 DEF IInv, WriteIndex, Become
  <2> QED BY <1>1, <1>2, <2>1, SilentTold DEF Run, WriteIndex
<1>3. CASE TagAlias(p)
  <2>1. run'[p] = [run[p] EXCEPT !.pc = "done"]
    BY <1>3 DEF IInv, TagAlias, Become
  <2> QED BY <1>1, <1>3, <2>1, SilentTold DEF Run, TagAlias
<1> QED BY <1>2, <1>3

-----------------------------------------------------------------------------
(* Packages.                                                               *)

\* Statements ss tell of location l as it was, is resolved, and has become ref.
TellOf(ss, l, ref) ==
    \E orig, res, repl \in ss :
        /\ {s \in ss : s.loc = l} = {orig, res, repl}
        /\ orig.kind = "original" /\ res.kind = "resolved" /\ repl.kind = "replaced"
        /\ orig.ref.digest \in {NoDigest, res.ref.digest}
        /\ orig.ref = [res.ref EXCEPT !.digest = orig.ref.digest]
        /\ res.ref.digest \in stored[Dest]
        /\ repl.ref = ref

\* The statements of one package do so of all locations.
Attested(x) == \A l \in Locs : TellOf(x.statements, l, x.contents[l])

\* So does the package that a process is about to push (PushArtefact).
LEMMA PushedAttested ==
    ASSUME IInv, NEW p \in Procs, AttestInv(p), run[p].pc = "push"
    PROVE  Attested(PackageOf(p))
<1> DEFINE ss == run[p].statements
<1>1. run[p] \in Run /\ RunInv(p)
  BY DEF IInv
<1>2. /\ run[p].unresolved = {} /\ ss = Originals(p) \cup Resolveds(p) \cup Replaceds(p)
      /\ \A l \in Locs : Scanned[p][l].digest \in {NoDigest, run[p].resolved[l]}
  BY DEF AttestInv
<1>3. ASSUME NEW l \in Locs PROVE run[p].resolved[l] \in stored[Dest]
  <2>1. PICK k \in DOMAIN run[p].images : l \in run[p].images[k].locs
    BY <1>1 DEF RunInv, ImagesInv
  <2>2. run[p].images[k].digest = run[p].resolved[l] /\ Held(run[p].images[k].digest)
    BY <1>1, <2>1 DEF RunInv, ImagesInv, CopiedInv
  <2> QED BY <2>2 DEF Held
<1>4. PackageOf(p).statements = ss /\ PackageOf(p).contents = run[p].contents
  BY DEF PackageOf
<1> SUFFICES ASSUME NEW l \in Locs PROVE TellOf(ss, l, run[p].contents[l])
  BY <1>4 DEF Attested
<1> DEFINE orig == [kind |-> "original", loc |-> l, ref |-> OriginalRef(Scanned[p][l])]
           res == [kind |-> "resolved", loc |-> l, ref |-> ResolvedRef(p, l)]
           repl == [kind |-> "replaced", loc |-> l, ref |-> run[p].contents[l]]
<1>5. orig \in ss /\ res \in ss /\ repl \in ss
  BY <1>2 DEF Originals, Resolveds, Replaceds
<1>6. {s \in ss : s.loc = l} = {orig, res, repl}
  <2>1. \A s \in Originals(p) : s.loc = l => s = orig
    BY DEF Originals
  <2>2. \A s \in Resolveds(p) : s.loc = l => s = res
    BY DEF Resolveds
  <2>3. \A s \in Replaceds(p) : s.loc = l => s = repl
    BY DEF Replaceds
  <2>4. orig.loc = l /\ res.loc = l /\ repl.loc = l
    OBVIOUS
  <2> HIDE DEF ss, orig, res, repl
  <2> QED BY <1>2, <1>5, <2>1, <2>2, <2>3, <2>4
<1>7. /\ orig.ref.digest \in {NoDigest, res.ref.digest}
      /\ orig.ref = [res.ref EXCEPT !.digest = orig.ref.digest]
      /\ res.ref.digest \in stored[Dest]
  BY <1>2, <1>3 DEF OriginalRef, ResolvedRef
<1>8. /\ orig.kind = "original" /\ res.kind = "resolved" /\ repl.kind = "replaced"
      /\ repl.ref = run[p].contents[l]
  OBVIOUS
<1> HIDE DEF orig, res, repl, ss
<1> QED BY <1>5, <1>6, <1>7, <1>8 DEF TellOf

\* Packages keep telling the truth: nothing is removed from the destination.
LEMMA PackagesTold ==
    ASSUME IInv, [Next]_vars, StoryInv
    PROVE  AttestedPackages'
<1>1. \A x \in packages : Attested(x)
  BY DEF StoryInv, AttestedPackages, Attested, TellOf
<1>2. ASSUME NEW x, Attested(x) PROVE Attested(x)'
  <2>1. \A d : d \in stored[Dest] => d \in stored'[Dest]
    BY ContentsStay
  <2>2. ASSUME NEW ss, NEW l, NEW ref, TellOf(ss, l, ref) PROVE TellOf(ss, l, ref)'
    <3>1. PICK orig, res, repl \in ss :
            /\ {s \in ss : s.loc = l} = {orig, res, repl}
            /\ orig.kind = "original" /\ res.kind = "resolved" /\ repl.kind = "replaced"
            /\ orig.ref.digest \in {NoDigest, res.ref.digest}
            /\ orig.ref = [res.ref EXCEPT !.digest = orig.ref.digest]
            /\ res.ref.digest \in stored[Dest]
            /\ repl.ref = ref
      BY <2>2, Zenon DEF TellOf
    <3>2. res.ref.digest \in stored'[Dest]
      BY <2>1, <3>1
    <3> QED BY <3>1, <3>2, Zenon DEF TellOf
  <2> QED BY <1>2, <2>2, Zenon DEF Attested
<1>3. \A x \in packages' \ packages : \E p \in Procs : run[p].pc = "push" /\ x = PackageOf(p)
  BY DEF Next, Step, Fail, Abort, Author, Load, ResolveDigest, Dedup, FindRelatedTags,
     FindRelatedToManifests, FindIndexManifests, BeginCopy, CopyImage, VerifyCopy, BeginUpdate,
     ReplaceImage, Rescan, WriteIndex, TagAlias, vars, packageVars
<1>4. \A x \in packages' : Attested(x)
  BY <1>1, <1>3, PushedAttested DEF StoryInv
<1>5. \A x \in packages' : Attested(x)'
  BY <1>2, <1>4
<1> QED BY <1>5 DEF AttestedPackages, Attested, TellOf

-----------------------------------------------------------------------------
(* Theorems.                                                               *)

\* Nothing has been said or copied at first.
LEMMA InitStoryInv == Init => StoryInv
<1> SUFFICES ASSUME Init PROVE StoryInv
  OBVIOUS
<1>1. ASSUME NEW p \in Procs PROVE AttestInv(p) /\ RelatedInv(p)
  <2>1. /\ run[p].pc = "idle" /\ run[p].unresolved = Locs /\ run[p].related = {}
        /\ run[p].relatedToManifests = {} /\ run[p].copied = {}
    BY DEF Init
  <2> QED BY <2>1 DEF AttestInv, RelatedInv, Between
<1> QED BY <1>1 DEF Init, StoryInv, AttestedPackages

\* Every step keeps the story of every process.
LEMMA NextStoryInv == IInv /\ StoryInv /\ [Next]_vars => StoryInv'
<1> SUFFICES ASSUME IInv, StoryInv, [Next]_vars PROVE StoryInv'
  OBVIOUS
<1>1. ASSUME NEW p \in Procs PROVE AttestInv(p) /\ RelatedInv(p)
  BY DEF StoryInv
<1>2. ASSUME NEW p \in Procs, Step(p) PROVE AttestInv(p)' /\ RelatedInv(p)'
  BY <1>1, <1>2, LoadTold, ResolveDigestTold, DedupTold, FindRelatedTold, PhaseTold, VerifyCopyTold,
     BeginUpdateTold, ReplaceImageTold, RescanTold, PushTold DEF Step
<1>3. ASSUME NEW p \in Procs, Fail(p) PROVE AttestInv(p)' /\ RelatedInv(p)'
  BY <1>1, <1>3, AbortTold DEF Fail
<1>4. ASSUME NEW p \in Procs, Step(p) \/ Fail(p), NEW q \in Procs, q # p PROVE run'[q] = run[q]
  BY <1>4 DEF Step, Fail, Abort, Become, Load, ResolveDigest, Dedup, FindRelatedTags,
     FindRelatedToManifests, FindIndexManifests, BeginCopy, CopyImage, VerifyCopy, BeginUpdate,
     ReplaceImage, Rescan, WriteIndex, TagAlias, IInv
<1>5. ASSUME NEW q \in Procs PROVE AttestInv(q)' /\ RelatedInv(q)'
  <2>1. CASE run'[q] = run[q]
    BY <1>1, <2>1, StoryKept
  <2>2. CASE \E p \in Procs : Step(p) \/ Fail(p)
    BY <1>2, <1>3, <1>4, <2>1, <2>2
  <2>3. CASE Author \/ UNCHANGED vars
    BY <2>1, <2>3 DEF Author, vars
  <2> QED BY <2>2, <2>3 DEF Next
<1> QED BY <1>5, PackagesTold DEF StoryInv

\* Both invariants hold.
THEOREM StoryInvariance == Spec => []StoryInv
BY InitStoryInv, NextStoryInv, Invariance, PTL DEF Spec

\* The attestations of every package tell one story of each image reference,
\* that agrees with its manifests and with what is in the destination, for any
\* number of processes, images and locations (AssociateStatements, Execute).
THEOREM PackagesAttested == Spec => []AttestedPackages
<1>1. StoryInv => AttestedPackages
  BY DEF StoryInv
<1> QED BY <1>1, StoryInvariance, PTL

\* Each cosign artefact that was found is in the destination, under a tag of its
\* name, before the manifests are updated (FindRelatedTags, CopyImages).
THEOREM RelatedAreCopied == Spec => []RelatedCopied
<1>1. IInv /\ StoryInv => RelatedCopied
  <2> SUFFICES ASSUME IInv, StoryInv, NEW p \in Procs,
                      run[p].pc \in {"update", "push", "alias", "done"},
                      NEW i \in run[p].related \cup run[p].relatedToManifests
               PROVE  i.digest \in stored[Dest] /\ tags[Dest][i.tag] # NoDigest
    BY DEF RelatedCopied
  <2>1. RelatedInv(p) /\ CopiedInv(p)
    BY DEF IInv, RunInv, StoryInv
  <2>2. PICK n \in {2, 3} : <<n, i>> \in run[p].copied
    BY <2>1 DEF RelatedInv
  <2>3. i.tag \in CosignTags
    BY <2>1 DEF RelatedInv
  <2>4. tags[Dest][NewTag(<<n, i>>[2])] # NoDigest /\ Held(<<n, i>>[2].digest)
    BY <2>1, <2>2 DEF RelatedInv, CopiedInv
  <2> QED BY <2>3, <2>4 DEF NewTag, Held
<1> QED BY <1>1, StoryInvariance, Invariance, PTL
=============================================================================
