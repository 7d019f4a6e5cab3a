------------------------------- MODULE RunsProof -------------------------------
(***************************************************************************)
(* Proofs about the runs of `tape package` as a whole: each goes ahead and *)
(* never back, ends with an error only for a reason, and what it copied    *)
(* keeps its tag unless somebody takes it.                                 *)
(***************************************************************************)
EXTENDS AttestedProof, WellFoundedInduction

\* A cosign artefact x is about image i.
About(x, i) == x.name = i.name /\ x.tag \in CosignTags /\ Subject[x.tag] = i.digest

\* Artefacts that were found are about images that have been listed.
ListInv(p) ==
    /\ run[p].pc \in {"idle", "resolve"} => run[p].related = {}
    /\ run[p].pc \in {"idle", "resolve", "related"} => run[p].relatedToManifests = {}
    /\ run[p].pc = "related" =>
         /\ ItemsOf(run[p]) = Items(run[p]) /\ run[p].unlisted \subseteq Items(run[p])
         /\ \A x \in run[p].related : \E j \in Items(run[p]) \ run[p].unlisted : About(x, j)
    /\ run[p].pc = "relatedToManifests" =>
         /\ \A i \in run[p].unlisted : i.tag = NoTag /\ i.locs = {}
         /\ \A x \in run[p].relatedToManifests : \A i \in run[p].unlisted : ~About(x, i)

\* A copy is written and verified before the next one is begun.
OneCopyInv(p) ==
    /\ run[p].pc \notin {"verify", "failed"} => run[p].copying = {}
    /\ run[p].pc = "verify" => \E c \in Left(run[p]) : run[p].copying = {c}

OrderInv(p) == ListInv(p) /\ OneCopyInv(p)

\* What process p has copied, verified or not.
CopiesOf(p) == run[p].copied \cup run[p].copying

\* What a step of p does to what is left to it.
Ahead(p) ==
    \/ Phase(run'[p]) > Phase(run[p])
    \/ /\ Phase(run'[p]) = Phase(run[p])
       /\ Work(run'[p]) \subseteq Work(run[p]) /\ Work(run'[p]) # Work(run[p])

\* A step of p in its order.
Goes(p) ==
    /\ OrderInv(p)' /\ Ahead(p)
    /\ \/ CopiesOf(p)' = CopiesOf(p) /\ run'[p].pc # "verify"
       \/ \E c \in NextCopies(run[p]) : CopyImage(p, c) /\ CopiesOf(p)' = CopiesOf(p) \cup {c}

-----------------------------------------------------------------------------
(* The steps go ahead.                                                     *)

\* A run that is aborted is at its end (Execute).
LEMMA AbortGoes ==
    ASSUME IInv, NEW p \in Procs, OrderInv(p), run[p].pc \notin {"done", "failed"}, Abort(p)
    PROVE  Goes(p)
<1>1. run[p] \in Run
  BY DEF IInv
<1>2. run'[p] = [run[p] EXCEPT !.pc = "failed"]
  BY DEF IInv, Abort, Become
<1>3. /\ run'[p].pc = "failed" /\ run'[p].copied = run[p].copied
      /\ run'[p].copying = run[p].copying
  BY <1>1, <1>2 DEF Run
<1>4. Phase(run'[p]) = 8 /\ Phase(run[p]) \in 0..7
  BY <1>1, <1>3 DEF Phase, Run
<1> QED BY <1>3, <1>4 DEF Goes, Ahead, OrderInv, ListInv, OneCopyInv, CopiesOf

\* So does the first scan (Execute).
LEMMA LoadGoes ==
    ASSUME IInv, NEW p \in Procs, OrderInv(p), Load(p)
    PROVE  Goes(p) /\ run'[p].pc # "failed"
<1>1. run[p] \in Run
  BY DEF IInv
<1>2. run'[p] = [run[p] EXCEPT !.pc = "resolve",
                              !.statements = Statements("original", GetImages(run[p]))]
  BY DEF IInv, Load, Become
<1>3. /\ run[p].pc = "idle" /\ run'[p].pc = "resolve"
      /\ run'[p].related = run[p].related /\ run'[p].relatedToManifests = run[p].relatedToManifests
      /\ run'[p].copied = run[p].copied /\ run'[p].copying = run[p].copying
  BY <1>1, <1>2 DEF Run, Load
<1>4. Phase(run'[p]) = 1 /\ Phase(run[p]) = 0
  BY <1>3 DEF Phase
<1> QED BY <1>3, <1>4 DEF Goes, Ahead, OrderInv, ListInv, OneCopyInv, CopiesOf

\* A location is looked up once (ResolveDigests).
LEMMA ResolveDigestGoes ==
    ASSUME IInv, NEW p \in Procs, OrderInv(p), NEW l \in Locs, ResolveDigest(p, l)
    PROVE  Goes(p) /\ (run'[p].pc = "failed" => ~Resolves(run[p].contents[l]))
<1> DEFINE d == Digest(run[p].contents[l])
<1>1. run[p] \in Run /\ run[p].pc = "resolve" /\ l \in run[p].unresolved
  BY DEF IInv, ResolveDigest
<1>2. CASE ~Resolves(run[p].contents[l])
  BY <1>1, <1>2, AbortGoes DEF ResolveDigest
<1>3. CASE Resolves(run[p].contents[l])
  <2>1. run'[p] = [run[p] EXCEPT !.resolved[l] = d, !.unresolved = @ \ {l}]
    BY <1>3 DEF IInv, Become, ResolveDigest
  <2>2. /\ run'[p].pc = "resolve" /\ run'[p].unresolved = run[p].unresolved \ {l}
        /\ run'[p].related = run[p].related /\ run'[p].relatedToManifests = run[p].relatedToManifests
        /\ run'[p].copied = run[p].copied /\ run'[p].copying = run[p].copying
    BY <1>1, <2>1 DEF Run
  <2>3. Phase(run'[p]) = Phase(run[p])
    BY <1>1, <2>2 DEF Phase
  <2>4. Work(run'[p]) = run[p].unresolved \ {l} /\ Work(run[p]) = run[p].unresolved
    BY <1>1, <2>2 DEF Work
  <2>5. Ahead(p)
    BY <1>1, <2>3, <2>4 DEF Ahead
  <2> QED BY <1>1, <2>2, <2>5 DEF Goes, OrderInv, ListInv, OneCopyInv, CopiesOf
<1> QED BY <1>2, <1>3

\* The merged images are listed, none of them yet (Dedup).
LEMMA DedupGoes ==
    ASSUME IInv, NEW p \in Procs, OrderInv(p), Dedup(p)
    PROVE  Goes(p) /\ run'[p].pc # "failed"
<1>1. run[p] \in Run /\ run[p].pc = "resolve" /\ run[p].unresolved = {}
  BY DEF IInv, Dedup
<1>2. PICK is \in Orderings(Items(run[p])) :
        Become(p, [run[p] EXCEPT !.pc = "related", !.images = is, !.unlisted = Items(run[p]),
                                 !.statements = @ \cup Statements("resolved", Items(run[p]))])
  BY DEF Dedup
<1>3. run'[p] = [run[p] EXCEPT !.pc = "related", !.images = is, !.unlisted = Items(run[p]),
                              !.statements = @ \cup Statements("resolved", Items(run[p]))]
  BY <1>2 DEF IInv, Become
<1>4. /\ run'[p].pc = "related" /\ run'[p].images = is /\ run'[p].unlisted = Items(run[p])
      /\ run'[p].contents = run[p].contents /\ run'[p].resolved = run[p].resolved
      /\ run'[p].related = run[p].related /\ run'[p].relatedToManifests = run[p].relatedToManifests
      /\ run'[p].copied = run[p].copied /\ run'[p].copying = run[p].copying
  BY <1>1, <1>3 DEF Run
<1>5. Items(run'[p]) = Items(run[p])
  BY <1>4 DEF Items, ItemOf, SameItem
<1>6. ItemsOf(run'[p]) = Items(run[p])
  BY <1>2, <1>4 DEF ItemsOf, Orderings, Surjection
<1>7. Phase(run'[p]) = 2 /\ Phase(run[p]) = 1
  BY <1>1, <1>4 DEF Phase
<1> QED BY <1>1, <1>4, <1>5, <1>6, <1>7 DEF Goes, Ahead, OrderInv, ListInv, OneCopyInv, CopiesOf

\* What is found by listing an image is about the image (ListRelated).
LEMMA FoundAbout ==
    ASSUME NEW i, NEW x \in RelatedTo(i)
    PROVE  About(x, i)
BY DEF RelatedTo, ListRelated, About

\* An image is listed once (FindRelatedTags).
LEMMA FindRelatedTagsGoes ==
    ASSUME IInv, NEW p \in Procs, OrderInv(p), NEW i \in run[p].unlisted, FindRelatedTags(p, i)
    PROVE  Goes(p) /\ (run'[p].pc = "failed" => RelatedTo(i) \cap run[p].related # {})
<1>1. run[p] \in Run /\ run[p].pc = "related"
  BY DEF IInv, FindRelatedTags
<1>2. CASE RelatedTo(i) \cap run[p].related # {}
  BY <1>1, <1>2, AbortGoes DEF FindRelatedTags
<1>3. CASE RelatedTo(i) \cap run[p].related = {}
  <2>1. run'[p] = [run[p] EXCEPT !.unlisted = @ \ {i}, !.related = @ \cup RelatedTo(i)]
    BY <1>3 DEF IInv, Become, FindRelatedTags
  <2>2. /\ run'[p].pc = "related" /\ run'[p].unlisted = run[p].unlisted \ {i}
        /\ run'[p].related = run[p].related \cup RelatedTo(i)
        /\ run'[p].relatedToManifests = run[p].relatedToManifests
        /\ run'[p].images = run[p].images
        /\ run'[p].contents = run[p].contents /\ run'[p].resolved = run[p].resolved
        /\ run'[p].copied = run[p].copied /\ run'[p].copying = run[p].copying
    BY <1>1, <2>1 DEF Run
  <2>3. Items(run'[p]) = Items(run[p]) /\ ItemsOf(run'[p]) = ItemsOf(run[p])
    BY <2>2 DEF Items, ItemOf, SameItem, ItemsOf
  <2>4. Phase(run'[p]) = Phase(run[p])
    BY <1>1, <2>2 DEF Phase
  <2>5. Work(run'[p]) = run[p].unlisted \ {i} /\ Work(run[p]) = run[p].unlisted
    BY <1>1, <2>2 DEF Work
  <2>6. Ahead(p)
    BY <2>4, <2>5 DEF Ahead
  <2>7. run[p].unlisted \subseteq Items(run[p]) /\ ItemsOf(run[p]) = Items(run[p])
    BY <1>1 DEF OrderInv, ListInv
  <2>8. ASSUME NEW x \in run'[p].related
        PROVE  \E j \in Items(run[p]) \ run'[p].unlisted : About(x, j)
    <3>1. CASE x \in RelatedTo(i)
      BY <2>2, <2>7, <3>1, FoundAbout
    <3>2. CASE x \in run[p].related
      BY <1>1, <2>2, <3>2 DEF OrderInv, ListInv
    <3> QED BY <2>2, <3>1, <3>2
  <2>9. ListInv(p)'
    BY <1>1, <2>2, <2>3, <2>7, <2>8 DEF OrderInv, ListInv, About
  <2> QED BY <1>1, <2>2, <2>6, <2>9 DEF Goes, OrderInv, OneCopyInv, CopiesOf
<1> QED BY <1>2, <1>3

\* So is a manifest; artefacts of one are not about another, because manifests
\* with one name differ in their digests (FindRelatedFromIndecies).
LEMMA FindRelatedToManifestsGoes ==
    ASSUME IInv, NEW p \in Procs, OrderInv(p), NEW i \in run[p].unlisted,
           FindRelatedToManifests(p, i)
    PROVE  Goes(p) /\ run'[p].pc # "failed"
<1>1. run[p] \in Run /\ run[p].pc = "relatedToManifests"
  BY DEF IInv, FindRelatedToManifests
<1>2. RelatedTo(i) \cap run[p].relatedToManifests = {}
  BY <1>1, FoundAbout DEF OrderInv, ListInv
<1>3. Become(p, [run[p] EXCEPT !.unlisted = @ \ {i}, !.relatedToManifests = @ \cup RelatedTo(i)])
  BY <1>2 DEF FindRelatedToManifests
<1>4. run'[p] = [run[p] EXCEPT !.unlisted = @ \ {i}, !.relatedToManifests = @ \cup RelatedTo(i)]
  BY <1>3 DEF IInv, Become
<1>5. /\ run'[p].pc = "relatedToManifests" /\ run'[p].unlisted = run[p].unlisted \ {i}
      /\ run'[p].relatedToManifests = run[p].relatedToManifests \cup RelatedTo(i)
      /\ run'[p].copied = run[p].copied /\ run'[p].copying = run[p].copying
  BY <1>1, <1>4 DEF Run
<1>6. Phase(run'[p]) = Phase(run[p])
  BY <1>1, <1>5 DEF Phase
<1>7. Work(run'[p]) = run[p].unlisted \ {i} /\ Work(run[p]) = run[p].unlisted
  BY <1>1, <1>5 DEF Work
<1>8. Ahead(p)
  BY <1>6, <1>7 DEF Ahead
<1>9. ASSUME NEW x \in RelatedTo(i), NEW j \in run[p].unlisted \ {i}, About(x, j) PROVE FALSE
  <2>1. i \in Image /\ j \in Image
    BY <1>1 DEF Run
  <2>2. i.name = j.name /\ i.digest = j.digest
    BY <1>9, FoundAbout DEF About
  <2>3. i.tag = j.tag /\ i.locs = j.locs
    BY <1>1 DEF OrderInv, ListInv
  <2> QED BY <2>1, <2>2, <2>3 DEF Image
<1>10. ListInv(p)'
  BY <1>1, <1>5, <1>9 DEF OrderInv, ListInv, About
<1> QED BY <1>1, <1>5, <1>8, <1>10 DEF Goes, OrderInv, OneCopyInv, CopiesOf

\* All images are indexes, and they list different manifests.
ListsApart(is) ==
    /\ \A i \in is : IsIndex(i)
    /\ \A i, j \in is : i # j => ManifestsOf(i) \cap ManifestsOf(j) = {}

\* The manifests of the images are listed next, none of them yet
\* (FindRelatedFromIndecies).
LEMMA FindIndexManifestsGoes ==
    ASSUME IInv, NEW p \in Procs, OrderInv(p), FindIndexManifests(p)
    PROVE  /\ Goes(p)
           /\ run'[p].pc = "failed" => ~ListsApart(ItemsOf(run[p]))
<1> DEFINE ms == UNION {ManifestsOf(i) : i \in ItemsOf(run[p])}
<1>1. run[p] \in Run /\ run[p].pc = "related"
  BY DEF IInv, FindIndexManifests
<1>2. CASE ~ListsApart(ItemsOf(run[p]))
  BY <1>1, <1>2, AbortGoes DEF FindIndexManifests, ListsApart
<1>3. CASE ListsApart(ItemsOf(run[p]))
  <2>1. run'[p] = [run[p] EXCEPT !.pc = "relatedToManifests", !.unlisted = ms]
    BY <1>3 DEF IInv, Become, FindIndexManifests, ListsApart
  <2>2. \A i \in ms : i.tag = NoTag /\ i.locs = {}
    BY DEF ManifestsOf
  <2> HIDE DEF ms
  <2>3. /\ run'[p].pc = "relatedToManifests" /\ run'[p].unlisted = ms
        /\ run'[p].relatedToManifests = run[p].relatedToManifests
        /\ run'[p].copied = run[p].copied /\ run'[p].copying = run[p].copying
    BY <1>1, <2>1 DEF Run
  <2>4. Phase(run'[p]) = 3 /\ Phase(run[p]) = 2
    BY <1>1, <2>3 DEF Phase
  <2> QED BY <1>1, <2>2, <2>3, <2>4 DEF Goes, Ahead, OrderInv, ListInv, OneCopyInv, CopiesOf
<1> QED BY <1>2, <1>3

\* The steps that only begin the next phase (CopyImages, Execute, PushArtefact).
LEMMA PhaseGoes ==
    ASSUME IInv, NEW p \in Procs, OrderInv(p),
           BeginCopy(p) \/ BeginUpdate(p) \/ WriteIndex(p) \/ TagAlias(p)
    PROVE  Goes(p) /\ run'[p].pc # "failed"
<1>1. run[p] \in Run
  BY DEF IInv
<1>2. PICK pc \in {"copy", "update", "alias", "done"} :
        /\ Become(p, [run[p] EXCEPT !.pc = pc])
        /\ \/ pc = "copy" /\ run[p].pc = "relatedToManifests"
           \/ pc = "update" /\ run[p].pc = "copy"
           \/ pc = "alias" /\ run[p].pc = "push"
           \/ pc = "done" /\ run[p].pc = "alias"
  BY DEF BeginCopy, BeginUpdate, WriteIndex, TagAlias
<1>3. run'[p] = [run[p] EXCEPT !.pc = pc]
  BY <1>2 DEF IInv, Become
<1>4. /\ run'[p].pc = pc /\ run'[p].copied = run[p].copied
      /\ run'[p].copying = run[p].copying
  BY <1>1, <1>3 DEF Run
<1>5. Phase(run'[p]) > Phase(run[p])
  BY <1>2, <1>4 DEF Phase
<1> QED BY <1>2, <1>4, <1>5 DEF Goes, Ahead, OrderInv, ListInv, OneCopyInv, CopiesOf

\* A copy that is left is written once (CopyImages).
LEMMA CopyImageGoes ==
    ASSUME IInv, NEW p \in Procs, OrderInv(p), NEW c \in NextCopies(run[p]), CopyImage(p, c)
    PROVE  Goes(p) /\ run'[p].pc # "failed"
<1>1. run[p] \in Run /\ run[p].pc = "copy" /\ run[p].copying = {} /\ c \in Left(run[p])
  BY DEF IInv, CopyImage, OrderInv, OneCopyInv, NextCopies
<1>2. run'[p] = [run[p] EXCEPT !.pc = "verify", !.copying = {c}]
  BY DEF IInv, CopyImage, Become
<1>3. /\ run'[p].pc = "verify" /\ run'[p].copying = {c} /\ run'[p].copied = run[p].copied
      /\ run'[p].images = run[p].images /\ run'[p].related = run[p].related
      /\ run'[p].relatedToManifests = run[p].relatedToManifests
  BY <1>1, <1>2 DEF Run
<1>4. Left(run'[p]) = Left(run[p])
  BY <1>3 DEF Left, ItemsOf
<1>5. Phase(run'[p]) = Phase(run[p])
  BY <1>1, <1>3 DEF Phase
<1>6. /\ Work(run[p]) = (Left(run[p]) \X {"verify"}) \cup ((Left(run[p]) \ {}) \X {"write"})
      /\ Work(run'[p]) = (Left(run[p]) \X {"verify"}) \cup ((Left(run[p]) \ {c}) \X {"write"})
  BY <1>1, <1>3, <1>4 DEF Work
<1>7. Work(run'[p]) \subseteq Work(run[p])
  BY <1>6
<1>8. <<c, "write">> \in Work(run[p]) /\ <<c, "write">> \notin Work(run'[p])
  BY <1>1, <1>6
<1> QED BY <1>1, <1>3, <1>4, <1>5, <1>7, <1>8
        DEF Goes, Ahead, OrderInv, ListInv, OneCopyInv, CopiesOf

\* And verified once (Copy).
LEMMA VerifyCopyGoes ==
    ASSUME IInv, NEW p \in Procs, OrderInv(p), VerifyCopy(p)
    PROVE  /\ Goes(p)
           /\ run'[p].pc = "failed" =>
                \E c \in run[p].copying : tags[Dest][NewTag(c[2])] # c[2].digest
<1>1. run[p] \in Run /\ run[p].pc = "verify"
  BY DEF IInv, VerifyCopy
<1>2. PICK c \in Left(run[p]) : run[p].copying = {c}
  BY <1>1 DEF OrderInv, OneCopyInv
<1>3. CASE \E d \in run[p].copying : tags[Dest][NewTag(d[2])] # d[2].digest
  BY <1>1, <1>3, AbortGoes DEF VerifyCopy
<1>4. CASE \A d \in run[p].copying : tags[Dest][NewTag(d[2])] = d[2].digest
  <2>1. run'[p] = [run[p] EXCEPT !.pc = "copy", !.copied = @ \cup run[p].copying, !.copying = {}]
    BY <1>4 DEF IInv, Become, VerifyCopy
  <2>2. /\ run'[p].pc = "copy" /\ run'[p].copying = {} /\ run'[p].copied = run[p].copied \cup {c}
        /\ run'[p].images = run[p].images /\ run'[p].related = run[p].related
        /\ run'[p].relatedToManifests = run[p].relatedToManifests
    BY <1>1, <1>2, <2>1 DEF Run
  <2>3. Left(run'[p]) = Left(run[p]) \ {c}
    BY <2>2 DEF Left, ItemsOf
  <2>4. Phase(run'[p]) = Phase(run[p])
    BY <1>1, <2>2 DEF Phase
  <2>5. /\ Work(run[p]) = (Left(run[p]) \X {"verify"}) \cup ((Left(run[p]) \ {c}) \X {"write"})
        /\ Work(run'[p]) = (Left(run'[p]) \X {"verify"}) \cup ((Left(run'[p]) \ {}) \X {"write"})
    BY <1>1, <1>2, <2>2 DEF Work
  <2>6. Work(run'[p]) \subseteq Work(run[p])
    BY <2>3, <2>5
  <2>7. <<c, "verify">> \in Work(run[p]) /\ <<c, "verify">> \notin Work(run'[p])
    BY <1>2, <2>3, <2>5
  <2> QED BY <1>2, <2>2, <2>4, <2>6, <2>7 DEF Goes, Ahead, OrderInv, ListInv, OneCopyInv, CopiesOf
<1> QED BY <1>3, <1>4

\* A filter runs once; after the last one the manifests are scanned (doUpdate).
LEMMA UpdateGoes ==
    ASSUME IInv, NEW p \in Procs, OrderInv(p), ReplaceImage(p) \/ Rescan(p)
    PROVE  Goes(p) /\ run'[p].pc # "failed"
<1>1. run[p] \in Run /\ run[p].pc = "update"
  BY DEF IInv, ReplaceImage, Rescan
<1>2. CASE ReplaceImage(p)
  <2> DEFINE new == [l \in Locs |-> IF Matches(p, run[p].images[run[p].cursor], l)
                                    THEN NewRef(run[p].images[run[p].cursor]) ELSE run[p].contents[l]]
  <2>1. run'[p] = [run[p] EXCEPT !.cursor = @ + 1, !.contents = new]
    BY <1>2 DEF IInv, ReplaceImage, Become
  <2> HIDE DEF new
  <2>2. /\ run'[p].pc = "update" /\ run'[p].cursor = run[p].cursor + 1
        /\ run'[p].images = run[p].images
        /\ run'[p].copied = run[p].copied /\ run'[p].copying = run[p].copying
    BY <1>1, <2>1 DEF Run
  <2>3. /\ run[p].cursor \in 1..Len(run[p].images) /\ Len(run[p].images) \in Nat
    BY <1>1, <1>2 DEF ReplaceImage, Run
  <2>4. Phase(run'[p]) = Phase(run[p])
    BY <1>1, <2>2 DEF Phase
  <2>5. /\ Work(run[p]) = run[p].cursor..Len(run[p].images)
        /\ Work(run'[p]) = (run[p].cursor + 1)..Len(run[p].images)
    BY <1>1, <2>2 DEF Work
  <2>6. Work(run'[p]) \subseteq Work(run[p])
    BY <2>3, <2>5
  <2>7. run[p].cursor \in Work(run[p]) /\ run[p].cursor \notin Work(run'[p])
    BY <2>3, <2>5
  <2> QED BY <1>1, <2>2, <2>4, <2>6, <2>7 DEF Goes, Ahead, OrderInv, ListInv, OneCopyInv, CopiesOf
<1>3. CASE Rescan(p)
  <2>1. run'[p] = [run[p] EXCEPT !.pc = "push", !.statements = @ \cup Replaced(run[p])]
    BY <1>3 DEF IInv, Rescan, Become
  <2>2. /\ run'[p].pc = "push"
        /\ run'[p].copied = run[p].copied /\ run'[p].copying = run[p].copying
    BY <1>1, <2>1 DEF Run
  <2>3. Phase(run'[p]) > Phase(run[p])
    BY <1>1, <2>2 DEF Phase
  <2> QED BY <1>1, <2>2, <2>3 DEF Goes, Ahead, OrderInv, ListInv, OneCopyInv, CopiesOf
<1> QED BY <1>2, <1>3

\* Every step of a process goes ahead, be it the one in which it is killed.
LEMMA StepGoes ==
    ASSUME IInv, NEW p \in Procs, OrderInv(p), Step(p) \/ Fail(p)
    PROVE  Goes(p)
<1>1. CASE Fail(p)
  BY <1>1, AbortGoes DEF Fail
<1>2. CASE Step(p)
  BY <1>2, LoadGoes, ResolveDigestGoes, DedupGoes, FindRelatedTagsGoes, FindRelatedToManifestsGoes,
     FindIndexManifestsGoes, PhaseGoes, CopyImageGoes, VerifyCopyGoes, UpdateGoes DEF Step
<1> QED BY <1>1, <1>2

\* No process is touched by the step of another one, or of an author.
LEMMA OneMoves ==
    ASSUME IInv, Next
    PROVE  \/ Author /\ run' = run
           \/ \E p \in Procs : (Step(p) \/ Fail(p)) /\ \A q \in Procs \ {p} : run'[q] = run[q]
<1>1. ASSUME NEW p \in Procs, Step(p) \/ Fail(p), NEW q \in Procs \ {p} PROVE run'[q] = run[q]
  BY <1>1 DEF Step, Fail, Abort, Become, Load, ResolveDigest, Dedup, FindRelatedTags,
     FindRelatedToManifests, FindIndexManifests, BeginCopy, CopyImage, VerifyCopy, BeginUpdate,
     ReplaceImage, Rescan, WriteIndex, TagAlias, IInv
<1> QED BY <1>1 DEF Next, Author

-----------------------------------------------------------------------------
(* The tags of copies.                                                     *)

\* What has been copied under a tag by now, or can be put there by others.
KnownUnder(t) == (UNION {CopiedUnder(q, t) : q \in Procs}) \cup Others(t)
TakenBy(p, t) == (UNION {CopiedUnder(q, t) : q \in Procs \ {p}}) \cup Others(t)

\* The tag of a copy leads to a copy, that is verified to the very copy, until
\* someone else takes the tag.
TagInv(p) ==
    /\ run[p].pc = "verify" => \A c \in run[p].copying :
         tags[Dest][NewTag(c[2])] \in {c[2].digest} \cup TakenBy(p, NewTag(c[2]))
    /\ \A c \in CopiesOf(p) : tags[Dest][NewTag(c[2])] \in KnownUnder(NewTag(c[2]))

RunsInv == \A p \in Procs : OrderInv(p) /\ TagInv(p)

\* All processes keep what they have copied (CopyImages).
LEMMA CopiesKept ==
    ASSUME IInv, [Next]_vars, \A p \in Procs : OrderInv(p), NEW q \in Procs
    PROVE  CopiesOf(q) \subseteq CopiesOf(q)'
<1>1. CASE run'[q] = run[q]
  BY <1>1 DEF CopiesOf
<1>2. CASE Step(q) \/ Fail(q)
  BY <1>2, StepGoes DEF Goes
<1>3. run'[q] = run[q] \/ Step(q) \/ Fail(q)
  BY OneMoves DEF vars
<1> QED BY <1>1, <1>2, <1>3

\* So what is known of a tag only grows.
LEMMA KnownGrows ==
    ASSUME IInv, [Next]_vars, \A p \in Procs : OrderInv(p), NEW t
    PROVE  /\ \A q \in Procs : CopiedUnder(q, t) \subseteq CopiedUnder(q, t)'
           /\ KnownUnder(t) \subseteq KnownUnder(t)'
           /\ \A p \in Procs : TakenBy(p, t) \subseteq TakenBy(p, t)'
<1>1. ASSUME NEW q \in Procs PROVE CopiedUnder(q, t) \subseteq CopiedUnder(q, t)'
  BY CopiesKept DEF CopiesOf, CopiedUnder
<1>2. Others(t)' = Others(t)
  BY DEF Others
<1>3. KnownUnder(t) \subseteq KnownUnder(t)'
  BY <1>1, <1>2 DEF KnownUnder
<1>4. ASSUME NEW p \in Procs PROVE TakenBy(p, t) \subseteq TakenBy(p, t)'
  BY <1>1, <1>2 DEF TakenBy
<1> QED BY <1>1, <1>3, <1>4

\* A tag that copies have is moved by a copy to it, or by the authors of the
\* destination (Copy).
LEMMA TagMoved ==
    ASSUME IInv, [Next]_vars, NEW t \in CopyTags, tags'[Dest][t] # tags[Dest][t]
    PROVE  \/ tags'[Dest][t] \in Others(t)
           \/ \E q \in Procs : \E c \in NextCopies(run[q]) :
                CopyImage(q, c) /\ NewTag(c[2]) = t /\ tags'[Dest][t] = c[2].digest
<1>1. /\ RegistryTypeOK /\ Dest \in Repos /\ run \in [Procs -> Run] /\ t \in AllTags
  BY RegistryAssumption DEF IInv, Repos, CopyTags, AllTags
<1>2. ~UNCHANGED registryVars
  BY DEF registryVars
<1>3. ASSUME NEW q \in Procs, NEW c \in NextCopies(run[q]), CopyImage(q, c)
      PROVE  NewTag(c[2]) = t /\ tags'[Dest][t] = c[2].digest
  <2>1. c[2] \in Image
    BY <1>1, LeftType DEF NextCopies, Copy
  <2>2. NewTag(c[2]) \in AllTags
    BY <2>1, RefTypes
  <2>3. tags' = [tags EXCEPT ![Dest][NewTag(c[2])] = c[2].digest]
    BY <1>3 DEF CopyImage, Push
  <2> QED BY <1>1, <2>2, <2>3 DEF RegistryTypeOK
<1>4. ASSUME NEW n \in Names, NEW u \in Tags, Retag(n, u)
      PROVE  tags'[Dest][t] \in Others(t)
  <2>1. PICK d \in Versions[n][u] : tags' = [tags EXCEPT ![n][u] = d]
    BY <1>4 DEF Retag
  <2>2. n \in Repos /\ u \in AllTags
    BY DEF Repos, AllTags
  <2>3. n = Dest /\ u = t /\ tags'[Dest][t] = d
    BY <1>1, <2>1, <2>2 DEF RegistryTypeOK
  <2> QED BY <2>1, <2>3 DEF Others
<1>5. ASSUME NEW p \in Procs, Step(p) \/ Fail(p)
      PROVE  \E c \in NextCopies(run[p]) : CopyImage(p, c)
  BY <1>2, <1>5 DEF Step, Fail, Abort, Load, ResolveDigest, Dedup, FindRelatedTags,
     FindRelatedToManifests, FindIndexManifests, BeginCopy, VerifyCopy, BeginUpdate, ReplaceImage,
     Rescan, WriteIndex, TagAlias
<1>6. Next
  BY <1>2 DEF vars
<1> QED BY <1>3, <1>4, <1>5, <1>6 DEF Next, Author

\* A copy is made with the digest of its image under the tag of its image, and
\* known as soon as it is written (Copy).
LEMMA CopyKnown ==
    ASSUME IInv, NEW p \in Procs, NEW c \in NextCopies(run[p]), CopyImage(p, c)
    PROVE  /\ run'[p].copying = {c} /\ run'[p].pc = "verify" /\ run[p].pc = "copy"
           /\ c[2] \in Image /\ tags'[Dest][NewTag(c[2])] = c[2].digest
           /\ c[2].digest \in CopiedUnder(p, NewTag(c[2]))'
<1>1. /\ run[p] \in Run /\ RegistryTypeOK /\ Dest \in Repos
  BY DEF IInv, Repos
<1>2. run'[p] = [run[p] EXCEPT !.pc = "verify", !.copying = {c}]
  BY DEF IInv, CopyImage, Become
<1>3. run'[p].copying = {c} /\ run'[p].pc = "verify" /\ run[p].pc = "copy"
  BY <1>1, <1>2 DEF Run, CopyImage
<1>4. c[2] \in Image
  BY <1>1, LeftType DEF NextCopies, Copy
<1>5. NewTag(c[2]) \in AllTags
  BY <1>4, RefTypes
<1>6. tags'[Dest][NewTag(c[2])] = c[2].digest
  BY <1>1, <1>5 DEF CopyImage, Push, RegistryTypeOK
<1>7. c[2].digest \in CopiedUnder(p, NewTag(c[2]))'
  BY <1>3 DEF CopiedUnder
<1> QED BY <1>3, <1>4, <1>6, <1>7

\* What a tag of a copy leads to is known after a step if it was before.
LEMMA KnownKept ==
    ASSUME IInv, [Next]_vars, \A p \in Procs : OrderInv(p), NEW t \in CopyTags,
           tags[Dest][t] \in KnownUnder(t)
    PROVE  tags'[Dest][t] \in KnownUnder(t)'
<1>1. CASE tags'[Dest][t] = tags[Dest][t]
  BY <1>1, KnownGrows
<1>2. CASE tags'[Dest][t] \in Others(t)
  BY <1>2 DEF KnownUnder, Others
<1>3. ASSUME NEW q \in Procs, NEW c \in NextCopies(run[q]),
             CopyImage(q, c), NewTag(c[2]) = t, tags'[Dest][t] = c[2].digest
      PROVE  tags'[Dest][t] \in KnownUnder(t)'
  BY <1>3, CopyKnown DEF KnownUnder
<1> QED BY <1>1, <1>2, <1>3, TagMoved

\* While a process waits to verify a copy, the tag leads to it or is taken.
LEMMA VerifyKept ==
    ASSUME IInv, [Next]_vars, \A p \in Procs : OrderInv(p), NEW p \in Procs, TagInv(p),
           run'[p] = run[p], run[p].pc = "verify", NEW c \in run[p].copying,
           NEW t \in CopyTags, t = NewTag(c[2])
    PROVE  tags'[Dest][t] \in {c[2].digest} \cup TakenBy(p, t)'
<1>1. CASE tags'[Dest][t] = tags[Dest][t]
  BY <1>1, KnownGrows DEF TagInv
<1>2. CASE tags'[Dest][t] \in Others(t)
  BY <1>2 DEF TakenBy, Others
<1>3. ASSUME NEW q \in Procs, NEW d \in NextCopies(run[q]),
             CopyImage(q, d), NewTag(d[2]) = t, tags'[Dest][t] = d[2].digest
      PROVE  tags'[Dest][t] \in TakenBy(p, t)'
  <2>1. q # p
    BY <1>3, CopyKnown
  <2> QED BY <1>3, <2>1, CopyKnown DEF TakenBy
<1> QED BY <1>1, <1>2, <1>3, TagMoved

\* All that is copied are images (CopyImages).
LEMMA CopiesType ==
    ASSUME IInv, NEW p \in Procs, NEW c \in CopiesOf(p)
    PROVE  c[2] \in Image /\ NewTag(c[2]) \in CopyTags
<1>1. run[p] \in Run
  BY DEF IInv
<1>2. c[2] \in Image
  BY <1>1 DEF CopiesOf, Run, Copy
<1> QED BY <1>2, NewTagType

\* Each step of anyone keeps what is known of the tags.
LEMMA TagStep ==
    ASSUME IInv, [Next]_vars, RunsInv, NEW p \in Procs
    PROVE  TagInv(p)'
<1>1. \A q \in Procs : OrderInv(q) /\ TagInv(q)
  BY DEF RunsInv
<1>2. run'[p] = run[p] \/ Step(p) \/ Fail(p)
  BY OneMoves DEF vars
<1>3. ASSUME NEW c \in CopiesOf(p) PROVE tags'[Dest][NewTag(c[2])] \in KnownUnder(NewTag(c[2]))'
  BY <1>1, CopiesType, KnownKept DEF TagInv
<1>4. CASE run'[p] = run[p]
  <2>1. \A c \in CopiesOf(p)' : tags'[Dest][NewTag(c[2])] \in KnownUnder(NewTag(c[2]))'
    BY <1>3, <1>4 DEF CopiesOf
  <2>2. ASSUME run'[p].pc = "verify", NEW c \in run'[p].copying
        PROVE  tags'[Dest][NewTag(c[2])] \in {c[2].digest} \cup TakenBy(p, NewTag(c[2]))'
    BY <1>1, <1>4, <2>2, CopiesType, VerifyKept DEF CopiesOf
  <2> QED BY <2>1, <2>2 DEF TagInv
<1>5. CASE Step(p) \/ Fail(p)
  <2>1. Goes(p)
    BY <1>1, <1>5, StepGoes
  <2>2. ASSUME NEW c \in NextCopies(run[p]), CopyImage(p, c),
               CopiesOf(p)' = CopiesOf(p) \cup {c}
        PROVE  TagInv(p)'
    <3>1. /\ run'[p].copying = {c} /\ tags'[Dest][NewTag(c[2])] = c[2].digest
          /\ c[2].digest \in KnownUnder(NewTag(c[2]))'
      BY <2>2, CopyKnown DEF KnownUnder
    <3>2. \A d \in CopiesOf(p)' : tags'[Dest][NewTag(d[2])] \in KnownUnder(NewTag(d[2]))'
      BY <1>3, <2>2, <3>1
    <3> QED BY <3>1, <3>2 DEF TagInv
  <2>3. CASE CopiesOf(p)' = CopiesOf(p) /\ run'[p].pc # "verify"
    BY <1>3, <2>3 DEF TagInv
  <2> QED BY <2>1, <2>2, <2>3 DEF Goes
<1> QED BY <1>2, <1>4, <1>5

-----------------------------------------------------------------------------
(* Theorems.                                                               *)

\* Nothing has been found or copied at first.
LEMMA InitRunsInv == Init => RunsInv
<1> SUFFICES ASSUME Init, NEW p \in Procs PROVE OrderInv(p) /\ TagInv(p)
  BY DEF RunsInv
<1>1. /\ run[p].pc = "idle" /\ run[p].related = {} /\ run[p].relatedToManifests = {}
      /\ run[p].copied = {} /\ run[p].copying = {}
  BY DEF Init
<1> QED BY <1>1 DEF OrderInv, ListInv, OneCopyInv, TagInv, CopiesOf

\* Every step keeps the order of every process and what is known of the tags.
LEMMA NextRunsInv == IInv /\ RunsInv /\ [Next]_vars => RunsInv'
<1> SUFFICES ASSUME IInv, RunsInv, [Next]_vars, NEW p \in Procs PROVE OrderInv(p)' /\ TagInv(p)'
  BY DEF RunsInv
<1>1. OrderInv(p)
  BY DEF RunsInv
<1>2. CASE run'[p] = run[p]
  <2>1. ListInv(p)'
    BY <1>1, <1>2 DEF OrderInv, ListInv, Items, ItemOf, SameItem, ItemsOf, About
  <2>2. OneCopyInv(p)'
    BY <1>1, <1>2 DEF OrderInv, OneCopyInv
  <2> QED BY <2>1, <2>2, TagStep DEF OrderInv
<1>3. CASE Step(p) \/ Fail(p)
  BY <1>1, <1>3, StepGoes, TagStep DEF Goes
<1>4. run'[p] = run[p] \/ Step(p) \/ Fail(p)
  BY OneMoves DEF vars
<1> QED BY <1>2, <1>3, <1>4

\* Both invariants hold.
THEOREM RunsInvariance == Spec => []RunsInv
BY InitRunsInv, NextRunsInv, Invariance, PTL DEF Spec

\* No run goes back or does a piece of its work twice, for any number of
\* processes that move the same tags (Execute, Copy).
THEOREM RunsAlwaysAdvance == Spec => RunsAdvance
<1> DEFINE Forward == \A p \in Procs : run'[p] # run[p] =>
                        \/ Phase(run'[p]) > Phase(run[p])
                        \/ /\ Phase(run'[p]) = Phase(run[p])
                           /\ Work(run'[p]) \subseteq Work(run[p]) /\ Work(run'[p]) # Work(run[p])
<1>1. IInv /\ RunsInv /\ [Next]_vars => [Forward]_vars
  <2> SUFFICES ASSUME IInv, RunsInv, [Next]_vars, NEW p \in Procs, run'[p] # run[p]
               PROVE  Ahead(p)
    BY DEF Ahead
  <2>1. Step(p) \/ Fail(p)
    BY OneMoves DEF vars
  <2> QED BY <2>1, StepGoes DEF RunsInv, Goes
<1> QED BY <1>1, Invariance, RunsInvariance, PTL DEF Spec, RunsAdvance

\* Two items of a run differ in the reference or in what it was resolved to (Dedup).
LEMMA ItemsDiffer ==
    ASSUME NEW p \in Procs, run[p].contents = [l \in Locs |-> OriginalRef(Scanned[p][l])],
           NEW i \in Items(run[p]), NEW j \in Items(run[p]), i # j
    PROVE  \E l, m \in Locs :
             /\ i.name = Scanned[p][l].name /\ j.name = Scanned[p][m].name
             /\ i.digest = run[p].resolved[l] /\ j.digest = run[p].resolved[m]
             /\ \/ OriginalRef(Scanned[p][l]) # OriginalRef(Scanned[p][m])
                \/ run[p].resolved[l] # run[p].resolved[m]
<1>1. PICK l, m \in Locs : i = ItemOf(run[p], l) /\ j = ItemOf(run[p], m)
  BY DEF Items
<1>2. /\ i.name = Scanned[p][l].name /\ j.name = Scanned[p][m].name
      /\ i.digest = run[p].resolved[l] /\ j.digest = run[p].resolved[m]
  BY <1>1 DEF ItemOf, OriginalRef
<1>3. ASSUME SameItem(run[p], l, m) PROVE FALSE
  <2>1. /\ run[p].contents[l] = run[p].contents[m] /\ run[p].resolved[l] = run[p].resolved[m]
    BY <1>3 DEF SameItem
  <2>2. \A n \in Locs : SameItem(run[p], l, n) <=> SameItem(run[p], m, n)
    BY <2>1 DEF SameItem
  <2>3. {n \in Locs : SameItem(run[p], l, n)} = {n \in Locs : SameItem(run[p], m, n)}
    BY <2>2
  <2> QED BY <1>1, <2>1, <2>3 DEF ItemOf
<1>4. \/ OriginalRef(Scanned[p][l]) # OriginalRef(Scanned[p][m])
      \/ run[p].resolved[l] # run[p].resolved[m]
  BY <1>3 DEF SameItem
<1> QED BY <1>2, <1>4

\* Listing an image is refused only if another one lists the same manifests, or
\* both list none (AppendWithRelationTo).
LEMMA RelatedRefused ==
    ASSUME IInv, NEW p \in Procs, OrderInv(p), run[p].pc = "related",
           NEW i \in run[p].unlisted, RelatedTo(i) \cap run[p].related # {}
    PROVE  SinglePlatform(p) \/ CommonManifest(p)
<1>1. run[p].contents = [l \in Locs |-> OriginalRef(Scanned[p][l])]
  BY DEF IInv, RunInv, ScannedInv
<1>2. PICK x \in RelatedTo(i) : x \in run[p].related
  OBVIOUS
<1>3. PICK j \in Items(run[p]) \ run[p].unlisted : About(x, j)
  BY <1>2 DEF OrderInv, ListInv
<1>4. i \in Items(run[p]) /\ i # j
  BY <1>3 DEF OrderInv, ListInv
<1>5. i.name = j.name /\ i.digest = j.digest
  BY <1>2, <1>3, FoundAbout DEF About
<1>6. PICK l, m \in Locs :
        /\ i.name = Scanned[p][l].name /\ j.name = Scanned[p][m].name
        /\ i.digest = run[p].resolved[l] /\ j.digest = run[p].resolved[m]
        /\ \/ OriginalRef(Scanned[p][l]) # OriginalRef(Scanned[p][m])
           \/ run[p].resolved[l] # run[p].resolved[m]
  BY <1>1, <1>3, <1>4, ItemsDiffer
<1>7. CASE IndexOf[i.digest] = {}
  BY <1>6, <1>7 DEF SinglePlatform
<1>8. CASE IndexOf[i.digest] # {}
  BY <1>5, <1>6, <1>8 DEF CommonManifest
<1> QED BY <1>7, <1>8

\* Listing the manifests is refused only for an image of a single platform, or
\* for two that list a common manifest (FindRelatedFromIndecies).
LEMMA IndexRefused ==
    ASSUME IInv, NEW p \in Procs, OrderInv(p), run[p].pc = "related", ~ListsApart(ItemsOf(run[p]))
    PROVE  SinglePlatform(p) \/ CommonManifest(p)
<1>1. /\ run[p].contents = [l \in Locs |-> OriginalRef(Scanned[p][l])]
      /\ ItemsOf(run[p]) = Items(run[p])
  BY DEF IInv, RunInv, ScannedInv, OrderInv, ListInv
<1>2. ASSUME NEW i \in Items(run[p]), ~IsIndex(i) PROVE SinglePlatform(p)
  BY <1>2 DEF IsIndex, SinglePlatform, Items, ItemOf
<1>3. ASSUME NEW i \in Items(run[p]), NEW j \in Items(run[p]), i # j,
             NEW x \in ManifestsOf(i), x \in ManifestsOf(j)
      PROVE  CommonManifest(p)
  <2>1. /\ x.name = i.name /\ x.digest \in IndexOf[i.digest]
        /\ x.name = j.name /\ x.digest \in IndexOf[j.digest]
    BY <1>3 DEF ManifestsOf
  <2>2. PICK l, m \in Locs :
          /\ i.name = Scanned[p][l].name /\ j.name = Scanned[p][m].name
          /\ i.digest = run[p].resolved[l] /\ j.digest = run[p].resolved[m]
          /\ \/ OriginalRef(Scanned[p][l]) # OriginalRef(Scanned[p][m])
             \/ run[p].resolved[l] # run[p].resolved[m]
    BY <1>1, <1>3, ItemsDiffer
  <2> QED BY <2>1, <2>2 DEF CommonManifest
<1> QED BY <1>1, <1>2, <1>3 DEF ListsApart

\* A copy fails to verify only if its tag has been taken (Copy).
LEMMA VerifyRefused ==
    ASSUME NEW p \in Procs, TagInv(p), run[p].pc = "verify",
           NEW c \in run[p].copying, tags[Dest][NewTag(c[2])] # c[2].digest
    PROVE  TagTaken(p)
<1>1. tags[Dest][NewTag(c[2])] \in TakenBy(p, NewTag(c[2]))
  BY DEF TagInv
<1> QED BY <1>1 DEF TagTaken, TakenBy

\* Packaging that is not interrupted ends with an error only for the reasons
\* listed, whatever other processes and authors do (AppendWithRelationTo, Copy).
THEOREM RefusalsHaveReasons == Spec => RefusedForAReason
<1> DEFINE Reasons(p) ==
             \/ run[p].pc = "resolve" /\ LeadsNowhere(p)
             \/ run[p].pc = "related" /\ (SinglePlatform(p) \/ CommonManifest(p))
             \/ run[p].pc = "verify" /\ TagTaken(p)
           Refusals == \A p \in Procs :
             run[p].pc # "failed" /\ run'[p].pc = "failed" /\ Step(p) => Reasons(p)
<1>1. IInv /\ RunsInv /\ [Next]_vars => [Refusals]_vars
  <2> SUFFICES ASSUME IInv, RunsInv, NEW p \in Procs, run'[p].pc = "failed", Step(p)
               PROVE  Reasons(p)
    OBVIOUS
  <2>1. OrderInv(p) /\ TagInv(p)
    BY DEF RunsInv
  <2>2. ASSUME NEW l \in Locs, ResolveDigest(p, l) PROVE Reasons(p)
    <3>1. ~Resolves(run[p].contents[l]) /\ run[p].pc = "resolve" /\ l \in run[p].unresolved
      BY <2>1, <2>2, ResolveDigestGoes DEF ResolveDigest
    <3>2. run[p].contents[l] = OriginalRef(Scanned[p][l])
      BY <3>1 DEF IInv, RunInv, ScannedInv
    <3> QED BY <3>1, <3>2 DEF LeadsNowhere
  <2>3. ASSUME NEW i \in run[p].unlisted, FindRelatedTags(p, i) PROVE Reasons(p)
    <3>1. RelatedTo(i) \cap run[p].related # {} /\ run[p].pc = "related"
      BY <2>1, <2>3, FindRelatedTagsGoes DEF FindRelatedTags
    <3> QED BY <2>1, <3>1, RelatedRefused
  <2>4. CASE FindIndexManifests(p)
    <3>1. ~ListsApart(ItemsOf(run[p])) /\ run[p].pc = "related"
      BY <2>1, <2>4, FindIndexManifestsGoes DEF FindIndexManifests
    <3> QED BY <2>1, <3>1, IndexRefused
  <2>5. CASE VerifyCopy(p)
    <3>1. /\ \E c \in run[p].copying : tags[Dest][NewTag(c[2])] # c[2].digest
          /\ run[p].pc = "verify"
      BY <2>1, <2>5, VerifyCopyGoes DEF VerifyCopy
    <3> QED BY <2>1, <3>1, VerifyRefused
  <2> HIDE DEF Reasons
  <2> QED BY <2>1, <2>2, <2>3, <2>4, <2>5, LoadGoes, DedupGoes, FindRelatedToManifestsGoes, PhaseGoes,
          CopyImageGoes, UpdateGoes DEF Step
<1> QED BY <1>1, Invariance, RunsInvariance, PTL DEF Spec, RefusedForAReason

\* A cosign tag in the destination leads to the artefact that was found, unless
\* something else was copied to it or put there (doSetNewImageRef, CopyImages).
THEOREM RelatedTagsAreKept == Spec => []RelatedTagsKept
<1>1. StoryInv /\ RunsInv => RelatedTagsKept
  <2> SUFFICES ASSUME StoryInv, RunsInv, NEW p \in Procs,
                      run[p].pc \in {"update", "push", "alias", "done"},
                      NEW i \in run[p].related \cup run[p].relatedToManifests,
                      KnownUnder(i.tag) \subseteq {i.digest}
               PROVE  tags[Dest][i.tag] = i.digest
    BY DEF RelatedTagsKept, KnownUnder
  <2>1. RelatedInv(p) /\ TagInv(p)
    BY DEF StoryInv, RunsInv
  <2>2. PICK n \in {2, 3} : <<n, i>> \in run[p].copied
    BY <2>1 DEF RelatedInv
  <2>3. NewTag(i) = i.tag
    BY <2>1 DEF RelatedInv, NewTag
  <2>4. tags[Dest][NewTag(<<n, i>>[2])] \in KnownUnder(NewTag(<<n, i>>[2]))
    BY <2>1, <2>2 DEF TagInv, CopiesOf
  <2> QED BY <2>3, <2>4
<1> QED BY <1>1, StoryInvariance, RunsInvariance, PTL

\* A digest that the author wrote is used if all references of the file that it
\* could be taken for have it written (doResolveDigest, Dedup, doUpdate).
THEOREM PinnedAreKept == Spec => []PinnedKept
<1>1. VersionsKept /\ StoryInv => PinnedKept
  <2> SUFFICES ASSUME VersionsKept, StoryInv, NEW p \in Procs, NEW l \in Locs,
                      run[p].pc \in {"push", "alias", "done"}, Scanned[p][l].digest # NoDigest,
                      \A m \in Locs : /\ Scanned[p][m].file = Scanned[p][l].file
                                      /\ Scanned[p][m].name \in {Scanned[p][l].name, Dest}
                                      => Scanned[p][m].digest = Scanned[p][l].digest
               PROVE  run[p].contents[l].digest = Scanned[p][l].digest
    BY DEF PinnedKept
  <2>1. \A m \in Locs : Scanned[p][m].digest \in {NoDigest, run[p].resolved[m]}
    BY DEF StoryInv, AttestInv
  <2>2. Unambiguous(p, l)
    BY <2>1 DEF Unambiguous
  <2>3. run[p].contents[l].digest = run[p].resolved[l]
    BY <2>2 DEF VersionsKept
  <2> QED BY <2>1, <2>3
<1> QED BY <1>1, VersionsAreKept, StoryInvariance, PTL

-----------------------------------------------------------------------------
(* No run is stuck.                                                        *)

\* No image is in the list twice.
OnceInv(p) == \A j, k \in DOMAIN run[p].images : run[p].images[j] = run[p].images[k] => j = k

\* What a run waits for: the guards of its steps, with what they choose from.
CanGoOn(p) ==
    \/ run[p].pc \in {"idle", "related", "relatedToManifests", "verify", "update", "push", "alias"}
    \/ run[p].pc = "resolve" /\ run[p].unresolved # {}
    \/ run[p].pc = "resolve" /\ Orderings(Items(run[p])) # {}
    \/ run[p].pc = "copy" /\ Left(run[p]) = {}
    \/ run[p].pc = "copy" /\ NextCopies(run[p]) # {}

\* A finite set can be put in an order, and a list as long as it has no element
\* twice (Dedup).
LEMMA OrderingsOf ==
    ASSUME NEW S, IsFiniteSet(S)
    PROVE  /\ Orderings(S) # {}
           /\ \A is \in Orderings(S) : \A j, k \in DOMAIN is : is[j] = is[k] => j = k
<1> DEFINE n == Cardinality(S)
<1>1. n \in Nat /\ ExistsBijection(1..n, S)
  BY FS_CardinalityType
<1>2. IsFiniteSet(1..n) /\ Cardinality(1..n) = n
  BY <1>1, FS_Interval
<1>3. Orderings(S) # {}
  BY <1>1 DEF ExistsBijection, Bijection, Orderings
<1>4. ASSUME NEW is \in Orderings(S) PROVE is \in Injection(1..n, S)
  BY <1>2, <1>4, FS_SurjSameCardinalityImpliesInj DEF Orderings
<1>5. ASSUME NEW is \in Orderings(S), NEW j \in DOMAIN is, NEW k \in DOMAIN is, is[j] = is[k]
      PROVE  j = k
  BY <1>4, <1>5 DEF Injection, IsInjective
<1> QED BY <1>3, <1>5

\* The list of images is made once, by Dedup.
LEMMA ImagesStay ==
    ASSUME IInv, NEW p \in Procs, Step(p) \/ Fail(p)
    PROVE  run'[p].images = run[p].images \/ Dedup(p)
<1>1. run[p] \in Run
  BY DEF IInv
<1>2. ASSUME NEW r, Become(p, r), r.images = run[p].images PROVE run'[p].images = run[p].images
  BY <1>2 DEF IInv, Become
<1>3. ASSUME Abort(p) PROVE run'[p].images = run[p].images
  BY <1>1, <1>2, <1>3 DEF Abort, Run
<1>4. CASE Load(p)
  BY <1>1, <1>2, <1>4 DEF Load, Run
<1>5. ASSUME NEW l \in Locs, ResolveDigest(p, l) PROVE run'[p].images = run[p].images
  BY <1>1, <1>2, <1>3, <1>5 DEF ResolveDigest, Run
<1>6. ASSUME NEW i, FindRelatedTags(p, i) \/ FindRelatedToManifests(p, i)
      PROVE  run'[p].images = run[p].images
  BY <1>1, <1>2, <1>3, <1>6 DEF FindRelatedTags, FindRelatedToManifests, Run
<1>7. CASE FindIndexManifests(p)
  BY <1>1, <1>2, <1>3, <1>7 DEF FindIndexManifests, Run
<1>8. CASE BeginCopy(p) \/ BeginUpdate(p) \/ WriteIndex(p) \/ TagAlias(p) \/ VerifyCopy(p)
  BY <1>1, <1>2, <1>3, <1>8 DEF BeginCopy, BeginUpdate, WriteIndex, TagAlias, VerifyCopy, Run
<1>9. ASSUME NEW c, CopyImage(p, c) PROVE run'[p].images = run[p].images
  BY <1>1, <1>2, <1>9 DEF CopyImage, Run
<1>10. CASE ReplaceImage(p) \/ Rescan(p)
  BY <1>1, <1>2, <1>10 DEF ReplaceImage, Rescan, Run
<1> QED BY <1>3, <1>4, <1>5, <1>6, <1>7, <1>8, <1>9, <1>10 DEF Step, Fail

\* Each step keeps every list of images free of repetitions (Dedup).
LEMMA NextOnceInv ==
    ASSUME IInv, [Next]_vars, NEW p \in Procs, OnceInv(p)
    PROVE  OnceInv(p)'
<1>1. CASE run'[p].images = run[p].images
  BY <1>1 DEF OnceInv
<1>2. CASE Dedup(p)
  <2>1. run[p] \in Run /\ run[p].pc = "resolve" /\ run[p].unresolved = {}
    BY <1>2 DEF IInv, Dedup
  <2>2. PICK is \in Orderings(Items(run[p])) :
          Become(p, [run[p] EXCEPT !.pc = "related", !.images = is, !.unlisted = Items(run[p]),
                                   !.statements = @ \cup Statements("resolved", Items(run[p]))])
    BY <1>2 DEF Dedup
  <2>3. run'[p].images = is
    BY <2>1, <2>2 DEF IInv, Become, Run
  <2> QED BY <2>1, <2>2, <2>3, ItemsType, OrderingsOf DEF OnceInv
<1>3. run'[p] = run[p] \/ Step(p) \/ Fail(p)
  BY OneMoves DEF vars
<1> QED BY <1>1, <1>2, <1>3, ImagesStay

\* Of any numbers that have something in common one is the least.
LEMMA LeastIndex ==
    ASSUME NEW S \in SUBSET Nat, S # {}
    PROVE  \E k \in S : \A j \in S : k <= j
<1>1. PICK k \in S : \A j \in S : <<j, k>> \notin OpToRel(<, Nat)
  BY WFMin, NatLessThanWellFounded, Zenon
<1>2. \A j \in S : j \in Nat /\ k \in Nat /\ ~(j < k)
  BY <1>1, Zenon DEF OpToRel
<1> QED BY <1>2

\* If copies are left to make, one of them is next (CopyImages).
LEMMA SomeCopyIsNext ==
    ASSUME IInv, NEW p \in Procs, OnceInv(p), Left(run[p]) # {}
    PROVE  NextCopies(run[p]) # {}
<1> DEFINE r == run[p]
           First == {k \in DOMAIN r.images : <<1, r.images[k]>> \in Left(r)}
<1>1. r \in Run /\ DOMAIN r.images \subseteq Nat
  BY DEF IInv, Run
<1>2. \A c \in Left(r) : c[1] \in 1..3 /\ c = <<c[1], c[2]>>
  BY DEF Left
<1>3. \A c \in Left(r) : c[1] = 1 => \E k \in DOMAIN r.images : r.images[k] = c[2]
  BY DEF Left, ItemsOf
<1> SUFFICES \E c \in Left(r) : \A d \in Left(r) : ~Precedes(r, d, c)
  BY DEF NextCopies
<1>4. CASE First # {}
  <2>1. First \subseteq Nat
    BY <1>1
  <2> HIDE DEF First
  <2>2. PICK k \in First : \A j \in First : k <= j
    BY <1>4, <2>1, LeastIndex
  <2> USE DEF First
  <2>3. k \in DOMAIN r.images /\ <<1, r.images[k]>> \in Left(r) /\ k \in Nat
    BY <2>1, <2>2
  <2>4. ASSUME NEW d \in Left(r), Precedes(r, d, <<1, r.images[k]>>) PROVE FALSE
    <3>1. d[1] = 1 /\ \E j, m \in DOMAIN r.images : j < m /\ r.images[j] = d[2] /\ r.images[m] = r.images[k]
      BY <1>2, <2>4 DEF Precedes
    <3>2. PICK j \in DOMAIN r.images : j < k /\ r.images[j] = d[2]
      BY <2>3, <3>1 DEF OnceInv
    <3>3. j \in First
      BY <1>2, <3>1, <3>2
    <3> QED BY <1>1, <2>2, <2>3, <3>2, <3>3
  <2> QED BY <2>3, <2>4
<1>5. CASE First = {}
  <2>1. \A c \in Left(r) : c[1] \in {2, 3}
    BY <1>2, <1>3, <1>5
  <2> HIDE DEF First
  <2>2. CASE \E c \in Left(r) : c[1] = 2
    BY <2>1, <2>2 DEF Precedes
  <2>3. CASE \A c \in Left(r) : c[1] = 3
    BY <2>1, <2>3 DEF Precedes
  <2> QED BY <2>1, <2>2, <2>3
<1> QED BY <1>4, <1>5

\* A run that has not ended can go on, as far as it depends on its own state:
\* it never waits for another process (Execute, Dedup, CopyImages).
NoRunStuck == \A p \in Procs : run[p].pc \notin {"done", "failed"} => CanGoOn(p)

\* So no run is stuck, for any number of processes.
THEOREM RunsCanGoOn == Spec => []NoRunStuck
<1> DEFINE Once == \A p \in Procs : OnceInv(p)
<1>1. Init => Once
  BY DEF Init, OnceInv
<1>2. IInv /\ Once /\ [Next]_vars => Once'
  BY NextOnceInv
<1>3. IInv /\ Once => NoRunStuck
  <2> SUFFICES ASSUME IInv, Once, NEW p \in Procs, run[p].pc \notin {"done", "failed"}
               PROVE  CanGoOn(p)
    BY DEF NoRunStuck
  <2>1. run[p] \in Run
    BY DEF IInv
  <2>2. CASE run[p].pc = "resolve" /\ run[p].unresolved = {}
    BY <2>2, ItemsType, OrderingsOf DEF CanGoOn
  <2>3. CASE run[p].pc = "copy" /\ Left(run[p]) # {}
    BY <2>3, SomeCopyIsNext DEF CanGoOn
  <2> QED BY <2>1, <2>2, <2>3 DEF CanGoOn, Run
<1> QED BY <1>1, <1>2, <1>3, Invariance, PTL DEF Spec
=============================================================================
