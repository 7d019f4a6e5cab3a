----------------------------- MODULE Inspection -----------------------------
(***************************************************************************)
(* `tape images` (CollectInfo in tape/app/images.go): what is reported of  *)
(* the images that manifests refer to, with the documents found in their   *)
(* indexes (inline) and under cosign tags (external), while the authors of *)
(* the images move tags.  A step is a request to a registry.               *)
(*                                                                         *)
(* The lists of images are sets, as their order comes from Go maps.  Of a  *)
(* document only the manifest that holds it is kept.                       *)
(***************************************************************************)
EXTENDS ImageRegistry

CONSTANTS
    Locs,        \* locations in the manifests
    Scanned,     \* Scanned[l]: the reference at l
    Kind,        \* the kind of document under a cosign tag; "other": a longer tag
    Layers,      \* the number of layers of a manifest
    Inline       \* Inline[d]: statements in manifest d of an index, and what about

Kinds == {"att", "sbom", "sig"}
InlineKinds == {"sbom", "attestation"}

ASSUME InspectionAssumption ==
    /\ Scanned \in [Locs -> [name : Names, tag : Tags \cup {NoTag}, digest : Digests \cup {NoDigest}]]
    /\ Kind \in [CosignTags -> Kinds \cup {"other"}]
    /\ Layers \in [Digests -> Nat]
    /\ Inline \in [Digests -> SUBSET (InlineKinds \X Digests)]

\* Image.Ref(true) of a resolved image; and an item of an ImageList, which
\* belongs to what it was appended with relation to.
Resolved == [name : Names, tag : Tags \cup {NoTag}, digest : Digests]
Item == [ref : Resolved, locs : SUBSET Locs]
Relation == [image : Resolved, target : Resolved]

\* imageInfo, without what is only formatted.
Info == [locs : SUBSET Locs, provided : BOOLEAN, manifests : SUBSET Digests,
         inline : SUBSET [kind : InlineKinds, subject : Digests, from : Digests],
         external : SUBSET [kind : Kinds, ref : Resolved, from : Digests],
         unclassified : SUBSET Resolved]

VARIABLES
    pc,
    unresolved,  \* locations that ResolveDigests has not come to
    resolved,
    items,       \* the images after Dedup
    info,        \* outputInfo, by reference
    left,        \* items that the loop of this phase has not come to
    listing,     \* cosign tags that were listed and have not been looked up
    manifests,   \* manifests that the images list
    related,     \* related[p]: artefacts found in phase p
    uncollected  \* artefacts whose documents have not been fetched

resolveVars == <<unresolved, resolved, items>>
vars == <<registryVars, pc, resolveVars, info, left, listing, manifests, related, uncollected>>

Phases == {"related", "relatedToManifests"}

TypeOK ==
    /\ RegistryTypeOK
    /\ pc \in Phases \cup {"resolve", "inspect", "collect", "done", "failed", "crashed"}
    /\ unresolved \subseteq Locs
    /\ resolved \in [Locs -> Digests \cup {NoDigest}]
    /\ items \subseteq Item /\ left \subseteq Item
    /\ DOMAIN info \subseteq Resolved /\ \A r \in DOMAIN info : info[r] \in Info
    /\ listing \subseteq [of : Resolved, tag : CosignTags]
    /\ related \in [Phases -> SUBSET Relation]
    /\ manifests \subseteq Relation /\ uncollected \subseteq Relation

Init ==
    /\ RegistryInit
    /\ pc = "resolve" /\ unresolved = Locs /\ resolved = [l \in Locs |-> NoDigest]
    /\ items = {} /\ info = [r \in {} |-> {}] /\ left = {} /\ listing = {}
    /\ manifests = {} /\ related = [p \in Phases |-> {}] /\ uncollected = {}

\* CollectInfo returns at the first error, and then nothing is printed.
End(how) ==
    /\ pc' = how
    /\ UNCHANGED <<registryVars, resolveVars, info, left, listing, manifests, related, uncollected>>
Abort == End("failed")

-----------------------------------------------------------------------------
(* Resolve the references, merge equal ones.                               *)

ResolveDigest(l) ==
    /\ pc = "resolve" /\ l \in unresolved
    /\ IF Digest(Scanned[l]) # NoDigest
       THEN /\ resolved' = [resolved EXCEPT ![l] = Digest(Scanned[l])]
            /\ unresolved' = unresolved \ {l}
            /\ UNCHANGED <<registryVars, pc, items, info, left, listing, manifests, related, uncollected>>
       ELSE Abort

\* A fault: equal references are merged whatever they were resolved to.
ItemOfReference(l) == [ref |-> [Scanned[l] EXCEPT !.digest = resolved[l]],
                       locs |-> {m \in Locs : Scanned[m] = Scanned[l]}]

ItemAt(l) == [ref |-> [Scanned[l] EXCEPT !.digest = resolved[l]],
              locs |-> {m \in Locs : Scanned[m] = Scanned[l] /\ resolved[m] = resolved[l]}]

\* A fault: they are collected when all references have been resolved.
WithDigestsResolved == {resolved[l] : l \in Locs}

\* The digests that are written anywhere in the manifests.
WithDigests == {Scanned[l].digest : l \in Locs} \ {NoDigest}

InfoOf(i) == [locs |-> i.locs, provided |-> i.ref.digest \in WithDigests, manifests |-> {},
              inline |-> {}, external |-> {}, unclassified |-> {}]

\* An image with its digest written at one location and not at another is two
\* items with one reference, under which either of them is kept.
Dedup ==
    /\ pc = "resolve" /\ unresolved = {}
    /\ pc' = "related"
    /\ items' = {ItemAt(l) : l \in Locs} /\ left' = items'
    /\ \E kept \in [{i.ref : i \in items'} -> items'] :
         /\ \A r \in DOMAIN kept : kept[r].ref = r
         /\ info' = [r \in DOMAIN kept |-> InfoOf(kept[r])]
    /\ UNCHANGED <<registryVars, unresolved, resolved, listing, manifests, related, uncollected>>

-----------------------------------------------------------------------------
(* FindRelatedTags, for the images and later for the manifests they list:  *)
(* for each of them the tags are listed, then looked up one by one.        *)

List(i) ==
    /\ pc \in Phases /\ listing = {} /\ i \in left
    /\ left' = left \ {i}
    /\ listing' = {[of |-> i.ref, tag |-> t] : t \in ListRelated(i.ref.name, i.ref.digest)}
    /\ UNCHANGED <<registryVars, pc, resolveVars, info, manifests, related, uncollected>>

\* A fault: a reference that is in the list already is not noticed.
NeverRefused(list, image) == FALSE

\* AppendWithRelationTo refuses a reference that is in the list already.
Refused(list, image) == \E e \in list : e.image = image

\* A tag that has been deleted since it was listed is an error.
Unusable(list, image) == image.digest = NoDigest \/ Refused(list, image)

LookUp(x) ==
    /\ pc \in Phases /\ x \in listing
    /\ LET image == [name |-> x.of.name, tag |-> x.tag, digest |-> tags[x.of.name][x.tag]] IN
       IF Unusable(related[pc], image)
       THEN Abort
       ELSE /\ related' = [related EXCEPT ![pc] = @ \cup {[image |-> image, target |-> x.of]}]
            /\ listing' = listing \ {x}
            /\ UNCHANGED <<registryVars, pc, resolveVars, info, left, manifests, uncollected>>

-----------------------------------------------------------------------------
(* FindRelatedFromIndecies, with inspectManifest.                          *)

BeginInspect ==
    /\ pc = "related" /\ left = {} /\ listing = {}
    /\ pc' = "inspect" /\ left' = items
    /\ UNCHANGED <<registryVars, resolveVars, info, listing, manifests, related, uncollected>>

Documents(d) ==
    UNION {{[kind |-> x[1], subject |-> x[2], from |-> m] : x \in Inline[m]} : m \in IndexOf[d]}

\* A fault: that there are two documents of one kind about a subject, of which
\* the report would keep the last, is not noticed.
NeverDuplicate(docs) == FALSE
Duplicate(docs) == \E x, y \in docs : x # y /\ x.kind = y.kind /\ x.subject = y.subject

\* GetIndexOrImage has no index to inspect for an image of a single platform.
\* It is an error if one of the manifests is listed by two images of this name,
\* or has been reported on before.
Inspect(i) ==
    LET listed == {[name |-> i.ref.name, tag |-> NoTag, digest |-> d] : d \in IndexOf[i.ref.digest]}
        docs == Documents(i.ref.digest)
    IN
    /\ pc = "inspect" /\ i \in left
    /\ IF listed = {}
       THEN End("crashed")
       ELSE IF Duplicate(docs) \/ \E m \in listed : Refused(manifests, m)
       THEN Abort
       ELSE /\ info' = [info EXCEPT ![i.ref].manifests = @ \cup IndexOf[i.ref.digest],
                                    ![i.ref].inline = @ \cup docs]
            /\ manifests' = manifests \cup {[image |-> m, target |-> i.ref] : m \in listed}
            /\ left' = left \ {i}
            /\ UNCHANGED <<registryVars, pc, resolveVars, listing, related, uncollected>>

EndInspect ==
    /\ pc = "inspect" /\ left = {}
    /\ pc' = "relatedToManifests"
    /\ left' = {[ref |-> e.image, locs |-> {}] : e \in manifests}
    /\ UNCHANGED <<registryVars, resolveVars, info, listing, manifests, related, uncollected>>

-----------------------------------------------------------------------------
(* Collect the documents of what is related to each image.                 *)

RelatedTo(list, ref) == {e.image : e \in {x \in list : x.target = ref}}

\* A fault: only what is related to the image itself is collected.
RelatedToImage(ref) == RelatedTo(related["related"], ref)

\* A fault: the artefacts of all manifests are collected for each image.
RelatedToAny(ref) ==
    RelatedTo(related["related"], ref) \cup {e.image : e \in related["relatedToManifests"]}

\* What is related to an image and to the manifests that it lists.
Related(ref) ==
    RelatedTo(related["related"], ref) \cup
    UNION {RelatedTo(related["relatedToManifests"], m) : m \in RelatedTo(manifests, ref)}

BeginCollect ==
    /\ pc = "relatedToManifests" /\ left = {} /\ listing = {}
    /\ pc' = "collect"
    /\ uncollected' = UNION {{[image |-> a, target |-> r] : a \in Related(r)} : r \in DOMAIN info}
    /\ UNCHANGED <<registryVars, resolveVars, info, left, listing, manifests, related>>

\* A fault: an artefact is fetched by its tag.
FetchedByTag(a) == Digest([a EXCEPT !.digest = NoDigest])
Fetched(a) == Digest(a)

\* An index of one manifest is as good as the manifest (getFlatArtefactLayers).
Flat(d) == IF IndexOf[d] = {} THEN {d} ELSE IndexOf[d]

\* GetSingleArtefact refuses an artefact with several layers, or with none.
FetchDocument(e) ==
    LET r == e.target  kind == Kind[e.image.tag]  flat == Flat(Fetched(e.image)) IN
    /\ pc = "collect" /\ e \in uncollected
    /\ IF kind # "other" /\ \/ Fetched(e.image) = NoDigest
                            \/ ~(Cardinality(flat) = 1 /\ \A d \in flat : Layers[d] = 1)
       THEN Abort
       ELSE /\ uncollected' = uncollected \ {e}
            /\ info' = IF kind = "other"
                       THEN [info EXCEPT ![r].unclassified = @ \cup {e.image}]
                       ELSE [info EXCEPT ![r].external = @ \cup
                               {[kind |-> kind, ref |-> e.image, from |-> d] : d \in flat}]
            /\ UNCHANGED <<registryVars, pc, resolveVars, left, listing, manifests, related>>

PrintInfo == pc = "collect" /\ uncollected = {} /\ End("done")

-----------------------------------------------------------------------------
\* A request fails, or a document has another media type or cannot be parsed.
Fail == pc \notin {"done", "failed", "crashed"} /\ Abort

Next ==
    \/ \E l \in Locs : ResolveDigest(l)
    \/ Dedup
    \/ \E i \in left : List(i) \/ Inspect(i)
    \/ \E x \in listing : LookUp(x)
    \/ BeginInspect \/ EndInspect \/ BeginCollect
    \/ \E e \in uncollected : FetchDocument(e)
    \/ PrintInfo
    \/ Fail
    \/ \E n \in Names, t \in Tags :
         Retag(n, t) /\ UNCHANGED <<pc, resolveVars, info, left, listing, manifests, related, uncollected>>

Spec == Init /\ [][Next]_vars

-----------------------------------------------------------------------------
(* Properties of what is printed.                                          *)

Printed(r) == pc = "done" /\ r \in DOMAIN info

\* Images that r stands for: itself, and the manifests that it lists.
Covers(r) == {r.digest} \cup IndexOf[r.digest]

\* Each document is reported for the right image, and under the digest it has:
\* it is one that a cosign tag about the image, or about one of its manifests,
\* has pointed at in its repository, wherever that tag points now (FindRelatedTags,
\* CollectRelatedToRef, GetSingleArtefact).
DocumentsOfImage ==
    \A r \in DOMAIN info : \A x \in info[r].external :
        /\ x.ref.name = r.name /\ x.kind = Kind[x.ref.tag]
        /\ Subject[x.ref.tag] \in Covers(r)
        /\ x.ref.digest \in Versions[r.name][x.ref.tag] \cup {InitialTags[r.name][x.ref.tag]}
        /\ x.from \in Flat(x.ref.digest)

\* Nothing is missed: what a cosign tag about the image or one of its manifests
\* points at is reported, if the tag was there all the time, in the version it
\* has, or in one it had if it moved; although images share artefacts, tags
\* are listed twice and all of them are in lists that are searched by reference
\* (CollectInfo, RelatedTo, GetItemByRef).
NothingMissed ==
    \A r \in DOMAIN info : \A t \in CosignTags :
        /\ Printed(r) /\ Subject[t] \in Covers(r)
        /\ InitialTags[r.name][t] # NoDigest /\ NoDigest \notin Versions[r.name][t]
        => \E a \in info[r].unclassified \cup {x.ref : x \in info[r].external} :
               a.name = r.name /\ a.tag = t

\* Every location in the manifests is reported exactly once, under its name and
\* tag and the digest that it was resolved to, also when its tag moves between
\* two lookups or its digest is written at another location only (Dedup and
\* outputInfo, whose keys are not the same).
LocationsReported ==
    pc = "done" => \A l \in Locs :
        {r \in DOMAIN info : l \in info[r].locs} = {[Scanned[l] EXCEPT !.digest = resolved[l]]}

\* The statements in the index of an image are all reported, for that image
\* only, and none of them in the place of another (inspectManifest).
InlineReported ==
    \A r \in DOMAIN info : Printed(r) =>
        /\ info[r].manifests = IndexOf[r.digest]
        /\ info[r].inline = Documents(r.digest)
        /\ \A x, y \in info[r].inline : x.kind = y.kind /\ x.subject = y.subject => x = y

\* An image is said to come with a digest if one of its locations has it, and
\* else only if the same digest is written with another name or tag; of the two
\* items that one reference may be in Dedup, it is not the other one that decides
\* (CollectInfo, withDigests).
DigestsTold ==
    \A r \in DOMAIN info : Printed(r) =>
        LET own == {l \in info[r].locs : Scanned[l].digest # NoDigest} IN
        /\ own # {} => info[r].provided
        /\ info[r].provided /\ own = {} =>
               \E l \in Locs : /\ Scanned[l].digest = r.digest
                               /\ Scanned[l].name # r.name \/ Scanned[l].tag # r.tag

\* imageresolver.go:111, "unexpected: FindRelatedFromIndecies is called on image
\* %q which doesn't have index manifest": such an image is an error, which
\* inspectManifest is called before.
SingleRefused == pc # "crashed"

\* images.go:414, "Digest provided: %v": whether the manifests give the digest
\* of the image (withDigests is of the digests of all images).
DigestProvidedTold ==
    \A r \in DOMAIN info : Printed(r) =>
        (info[r].provided <=> \E l \in info[r].locs : Scanned[l].digest # NoDigest)
=============================================================================
