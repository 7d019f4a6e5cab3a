---------------------------- MODULE InspectionProof ----------------------------
(***************************************************************************)
(* Proofs about Inspection, for every registry and all manifests.          *)
(***************************************************************************)
EXTENDS Inspection, FiniteSetTheorems, TLAPS

AfterInspect == {"relatedToManifests", "collect", "done"}
AfterDedup == {"related", "inspect"} \cup AfterInspect

\* All that tag t of repository n has ever pointed at.
Ever(n, t) == Versions[n][t] \cup {InitialTags[n][t]}

\* Tags point at what their authors gave them.
TagsInv == \A n \in Names, t \in Tags : tags[n][t] \in Ever(n, t)

\* A location that has been looked up has a digest, and nothing else has been done.
ResolveInv ==
    /\ \A l \in Locs \ unresolved : resolved[l] \in Digests
    /\ pc = "resolve" => /\ listing = {} /\ manifests = {} /\ \A p \in Phases : related[p] = {}

\* Each reference has one of its items in the report.
ItemsInv == pc \in AfterDedup =>
    /\ unresolved = {}
    /\ items = {ItemAt(l) : l \in Locs}
    /\ DOMAIN info = {i.ref : i \in items}
    /\ \A r \in DOMAIN info : \E i \in items : i.ref = r /\ info[r].locs = i.locs
    /\ pc \in {"related", "inspect"} => left \subseteq items

\* The manifests that an image lists, as references.
ListedBy(r) == {[name |-> r.name, tag |-> NoTag, digest |-> d] : d \in IndexOf[r.digest]}

\* The items that inspectManifest has been called on.
Inspected == IF pc = "inspect" THEN items \ left ELSE IF pc \in AfterInspect THEN items ELSE {}

\* Their manifests are in the list, no two of them have the same reference, and
\* their statements are in the report.
InspectInv == pc \in AfterDedup =>
    /\ \A e \in manifests : \E i \in Inspected : e.target = i.ref /\ e.image \in ListedBy(i.ref)
    /\ \A i \in Inspected : /\ ListedBy(i.ref) # {} /\ ~ Duplicate(Documents(i.ref.digest))
                            /\ \A m \in ListedBy(i.ref) : [image |-> m, target |-> i.ref] \in manifests
    /\ \A i, j \in Inspected : i.ref = j.ref => i = j
    /\ \A r \in DOMAIN info :
         IF \E i \in Inspected : i.ref = r
         THEN info[r].manifests = IndexOf[r.digest] /\ info[r].inline = Documents(r.digest)
         ELSE info[r].manifests = {} /\ info[r].inline = {}

\* What tags are listed for in each phase.
Targets(p) == IF p = "related" THEN {i.ref : i \in items} ELSE {e.image : e \in manifests}

\* Whatever is listed or found is about a target, and in its repository.
FoundInv ==
    /\ pc \in Phases => /\ \A x \in listing : /\ x.of \in Targets(pc) /\ Subject[x.tag] = x.of.digest
                        /\ \A i \in left : i.ref \in Targets(pc)
    /\ pc \notin Phases \cup {"failed"} => listing = {}
    /\ \A p \in Phases : \A e \in related[p] :
         /\ e.target \in Targets(p) /\ e.image.name = e.target.name
         /\ e.image.tag \in CosignTags /\ Subject[e.image.tag] = e.target.digest
         /\ e.image.digest \in Ever(e.image.name, e.image.tag)

\* Tag t of repository n has always been there.
Lasting(n, t) == InitialTags[n][t] # NoDigest /\ NoDigest \notin Versions[n][t]

\* The phases that have begun, and the targets whose tags have been listed.
Begun(p) == IF p = "related" THEN pc \in AfterDedup ELSE pc \in AfterInspect
Enlisted(p) == IF pc = p THEN Targets(p) \ {i.ref : i \in left} ELSE Targets(p)

\* No lasting tag about a listed target has been lost.
KeptInv ==
    \A p \in Phases : Begun(p) =>
        \A r \in Enlisted(p), t \in CosignTags : Subject[t] = r.digest /\ Lasting(r.name, t) =>
            \/ pc = p /\ [of |-> r, tag |-> t] \in listing
            \/ \E e \in related[p] : e.target = r /\ e.image.tag = t

\* What is reported of an artefact that has been collected.
Reported(e) == e.image \in info[e.target].unclassified \cup {x.ref : x \in info[e.target].external}

\* What is related is reported or about to be.
CollectInv ==
    /\ pc \in {"collect", "done"} =>
         /\ \A e \in uncollected : e.target \in DOMAIN info /\ e.image \in Related(e.target)
         /\ \A r \in DOMAIN info : \A a \in Related(r) :
              LET e == [image |-> a, target |-> r] IN e \in uncollected \/ Reported(e)
    /\ pc = "done" => uncollected = {}

\* The inductive invariant.
IInv ==
    /\ TypeOK /\ TagsInv /\ ResolveInv /\ ItemsInv /\ InspectInv /\ FoundInv /\ KeptInv
    /\ CollectInv /\ DocumentsOfImage

-----------------------------------------------------------------------------
(* The registry and the end of a command.                                  *)

\* A lookup answers a digest or NoDigest (oci/oci.go Digest).
LEMMA DigestType ==
    ASSUME RegistryTypeOK, NEW n \in Names, NEW t \in Tags \cup {NoTag},
           NEW d \in Digests \cup {NoDigest}
    PROVE  Digest([name |-> n, tag |-> t, digest |-> d]) \in Digests \cup {NoDigest}
BY RegistryAssumption DEF RegistryTypeOK, Digest, TagOf, Repos, AllTags

\* The invariant holds before anything is looked up.
LEMMA InitIInv == Init => IInv
<1> SUFFICES ASSUME Init PROVE IInv
  OBVIOUS
<1>1. /\ RegistryInit /\ pc = "resolve" /\ unresolved = Locs /\ resolved = [l \in Locs |-> NoDigest]
      /\ items = {} /\ DOMAIN info = {} /\ left = {} /\ listing = {} /\ manifests = {}
      /\ related = [p \in Phases |-> {}] /\ uncollected = {}
  BY DEF Init
<1>2. RegistryTypeOK /\ TagsInv
  BY <1>1, RegistryAssumption DEF RegistryInit, RegistryTypeOK, PushedBy, AllTags, TagsInv, Ever, Repos
<1>3. TypeOK
  BY <1>1, <1>2 DEF TypeOK
<1>4. ResolveInv /\ ItemsInv /\ InspectInv /\ CollectInv /\ DocumentsOfImage
  BY <1>1 DEF ResolveInv, ItemsInv, InspectInv, CollectInv, DocumentsOfImage, AfterDedup, AfterInspect
<1>5. FoundInv /\ KeptInv
  BY <1>1 DEF FoundInv, KeptInv, Phases, Begun, AfterDedup, AfterInspect
<1> QED BY <1>2, <1>3, <1>4, <1>5 DEF IInv

\* What is related to an image depends on the lists alone (RelatedTo).
LEMMA RelatedKept ==
    ASSUME UNCHANGED <<manifests, related>>
    PROVE  \A r : Related(r)' = Related(r)
BY DEF Related, RelatedTo

\* A command that ends without a result has nothing left to do (CollectInfo).
LEMMA EndStep ==
    ASSUME IInv, NEW how \in {"failed", "crashed", "done"}, End(how),
           how = "crashed" => pc = "inspect",
           how = "done" => pc = "collect" /\ uncollected = {}
    PROVE  IInv'
<1>1. /\ pc' = how /\ stored' = stored /\ tags' = tags /\ retags' = retags /\ unresolved' = unresolved
      /\ resolved' = resolved /\ items' = items /\ info' = info /\ left' = left /\ listing' = listing
      /\ manifests' = manifests /\ related' = related /\ uncollected' = uncollected
  BY DEF End, registryVars, resolveVars
<1>2. TypeOK'
  BY <1>1 DEF IInv, TypeOK, RegistryTypeOK
<1>3. TagsInv' /\ ResolveInv' /\ DocumentsOfImage'
  BY <1>1 DEF IInv, TagsInv, ResolveInv, DocumentsOfImage
<1>4. how # "done" => ItemsInv' /\ InspectInv' /\ KeptInv' /\ CollectInv'
  BY <1>1 DEF ItemsInv, InspectInv, KeptInv, CollectInv, AfterDedup, AfterInspect, Begun
<1>5. \A p : Targets(p)' = Targets(p)
  BY <1>1 DEF Targets
<1>6. FoundInv'
  BY <1>1, <1>5 DEF IInv, FoundInv, Phases
<1>7. ASSUME how = "done" PROVE ItemsInv' /\ InspectInv' /\ KeptInv' /\ CollectInv'
  <2>1. Inspected' = Inspected /\ pc = "collect" /\ pc' = "done"
    BY <1>1, <1>7 DEF Inspected, AfterInspect
  <2>2. ItemsInv'
    BY <1>1, <2>1 DEF IInv, ItemsInv, AfterDedup, AfterInspect, ItemAt
  <2>3. InspectInv'
    BY <1>1, <2>1 DEF IInv, InspectInv, AfterDedup, AfterInspect
  <2>4. KeptInv'
    <3>1. \A p \in Phases : Enlisted(p)' = Enlisted(p) /\ (Begun(p)' => Begun(p))
      BY <1>1, <1>5, <2>1 DEF Enlisted, Begun, AfterDedup, AfterInspect, Phases
    <3> QED BY <1>1, <2>1, <3>1 DEF IInv, KeptInv, Phases
  <2>5. CollectInv'
    BY <1>1, <1>7, <2>1, RelatedKept DEF IInv, CollectInv, Reported
  <2> QED BY <2>2, <2>3, <2>4, <2>5
<1> QED BY <1>2, <1>3, <1>4, <1>6, <1>7 DEF IInv

\* Nothing that has been read is looked at again where it was (CollectInfo).
LEMMA RetagStep ==
    ASSUME IInv, NEW n \in Names, NEW t \in Tags, Retag(n, t),
           UNCHANGED <<pc, resolveVars, info, left, listing, manifests, related, uncollected>>
    PROVE  IInv'
<1>1. /\ pc' = pc /\ unresolved' = unresolved
      /\ resolved' = resolved /\ items' = items /\ info' = info /\ left' = left /\ listing' = listing
      /\ manifests' = manifests /\ related' = related /\ uncollected' = uncollected
  BY DEF resolveVars
<1>2. PICK d \in Versions[n][t] : tags' = [tags EXCEPT ![n][t] = d]
  BY DEF Retag
<1>3. d \in Digests \cup {NoDigest} /\ n \in Repos /\ t \in AllTags
  BY RegistryAssumption DEF Repos, AllTags
<1>4. RegistryTypeOK'
  <2>1. tags' \in [Repos -> [AllTags -> Digests \cup {NoDigest}]]
    BY <1>2, <1>3 DEF IInv, TypeOK, RegistryTypeOK
  <2>2. retags' \in 0..MaxRetags /\ stored' = stored
    BY RegistryAssumption DEF Retag, IInv, TypeOK, RegistryTypeOK
  <2> QED BY <2>1, <2>2 DEF IInv, TypeOK, RegistryTypeOK
<1>5. TagsInv'
  <2>1. tags \in [Repos -> [AllTags -> Digests \cup {NoDigest}]]
    BY DEF IInv, TypeOK, RegistryTypeOK
  <2>2. \A m \in Names, u \in Tags : m \in Repos /\ u \in AllTags
    BY DEF Repos, AllTags
  <2>3. ASSUME NEW m \in Names, NEW u \in Tags PROVE tags'[m][u] \in Ever(m, u)
    <3>1. CASE m = n /\ u = t
      BY <1>2, <2>1, <2>2, <3>1 DEF Ever
    <3>2. CASE ~(m = n /\ u = t)
      BY <1>2, <2>1, <2>2, <3>2 DEF IInv, TagsInv
    <3> QED BY <3>1, <3>2
  <2> QED BY <2>3 DEF TagsInv, Ever
<1>6. TypeOK'
  BY <1>1, <1>4 DEF IInv, TypeOK
<1>7. ResolveInv' /\ ItemsInv' /\ DocumentsOfImage'
  BY <1>1 DEF IInv, ResolveInv, ItemsInv, ItemAt, DocumentsOfImage
<1>8. CollectInv'
  BY <1>1, RelatedKept DEF IInv, CollectInv, Reported
<1>9. InspectInv'
  <2>1. Inspected' = Inspected
    BY <1>1 DEF Inspected
  <2> QED BY <1>1, <2>1 DEF IInv, InspectInv
<1>10. FoundInv' /\ KeptInv'
  <2>1. \A p : Targets(p)' = Targets(p) /\ Enlisted(p)' = Enlisted(p) /\ Begun(p)' = Begun(p)
    BY <1>1 DEF Targets, Enlisted, Begun
  <2>2. FoundInv'
    BY <1>1, <2>1 DEF IInv, FoundInv
  <2>3. KeptInv'
    BY <1>1, <2>1 DEF IInv, KeptInv
  <2> QED BY <2>2, <2>3
<1> QED BY <1>5, <1>6, <1>7, <1>8, <1>9, <1>10 DEF IInv

-----------------------------------------------------------------------------
(* The steps, in the order in which they are taken.                        *)

\* Resolving the reference at one location keeps the invariant (ResolveDigests).
LEMMA ResolveDigestStep ==
    ASSUME IInv, NEW l \in Locs, ResolveDigest(l)
    PROVE  IInv'
<1>1. CASE Abort
  BY <1>1, EndStep DEF Abort
<1>2. CASE ~ Abort
  <2> DEFINE d == Digest(Scanned[l])
  <2>1. /\ d # NoDigest /\ resolved' = [resolved EXCEPT ![l] = d] /\ unresolved' = unresolved \ {l}
        /\ pc' = pc /\ pc = "resolve" /\ stored' = stored /\ tags' = tags /\ retags' = retags
        /\ items' = items /\ info' = info /\ left' = left /\ listing' = listing
        /\ manifests' = manifests /\ related' = related /\ uncollected' = uncollected
    BY <1>2 DEF ResolveDigest, registryVars
  <2>2. d \in Digests
    <3>1. PICK n \in Names, t \in Tags \cup {NoTag}, e \in Digests \cup {NoDigest} :
            Scanned[l] = [name |-> n, tag |-> t, digest |-> e]
      BY InspectionAssumption
    <3>2. d \in Digests \cup {NoDigest}
      BY <3>1, DigestType DEF IInv, TypeOK
    <3> QED BY <2>1, <3>2
  <2> HIDE DEF d
  <2>3. TypeOK'
    BY <2>1, <2>2 DEF IInv, TypeOK, RegistryTypeOK
  <2>4. TagsInv' /\ ResolveInv' /\ DocumentsOfImage'
    BY <2>1, <2>2 DEF IInv, TypeOK, TagsInv, ResolveInv, DocumentsOfImage
  <2>5. ItemsInv' /\ InspectInv' /\ KeptInv' /\ CollectInv'
    BY <2>1 DEF ItemsInv, InspectInv, KeptInv, CollectInv, AfterDedup, AfterInspect, Begun
  <2>6. FoundInv'
    BY <2>1 DEF IInv, FoundInv, ResolveInv, Phases
  <2> QED BY <2>3, <2>4, <2>5, <2>6 DEF IInv
<1> QED BY <1>1, <1>2

\* A reference that has been resolved has a digest (ResolveDigests).
LEMMA ItemType ==
    ASSUME IInv, NEW l \in Locs, unresolved = {}
    PROVE  ItemAt(l) \in Item
<1>1. resolved[l] \in Digests
  BY DEF IInv, ResolveInv
<1>2. Scanned[l] \in [name : Names, tag : Tags \cup {NoTag}, digest : Digests \cup {NoDigest}]
  BY InspectionAssumption
<1> QED BY <1>1, <1>2 DEF ItemAt, Item, Resolved

\* The report has each reference once, and nothing on it (Dedup, newOutputInfo).
LEMMA DedupStep ==
    ASSUME IInv, Dedup
    PROVE  IInv'
<1>1. /\ pc = "resolve" /\ pc' = "related" /\ unresolved = {} /\ unresolved' = {} /\ resolved' = resolved
      /\ items' = {ItemAt(l) : l \in Locs} /\ left' = items'
      /\ stored' = stored /\ tags' = tags /\ retags' = retags
      /\ listing' = {} /\ manifests' = {} /\ related' = related /\ uncollected' = uncollected
      /\ \A p \in Phases : related[p] = {}
  BY DEF Dedup, registryVars, IInv, ResolveInv
<1>2. PICK kept \in [{i.ref : i \in items'} -> items'] :
        /\ \A r \in DOMAIN kept : kept[r].ref = r
        /\ info' = [r \in DOMAIN kept |-> InfoOf(kept[r])]
  BY DEF Dedup
<1>3. DOMAIN kept = {i.ref : i \in items'} /\ \A r \in DOMAIN kept : kept[r] \in items'
  OBVIOUS
<1>4. items' \subseteq Item
  BY <1>1, ItemType
<1>5. DOMAIN info' = {i.ref : i \in items'} /\ \A r \in DOMAIN info' : info'[r] = InfoOf(kept[r])
  BY <1>2, <1>3
<1>6. ASSUME NEW r \in DOMAIN info'
      PROVE  /\ info'[r] \in Info /\ kept[r] \in items' /\ kept[r].ref = r /\ info'[r].locs = kept[r].locs
             /\ info'[r].manifests = {} /\ info'[r].inline = {} /\ info'[r].external = {}
  <2>1. kept[r] \in Item /\ kept[r] \in items' /\ kept[r].ref = r /\ info'[r] = InfoOf(kept[r])
    BY <1>2, <1>3, <1>4, <1>5
  <2> QED BY <2>1 DEF InfoOf, Info, Item
<1>7. TypeOK'
  <2>1. DOMAIN info' \subseteq Resolved
    BY <1>4, <1>5 DEF Item
  <2> QED BY <1>1, <1>4, <1>6, <2>1 DEF IInv, TypeOK, RegistryTypeOK, Phases
<1>8. TagsInv' /\ ResolveInv' /\ CollectInv' /\ DocumentsOfImage'
  BY <1>1, <1>6 DEF IInv, TagsInv, ResolveInv, CollectInv, DocumentsOfImage
<1>9. ItemsInv'
  <2>1. \A l \in Locs : ItemAt(l)' = ItemAt(l)
    BY <1>1 DEF ItemAt
  <2> QED BY <1>1, <1>5, <1>6, <2>1 DEF ItemsInv
<1>10. InspectInv'
  <2>1. Inspected' = {}
    BY <1>1 DEF Inspected, AfterInspect
  <2> QED BY <1>1, <1>6, <2>1 DEF InspectInv
<1>11. FoundInv'
  BY <1>1 DEF FoundInv, Targets, Phases
<1>12. KeptInv'
  <2>1. Enlisted("related")' = {}
    BY <1>1 DEF Enlisted, Targets
  <2>2. ~ Begun("relatedToManifests")'
    BY <1>1 DEF Begun, AfterInspect
  <2> QED BY <2>1, <2>2 DEF KeptInv, Phases
<1> QED BY <1>7, <1>8, <1>9, <1>10, <1>11, <1>12 DEF IInv

\* A target is an image of a repository with its digest.
LEMMA TargetType ==
    ASSUME IInv, NEW p \in Phases, NEW r \in Targets(p)
    PROVE  r \in Resolved
BY DEF IInv, TypeOK, Targets, Item, Relation

\* Listing the tags about a target keeps the invariant (FindRelatedTags).
LEMMA ListStep ==
    ASSUME IInv, NEW i \in left, List(i)
    PROVE  IInv'
<1> DEFINE L == {[of |-> i.ref, tag |-> t] : t \in ListRelated(i.ref.name, i.ref.digest)}
<1>1. /\ pc \in Phases /\ pc' = pc /\ left' = left \ {i} /\ listing = {} /\ listing' = L
      /\ unresolved' = unresolved /\ resolved' = resolved /\ items' = items /\ info' = info
      /\ stored' = stored /\ tags' = tags /\ retags' = retags
      /\ manifests' = manifests /\ related' = related /\ uncollected' = uncollected
  BY DEF List, registryVars, resolveVars
<1>2. i \in Item /\ i.ref \in Resolved /\ i.ref \in Targets(pc)
  BY <1>1 DEF IInv, TypeOK, Item, FoundInv
<1>3. \A x \in L : x \in [of : Resolved, tag : CosignTags] /\ x.of = i.ref /\ Subject[x.tag] = i.ref.digest
  BY <1>2 DEF ListRelated
<1>4. \A p : Targets(p)' = Targets(p)
  BY <1>1 DEF Targets
<1>5. TypeOK'
  BY <1>1, <1>3 DEF IInv, TypeOK, RegistryTypeOK
<1>6. TagsInv' /\ DocumentsOfImage' /\ ResolveInv'
  BY <1>1 DEF IInv, TagsInv, DocumentsOfImage, ResolveInv, Phases
<1>7. ItemsInv' /\ InspectInv' /\ CollectInv'
  <2>1. Inspected' = Inspected
    BY <1>1 DEF Inspected, Phases
  <2>2. ItemsInv'
    BY <1>1 DEF IInv, ItemsInv, ItemAt
  <2>3. InspectInv'
    BY <1>1, <2>1 DEF IInv, InspectInv
  <2> QED BY <1>1, <2>2, <2>3 DEF CollectInv, Phases
<1>8. FoundInv'
  BY <1>1, <1>2, <1>3, <1>4 DEF IInv, FoundInv
<1>9. ASSUME NEW t \in CosignTags, Subject[t] = i.ref.digest, Lasting(i.ref.name, t)
      PROVE  [of |-> i.ref, tag |-> t] \in L
  <2>1. i.ref.name \in Names /\ t \in Tags
    BY <1>2, RegistryAssumption DEF Resolved
  <2>2. tags[i.ref.name][t] # NoDigest
    BY <1>9, <2>1 DEF IInv, TagsInv, Ever, Lasting
  <2> QED BY <1>9, <2>2 DEF ListRelated
<1>10. KeptInv'
  <2> SUFFICES ASSUME NEW p \in Phases, Begun(p)', NEW r \in Enlisted(p)', NEW t \in CosignTags,
                      Subject[t] = r.digest, Lasting(r.name, t)
               PROVE  \/ pc' = p /\ [of |-> r, tag |-> t] \in L
                      \/ \E e \in related'[p] : e.target = r /\ e.image.tag = t
    BY <1>1 DEF KeptInv, Lasting
  <2>1. Begun(p) /\ (r \in Enlisted(p) \/ (p = pc /\ r = i.ref))
    BY <1>1, <1>4 DEF Begun, Enlisted
  <2>2. CASE p = pc /\ r = i.ref
    BY <1>1, <1>9, <2>2
  <2>3. CASE r \in Enlisted(p)
    BY <1>1, <2>1, <2>3 DEF IInv, KeptInv
  <2> QED BY <2>1, <2>2, <2>3
<1> QED BY <1>5, <1>6, <1>7, <1>8, <1>10 DEF IInv

\* Looking up a tag that was listed keeps the invariant: its artefact is about
\* the target, whichever version it is of (AppendWithRelationTo).
LEMMA LookUpStep ==
    ASSUME IInv, NEW x \in listing, LookUp(x)
    PROVE  IInv'
<1> DEFINE a == [name |-> x.of.name, tag |-> x.tag, digest |-> tags[x.of.name][x.tag]]
           new == [image |-> a, target |-> x.of]
<1>1. CASE Abort
  BY <1>1, EndStep DEF Abort
<1>2. CASE ~ Abort
  <2>1. /\ pc \in Phases /\ pc' = pc /\ ~ Unusable(related[pc], a) /\ left' = left /\ listing' = listing \ {x}
        /\ related' = [related EXCEPT ![pc] = @ \cup {new}]
        /\ unresolved' = unresolved /\ resolved' = resolved /\ items' = items /\ info' = info
        /\ stored' = stored /\ tags' = tags /\ retags' = retags
        /\ manifests' = manifests /\ uncollected' = uncollected
    BY <1>2 DEF LookUp, registryVars, resolveVars
  <2>2. /\ x.of \in Targets(pc) /\ x.of \in Resolved /\ Subject[x.tag] = x.of.digest
        /\ x.tag \in CosignTags /\ x.tag \in Tags /\ x.of.name \in Names
    BY <2>1, RegistryAssumption DEF IInv, TypeOK, FoundInv, Resolved
  <2>3. a.digest \in Ever(a.name, a.tag) /\ a.digest \in Digests
    <3>1. tags[x.of.name][x.tag] \in Ever(x.of.name, x.tag)
      BY <2>2 DEF IInv, TagsInv
    <3>2. a.digest \in Digests \cup {NoDigest}
      BY <2>2 DEF IInv, TypeOK, RegistryTypeOK, Repos, AllTags
    <3> QED BY <2>1, <3>1, <3>2 DEF Unusable
  <2>4. new \in Relation /\ new.target = x.of /\ new.image = a
    BY <2>2, <2>3 DEF Relation, Resolved
  <2>5. a.name = x.of.name /\ a.tag = x.tag
    OBVIOUS
  <2> HIDE DEF a, new
  <2>6. /\ \A p \in Phases : related[p] \subseteq related'[p]
        /\ \A p \in Phases : related'[p] \subseteq related[p] \cup (IF p = pc THEN {new} ELSE {})
        /\ new \in related'[pc]
    BY <2>1 DEF IInv, TypeOK
  <2>7. \A p : Targets(p)' = Targets(p)
    BY <2>1 DEF Targets
  <2>8. TypeOK'
    BY <2>1, <2>4 DEF IInv, TypeOK, RegistryTypeOK
  <2>9. TagsInv' /\ DocumentsOfImage' /\ ResolveInv'
    BY <2>1 DEF IInv, TagsInv, DocumentsOfImage, ResolveInv, Phases
  <2>10. ItemsInv' /\ InspectInv' /\ CollectInv'
    <3>1. Inspected' = Inspected
      BY <2>1 DEF Inspected
    <3>2. ItemsInv'
      BY <2>1 DEF IInv, ItemsInv, ItemAt
    <3>3. InspectInv'
      BY <2>1, <3>1 DEF IInv, InspectInv
    <3> QED BY <2>1, <3>2, <3>3 DEF CollectInv, Phases
  <2>11. FoundInv'
    <3>1. \A p \in Phases : \A e \in related'[p] :
            /\ e.target \in Targets(p) /\ e.image.name = e.target.name
            /\ e.image.tag \in CosignTags /\ Subject[e.image.tag] = e.target.digest
            /\ e.image.digest \in Ever(e.image.name, e.image.tag)
      BY <2>2, <2>3, <2>4, <2>5, <2>6 DEF IInv, FoundInv
    <3>2. \A n, t : Ever(n, t)' = Ever(n, t)
      BY DEF Ever
    <3> QED BY <2>1, <2>7, <3>1, <3>2 DEF IInv, FoundInv
  <2>12. KeptInv'
    <3> SUFFICES ASSUME NEW p \in Phases, Begun(p)', NEW r \in Enlisted(p)', NEW t \in CosignTags,
                        Subject[t] = r.digest, Lasting(r.name, t)
                 PROVE  \/ pc' = p /\ [of |-> r, tag |-> t] \in listing'
                        \/ \E e \in related'[p] : e.target = r /\ e.image.tag = t
      BY DEF KeptInv, Lasting
    <3>1. Begun(p) /\ r \in Enlisted(p)
      BY <2>1, <2>7 DEF Begun, Enlisted
    <3>2. CASE pc = p /\ [of |-> r, tag |-> t] = x
      BY <2>4, <2>5, <2>6, <3>2
    <3>3. CASE ~(pc = p /\ [of |-> r, tag |-> t] = x)
      BY <2>1, <2>6, <3>1, <3>3 DEF IInv, KeptInv
    <3> QED BY <3>2, <3>3
  <2> QED BY <2>8, <2>9, <2>10, <2>11, <2>12 DEF IInv
<1> QED BY <1>1, <1>2

\* All tags of the images have been looked up; no index has been read yet (CollectInfo).
LEMMA BeginInspectStep ==
    ASSUME IInv, BeginInspect
    PROVE  IInv'
<1>1. /\ pc = "related" /\ pc' = "inspect" /\ left = {} /\ left' = items /\ listing = {} /\ listing' = {}
      /\ unresolved' = unresolved /\ resolved' = resolved /\ items' = items /\ info' = info
      /\ stored' = stored /\ tags' = tags /\ retags' = retags
      /\ manifests' = manifests /\ related' = related /\ uncollected' = uncollected
  BY DEF BeginInspect, registryVars, resolveVars
<1>2. TypeOK'
  BY <1>1 DEF IInv, TypeOK, RegistryTypeOK
<1>3. TagsInv' /\ DocumentsOfImage' /\ ResolveInv' /\ CollectInv'
  BY <1>1 DEF IInv, TagsInv, DocumentsOfImage, ResolveInv, CollectInv
<1>4. ItemsInv'
  BY <1>1 DEF IInv, ItemsInv, ItemAt, AfterDedup
<1>5. InspectInv'
  <2>1. Inspected = {} /\ Inspected' = {}
    BY <1>1 DEF Inspected, AfterInspect
  <2> QED BY <1>1, <2>1 DEF IInv, InspectInv, AfterDedup
<1>6. FoundInv' /\ KeptInv'
  <2>1. /\ \A p : Targets(p)' = Targets(p)
        /\ Enlisted("related")' = Enlisted("related") /\ ~ Begun("relatedToManifests")'
        /\ Begun("related")
    BY <1>1 DEF Targets, Enlisted, Begun, AfterDedup, AfterInspect
  <2>2. FoundInv'
    BY <1>1, <2>1 DEF IInv, FoundInv, Phases
  <2>3. KeptInv'
    BY <1>1, <2>1 DEF IInv, KeptInv, Phases
  <2> QED BY <2>2, <2>3
<1> QED BY <1>2, <1>3, <1>4, <1>5, <1>6 DEF IInv

\* The documents in an index are well formed (FindRelatedFromIndecies).
LEMMA DocumentsType ==
    ASSUME NEW d \in Digests
    PROVE  Documents(d) \subseteq [kind : InlineKinds, subject : Digests, from : Digests]
BY RegistryAssumption, InspectionAssumption DEF Documents

\* Inspecting an index keeps the invariant: had another item of the same
\* reference been inspected its manifests would be refused (inspectManifest).
LEMMA InspectStep ==
    ASSUME IInv, NEW i \in left, Inspect(i)
    PROVE  IInv'
<1> DEFINE docs == Documents(i.ref.digest)
           listed == ListedBy(i.ref)
<1>1. CASE End("failed") \/ End("crashed")
  BY <1>1, EndStep DEF Inspect
<1>2. CASE ~(End("failed") \/ End("crashed"))
  <2>1. /\ pc = "inspect" /\ pc' = pc /\ listed # {} /\ ~ Duplicate(docs)
        /\ \A m \in listed : ~ Refused(manifests, m)
        /\ info' = [info EXCEPT ![i.ref].manifests = @ \cup IndexOf[i.ref.digest],
                                ![i.ref].inline = @ \cup docs]
        /\ manifests' = manifests \cup {[image |-> m, target |-> i.ref] : m \in listed}
        /\ left' = left \ {i} /\ listing' = listing /\ related' = related
        /\ unresolved' = unresolved /\ resolved' = resolved /\ items' = items
        /\ stored' = stored /\ tags' = tags /\ retags' = retags /\ uncollected' = uncollected
    BY <1>2 DEF Inspect, Abort, ListedBy, registryVars, resolveVars
  <2>2. /\ i \in items /\ left \subseteq items /\ i \in Item /\ i.ref \in Resolved
        /\ i.ref.digest \in Digests /\ i.ref \in DOMAIN info /\ info[i.ref] \in Info
    BY <2>1 DEF IInv, TypeOK, ItemsInv, AfterDedup, Item, Resolved
  <2>3. listed \subseteq Resolved
    BY <2>2, RegistryAssumption DEF ListedBy, Resolved
  <2>4. /\ DOMAIN info' = DOMAIN info
        /\ \A r \in DOMAIN info : r # i.ref => info'[r] = info[r]
        /\ info'[i.ref] = [info[i.ref] EXCEPT !.manifests = @ \cup IndexOf[i.ref.digest],
                                              !.inline = @ \cup docs]
    BY <2>1, <2>2
  <2>5. docs \subseteq [kind : InlineKinds, subject : Digests, from : Digests]
        /\ IndexOf[i.ref.digest] \subseteq Digests
    BY <2>2, DocumentsType, RegistryAssumption
  <2> HIDE DEF docs, listed
  <2>6. /\ info'[i.ref].manifests = info[i.ref].manifests \cup IndexOf[i.ref.digest]
        /\ info'[i.ref].inline = info[i.ref].inline \cup docs
        /\ info'[i.ref].locs = info[i.ref].locs /\ info'[i.ref].external = info[i.ref].external
        /\ info'[i.ref] \in Info
    BY <2>2, <2>4, <2>5 DEF Info
  <2>7. \A r \in DOMAIN info : info'[r].locs = info[r].locs /\ info'[r].external = info[r].external
    BY <2>4, <2>6
  <2>8. Inspected' = Inspected \cup {i} /\ i \notin Inspected
    BY <2>1, <2>2 DEF Inspected
  <2>9. \A j \in Inspected : j.ref # i.ref
    <3> SUFFICES ASSUME NEW j \in Inspected, j.ref = i.ref PROVE FALSE
      OBVIOUS
    <3>1. PICK m : m \in listed
      BY <2>1
    <3>2. [image |-> m, target |-> j.ref] \in manifests
      BY <2>1, <3>1 DEF IInv, InspectInv, AfterDedup, listed
    <3> QED BY <2>1, <3>1, <3>2 DEF Refused
  <2>10. TypeOK'
    <3>1. manifests' \subseteq Relation
      BY <2>1, <2>2, <2>3 DEF IInv, TypeOK, Relation
    <3>2. \A r \in DOMAIN info' : info'[r] \in Info
      BY <2>4, <2>6 DEF IInv, TypeOK
    <3> QED BY <2>1, <2>4, <3>1, <3>2 DEF IInv, TypeOK, RegistryTypeOK
  <2>11. TagsInv' /\ DocumentsOfImage' /\ ResolveInv' /\ CollectInv'
    <3>1. DocumentsOfImage'
      BY <2>4, <2>7 DEF IInv, DocumentsOfImage
    <3> QED BY <2>1, <3>1 DEF IInv, TagsInv, ResolveInv, CollectInv
  <2>12. ItemsInv'
    <3>1. \A l \in Locs : ItemAt(l)' = ItemAt(l)
      BY <2>1 DEF ItemAt
    <3>2. /\ unresolved = {} /\ items = {ItemAt(l) : l \in Locs} /\ DOMAIN info = {j.ref : j \in items}
          /\ \A r \in DOMAIN info : \E j \in items : j.ref = r /\ info[r].locs = j.locs
      BY <2>1 DEF IInv, ItemsInv, AfterDedup
    <3>3. items' = {ItemAt(l)' : l \in Locs}
      BY <2>1, <3>1, <3>2
    <3>4. ASSUME NEW r \in DOMAIN info'
          PROVE  \E j \in items' : j.ref = r /\ info'[r].locs = j.locs
      <4>1. r \in DOMAIN info /\ info'[r].locs = info[r].locs
        BY <2>4, <2>7
      <4>2. PICK j \in items : j.ref = r /\ info[r].locs = j.locs
        BY <3>2, <4>1
      <4>3. j \in items'
        BY <2>1
      <4> QED BY <4>1, <4>2, <4>3, Zenon
    <3>5. unresolved' = {} /\ DOMAIN info' = {j.ref : j \in items'} /\ left' \subseteq items'
      BY <2>1, <2>2, <2>4, <3>2
    <3> QED BY <3>3, <3>4, <3>5 DEF ItemsInv
  <2>13. InspectInv'
    <3>1. /\ \A e \in manifests : \E j \in Inspected : e.target = j.ref /\ e.image \in ListedBy(j.ref)
          /\ \A j \in Inspected : /\ ListedBy(j.ref) # {} /\ ~ Duplicate(Documents(j.ref.digest))
                                  /\ \A m \in ListedBy(j.ref) : [image |-> m, target |-> j.ref] \in manifests
          /\ \A j, k \in Inspected : j.ref = k.ref => j = k
          /\ \A r \in DOMAIN info :
               IF \E j \in Inspected : j.ref = r
               THEN info[r].manifests = IndexOf[r.digest] /\ info[r].inline = Documents(r.digest)
               ELSE info[r].manifests = {} /\ info[r].inline = {}
      BY <2>1 DEF IInv, InspectInv, AfterDedup
    <3>2. \A e \in manifests' : \E j \in Inspected' : e.target = j.ref /\ e.image \in ListedBy(j.ref)
      BY <2>1, <2>8, <3>1 DEF listed
    <3>3. \A j \in Inspected' : /\ ListedBy(j.ref) # {} /\ ~ Duplicate(Documents(j.ref.digest))
                                /\ \A m \in ListedBy(j.ref) : [image |-> m, target |-> j.ref] \in manifests'
      BY <2>1, <2>8, <3>1 DEF listed, docs
    <3>4. \A j, k \in Inspected' : j.ref = k.ref => j = k
      BY <2>8, <2>9, <3>1
    <3>5. info[i.ref].manifests = {} /\ info[i.ref].inline = {}
      BY <2>2, <2>9, <3>1
    <3>6. ASSUME NEW r \in DOMAIN info
          PROVE  IF \E j \in Inspected' : j.ref = r
                 THEN info'[r].manifests = IndexOf[r.digest] /\ info'[r].inline = Documents(r.digest)
                 ELSE info'[r].manifests = {} /\ info'[r].inline = {}
      <4>1. CASE r = i.ref
        BY <2>6, <2>8, <3>5, <4>1 DEF docs
      <4>2. CASE r # i.ref
        BY <2>4, <2>8, <3>1, <4>2
      <4> QED BY <4>1, <4>2
    <3> QED BY <2>4, <3>2, <3>3, <3>4, <3>6 DEF InspectInv, ListedBy, Duplicate, Documents
  <2>14. FoundInv' /\ KeptInv'
    <3>1. /\ \A p : Targets(p) \subseteq Targets(p)'
          /\ Enlisted("related")' = Enlisted("related") /\ ~ Begun("relatedToManifests")'
          /\ Begun("related")
      BY <2>1 DEF Targets, Enlisted, Begun, AfterDedup, AfterInspect
    <3>2. FoundInv'
      BY <2>1, <3>1 DEF IInv, FoundInv, Phases
    <3>3. KeptInv'
      BY <2>1, <3>1 DEF IInv, KeptInv, Phases
    <3> QED BY <3>2, <3>3
  <2> QED BY <2>10, <2>11, <2>12, <2>13, <2>14 DEF IInv
<1> QED BY <1>1, <1>2

\* All indexes have been read; the tags about their manifests come next (CollectInfo).
LEMMA EndInspectStep ==
    ASSUME IInv, EndInspect
    PROVE  IInv'
<1>1. /\ pc = "inspect" /\ pc' = "relatedToManifests" /\ left = {} /\ listing' = listing
      /\ left' = {[ref |-> e.image, locs |-> {}] : e \in manifests}
      /\ unresolved' = unresolved /\ resolved' = resolved /\ items' = items /\ info' = info
      /\ stored' = stored /\ tags' = tags /\ retags' = retags
      /\ manifests' = manifests /\ related' = related /\ uncollected' = uncollected
  BY DEF EndInspect, registryVars, resolveVars
<1>2. listing = {}
  BY <1>1 DEF IInv, FoundInv, Phases
<1>3. TypeOK'
  <2>1. left' \subseteq Item
    BY <1>1 DEF IInv, TypeOK, Relation, Item
  <2> QED BY <1>1, <2>1 DEF IInv, TypeOK, RegistryTypeOK, Phases
<1>4. TagsInv' /\ DocumentsOfImage' /\ ResolveInv' /\ CollectInv'
  BY <1>1 DEF IInv, TagsInv, DocumentsOfImage, ResolveInv, CollectInv
<1>5. ItemsInv'
  BY <1>1 DEF IInv, ItemsInv, ItemAt, AfterDedup, AfterInspect
<1>6. InspectInv'
  <2>1. Inspected' = Inspected
    BY <1>1 DEF Inspected, AfterInspect
  <2> QED BY <1>1, <2>1 DEF IInv, InspectInv, AfterDedup, AfterInspect
<1>7. FoundInv' /\ KeptInv'
  <2>1. /\ \A p : Targets(p)' = Targets(p)
        /\ Enlisted("related")' = Enlisted("related") /\ Begun("related")
        /\ Enlisted("relatedToManifests")' = {}
    <3>1. \A p : Targets(p)' = Targets(p)
      BY <1>1 DEF Targets
    <3>2. Targets("relatedToManifests") = {e.image : e \in manifests}
      BY DEF Targets
    <3>3. \A e \in manifests : e.image \in {i.ref : i \in left'}
      <4> SUFFICES ASSUME NEW e \in manifests PROVE \E i \in left' : i.ref = e.image
        OBVIOUS
      <4>1. [ref |-> e.image, locs |-> {}] \in left'
        BY <1>1
      <4>2. [ref |-> e.image, locs |-> {}].ref = e.image
        OBVIOUS
      <4> QED BY <4>1, <4>2, Zenon
    <3>4. Enlisted("relatedToManifests")' = {}
      BY <1>1, <3>1, <3>2, <3>3 DEF Enlisted
    <3>5. Enlisted("related")' = Enlisted("related") /\ Begun("related")
      BY <1>1, <3>1 DEF Enlisted, Begun, AfterDedup
    <3> QED BY <3>1, <3>4, <3>5
  <2>2. FoundInv'
    <3>1. \A j \in left' : j.ref \in Targets(pc')
      BY <1>1 DEF Targets
    <3> QED BY <1>1, <1>2, <2>1, <3>1 DEF IInv, FoundInv, Phases
  <2>3. KeptInv'
    BY <1>1, <2>1 DEF IInv, KeptInv, Phases
  <2> QED BY <2>2, <2>3
<1> QED BY <1>3, <1>4, <1>5, <1>6, <1>7 DEF IInv

\* What is related to an image is about it or a manifest that it lists, and one
\* of the artefacts that its tag has pointed at (RelatedTo).
LEMMA RelatedFacts ==
    ASSUME IInv, pc \in AfterDedup, NEW r \in DOMAIN info, NEW a \in Related(r)
    PROVE  /\ a \in Resolved /\ a.name = r.name /\ a.tag \in CosignTags
           /\ Subject[a.tag] \in Covers(r) /\ a.digest \in Ever(r.name, a.tag)
<1>1. ASSUME NEW p \in Phases, NEW e \in related[p], e.image = a,
             e.target.name = r.name, e.target.digest \in Covers(r)
      PROVE  /\ a \in Resolved /\ a.name = r.name /\ a.tag \in CosignTags
             /\ Subject[a.tag] \in Covers(r) /\ a.digest \in Ever(r.name, a.tag)
  BY <1>1 DEF IInv, TypeOK, FoundInv, Relation
<1>2. CASE a \in RelatedTo(related["related"], r)
  <2>1. PICK e \in related["related"] : e.target = r /\ e.image = a
    BY <1>2 DEF RelatedTo
  <2> QED BY <1>1, <2>1 DEF Phases, Covers
<1>3. ASSUME NEW m \in RelatedTo(manifests, r), a \in RelatedTo(related["relatedToManifests"], m)
      PROVE  /\ a \in Resolved /\ a.name = r.name /\ a.tag \in CosignTags
             /\ Subject[a.tag] \in Covers(r) /\ a.digest \in Ever(r.name, a.tag)
  <2>1. PICK x \in manifests : x.target = r /\ x.image = m
    BY DEF RelatedTo
  <2>2. m \in ListedBy(r)
    BY <2>1 DEF IInv, InspectInv
  <2>3. m.name = r.name /\ m.digest \in Covers(r)
    BY <2>2 DEF ListedBy, Covers
  <2>4. PICK e \in related["relatedToManifests"] : e.target = m /\ e.image = a
    BY <1>3 DEF RelatedTo
  <2> QED BY <1>1, <2>3, <2>4 DEF Phases
<1> QED BY <1>2, <1>3 DEF Related

\* All that was found is to be collected, for each image (CollectRelatedToRef).
LEMMA BeginCollectStep ==
    ASSUME IInv, BeginCollect
    PROVE  IInv'
<1>1. /\ pc = "relatedToManifests" /\ pc' = "collect" /\ left = {} /\ left' = left
      /\ listing = {} /\ listing' = listing
      /\ uncollected' = UNION {{[image |-> a, target |-> r] : a \in Related(r)} : r \in DOMAIN info}
      /\ unresolved' = unresolved /\ resolved' = resolved /\ items' = items /\ info' = info
      /\ stored' = stored /\ tags' = tags /\ retags' = retags
      /\ manifests' = manifests /\ related' = related
  BY DEF BeginCollect, registryVars, resolveVars
<1>2. \A e : e \in uncollected' <=>
         \E r \in DOMAIN info : \E a \in Related(r) : e = [image |-> a, target |-> r]
  BY <1>1
<1>3. TypeOK'
  <2>1. ASSUME NEW e \in uncollected' PROVE e \in Relation
    <3>0. PICK r \in DOMAIN info : \E a \in Related(r) : e = [image |-> a, target |-> r]
      BY <1>2
    <3>1. PICK a \in Related(r) : e = [image |-> a, target |-> r]
      BY <3>0
    <3>2. r \in Resolved /\ a \in Resolved
      BY <1>1, <3>1, RelatedFacts DEF IInv, TypeOK, AfterDedup, AfterInspect
    <3> QED BY <3>1, <3>2 DEF Relation
  <2> QED BY <1>1, <2>1 DEF IInv, TypeOK, RegistryTypeOK
<1>4. TagsInv' /\ DocumentsOfImage' /\ ResolveInv'
  BY <1>1 DEF IInv, TagsInv, DocumentsOfImage, ResolveInv
<1>5. ItemsInv'
  BY <1>1 DEF IInv, ItemsInv, ItemAt, AfterDedup, AfterInspect
<1>6. InspectInv'
  <2>1. Inspected' = Inspected
    BY <1>1 DEF Inspected, AfterInspect
  <2> QED BY <1>1, <2>1 DEF IInv, InspectInv, AfterDedup, AfterInspect
<1>7. FoundInv' /\ KeptInv'
  <2>1. /\ \A p : Targets(p)' = Targets(p)
        /\ \A p \in Phases : Enlisted(p)' = Enlisted(p) /\ Begun(p)
    BY <1>1 DEF Targets, Enlisted, Begun, AfterDedup, AfterInspect, Phases
  <2>2. FoundInv'
    BY <1>1, <2>1 DEF IInv, FoundInv, Phases
  <2>3. KeptInv'
    BY <1>1, <2>1 DEF IInv, KeptInv, Phases
  <2> QED BY <2>2, <2>3
<1>8. CollectInv'
  <2>1. \A r : Related(r)' = Related(r)
    BY <1>1, RelatedKept
  <2>2. \A e \in uncollected' : e.target \in DOMAIN info' /\ e.image \in Related(e.target)'
    BY <1>1, <1>2, <2>1
  <2>3. \A r \in DOMAIN info' : \A a \in Related(r)' : [image |-> a, target |-> r] \in uncollected'
    BY <1>1, <1>2, <2>1
  <2> QED BY <1>1, <2>2, <2>3 DEF CollectInv
<1> QED BY <1>3, <1>4, <1>5, <1>6, <1>7, <1>8 DEF IInv

\* Fetching an artefact keeps the invariant: it is fetched by the digest it was
\* found with (GetSingleArtefact, CollectRelatedToRef).
LEMMA FetchDocumentStep ==
    ASSUME IInv, NEW e \in uncollected, FetchDocument(e)
    PROVE  IInv'
<1> DEFINE r == e.target
           a == e.image
           flat == Flat(Fetched(a))
           documents == {[kind |-> Kind[a.tag], ref |-> a, from |-> d] : d \in flat}
<1>1. CASE Abort
  BY <1>1, EndStep DEF Abort
<1>2. CASE ~ Abort
  <2>1. /\ pc = "collect" /\ pc' = pc /\ left' = left /\ listing' = listing
        /\ uncollected' = uncollected \ {e}
        /\ unresolved' = unresolved /\ resolved' = resolved /\ items' = items
        /\ stored' = stored /\ tags' = tags /\ retags' = retags
        /\ manifests' = manifests /\ related' = related
    BY <1>2 DEF FetchDocument, registryVars, resolveVars
  <2>2. r \in DOMAIN info /\ a \in Related(r) /\ e \in Relation /\ pc \in AfterDedup
    BY <2>1 DEF IInv, TypeOK, CollectInv, AfterDedup, AfterInspect
  <2>3. /\ a \in Resolved /\ a.name = r.name /\ a.tag \in CosignTags
        /\ Subject[a.tag] \in Covers(r) /\ a.digest \in Ever(r.name, a.tag)
    BY <2>2, RelatedFacts
  <2>4. e = [image |-> a, target |-> r]
    BY <2>2 DEF Relation
  <2>5. /\ Kind[a.tag] = "other" => info' = [info EXCEPT ![r].unclassified = @ \cup {a}]
        /\ Kind[a.tag] # "other" =>
             /\ info' = [info EXCEPT ![r].external = @ \cup documents]
             /\ Fetched(a) # NoDigest /\ Cardinality(flat) = 1
    BY <1>2 DEF FetchDocument
  <2>6. ASSUME Kind[a.tag] # "other"
        PROVE  /\ flat = Flat(a.digest) /\ flat # {} /\ flat \subseteq Digests
               /\ Kind[a.tag] \in Kinds
    <3>1. a.digest \in Digests /\ a.digest # NoDigest
      BY <2>3, RegistryAssumption DEF Resolved
    <3>2. Fetched(a) = a.digest
      BY <2>5, <2>6, <3>1 DEF Fetched, Digest
    <3>3. flat # {}
      BY <2>5, <2>6, FS_EmptySet
    <3>4. Kind[a.tag] \in Kinds
      BY <2>3, <2>6, InspectionAssumption
    <3> QED BY <3>1, <3>2, <3>3, <3>4, RegistryAssumption DEF Flat
  <2>7. \A x \in documents : x.kind = Kind[a.tag] /\ x.ref = a /\ x.from \in flat
    OBVIOUS
  <2>8. ASSUME flat # {} PROVE \E x \in documents : x.ref = a
    <3>1. PICK d : d \in flat
      BY <2>8
    <3>2. [kind |-> Kind[a.tag], ref |-> a, from |-> d] \in documents
      BY <3>1
    <3> QED BY <3>2, <2>7
  <2>9. Kind[a.tag] # "other" => documents \subseteq [kind : Kinds, ref : Resolved, from : Digests]
    BY <2>3, <2>6
  <2>10. info[r] \in Info
    BY <2>2 DEF IInv, TypeOK
  <2> HIDE DEF documents, flat, a, r
  <2>11. /\ DOMAIN info' = DOMAIN info
         /\ \A q \in DOMAIN info : q # r => info'[q] = info[q]
    BY <2>2, <2>5
  <2>12. /\ info'[r] \in Info /\ info'[r].locs = info[r].locs
         /\ info'[r].manifests = info[r].manifests /\ info'[r].inline = info[r].inline
         /\ info[r].external \subseteq info'[r].external
         /\ info[r].unclassified \subseteq info'[r].unclassified
         /\ \/ info'[r].external = info[r].external /\ a \in info'[r].unclassified
            \/ /\ info'[r].external = info[r].external \cup documents
               /\ Kind[a.tag] # "other"
    <3>1. CASE Kind[a.tag] = "other"
      <4>1. info'[r] = [info[r] EXCEPT !.unclassified = @ \cup {a}]
        BY <2>2, <2>5, <3>1
      <4> QED BY <2>3, <2>10, <4>1 DEF Info
    <3>2. CASE Kind[a.tag] # "other"
      <4>1. info'[r] = [info[r] EXCEPT !.external = @ \cup documents]
        BY <2>2, <2>5, <3>2
      <4> QED BY <2>9, <2>10, <3>2, <4>1 DEF Info
    <3> QED BY <3>1, <3>2
  <2>13. \A q \in DOMAIN info : /\ info'[q].locs = info[q].locs /\ info'[q].inline = info[q].inline
                                /\ info'[q].manifests = info[q].manifests
    BY <2>11, <2>12
  <2>14. TypeOK'
    <3>1. \A q \in DOMAIN info' : info'[q] \in Info
      BY <2>11, <2>12 DEF IInv, TypeOK
    <3> QED BY <2>1, <2>11, <3>1 DEF IInv, TypeOK, RegistryTypeOK
  <2>15. TagsInv' /\ ResolveInv'
    BY <2>1 DEF IInv, TagsInv, ResolveInv
  <2>16. DocumentsOfImage'
    <3> SUFFICES ASSUME NEW q \in DOMAIN info', NEW x \in info'[q].external
                 PROVE  /\ x.ref.name = q.name /\ x.kind = Kind[x.ref.tag]
                        /\ Subject[x.ref.tag] \in Covers(q)
                        /\ x.ref.digest \in Versions[q.name][x.ref.tag] \cup {InitialTags[q.name][x.ref.tag]}
                        /\ x.from \in Flat(x.ref.digest)
      BY DEF DocumentsOfImage, Covers, Flat
    <3>1. CASE x \in info[q].external
      BY <2>11, <3>1 DEF IInv, DocumentsOfImage
    <3>2. CASE x \notin info[q].external
      <4>1. q = r /\ x \in documents /\ Kind[a.tag] # "other"
        BY <2>11, <2>12, <3>2
      <4> QED BY <2>3, <2>6, <2>7, <4>1 DEF Ever
    <3> QED BY <3>1, <3>2
  <2>17. ItemsInv'
    <3>1. /\ unresolved = {} /\ items = {ItemAt(l) : l \in Locs} /\ DOMAIN info = {j.ref : j \in items}
          /\ \A q \in DOMAIN info : \E j \in items : j.ref = q /\ info[q].locs = j.locs
      BY <2>1 DEF IInv, ItemsInv, AfterDedup, AfterInspect
    <3>2. \A l \in Locs : ItemAt(l)' = ItemAt(l)
      BY <2>1 DEF ItemAt
    <3>3. items' = {ItemAt(l)' : l \in Locs}
      BY <2>1, <3>1, <3>2
    <3>4. ASSUME NEW q \in DOMAIN info'
          PROVE  \E j \in items' : j.ref = q /\ info'[q].locs = j.locs
      <4>1. q \in DOMAIN info /\ info'[q].locs = info[q].locs
        BY <2>11, <2>13
      <4>2. PICK j \in items : j.ref = q /\ info[q].locs = j.locs
        BY <3>1, <4>1
      <4>3. j \in items'
        BY <2>1
      <4> QED BY <4>1, <4>2, <4>3, Zenon
    <3> QED BY <2>1, <2>11, <3>1, <3>3, <3>4 DEF ItemsInv
  <2>18. InspectInv'
    <3>1. Inspected' = Inspected
      BY <2>1 DEF Inspected
    <3> QED BY <2>1, <2>11, <2>13, <3>1 DEF IInv, InspectInv
  <2>19. FoundInv' /\ KeptInv'
    <3>1. \A p : Targets(p)' = Targets(p) /\ Enlisted(p)' = Enlisted(p) /\ Begun(p)' = Begun(p)
      BY <2>1 DEF Targets, Enlisted, Begun
    <3>2. FoundInv'
      BY <2>1, <3>1 DEF IInv, FoundInv
    <3>3. KeptInv'
      BY <2>1, <3>1 DEF IInv, KeptInv
    <3> QED BY <3>2, <3>3
  <2>20. CollectInv'
    <3>1. \A q : Related(q)' = Related(q)
      BY <2>1, RelatedKept
    <3>2. Reported(e)'
      <4>1. a \in info'[r].unclassified \/ \E x \in info'[r].external : x.ref = a
        BY <2>6, <2>8, <2>12
      <4> QED BY <4>1 DEF Reported, a, r
    <3>3. ASSUME NEW x, x.target \in DOMAIN info, Reported(x) PROVE Reported(x)'
      <4>1. /\ info[x.target].external \subseteq info'[x.target].external
            /\ info[x.target].unclassified \subseteq info'[x.target].unclassified
        BY <2>11, <2>12, <3>3
      <4> QED BY <3>3, <4>1 DEF Reported
    <3>4. ASSUME NEW q \in DOMAIN info, NEW b \in Related(q)
          PROVE  [image |-> b, target |-> q] \in uncollected' \/ Reported([image |-> b, target |-> q])'
      <4> DEFINE x == [image |-> b, target |-> q]
      <4>1. x \in uncollected \/ Reported(x)
        BY <2>1 DEF IInv, CollectInv
      <4>2. x.target \in DOMAIN info
        OBVIOUS
      <4> HIDE DEF x
      <4>3. x \in uncollected' \/ Reported(x)'
        BY <2>1, <3>2, <3>3, <4>1, <4>2
      <4> QED BY <4>3 DEF x
    <3>5. \A x \in uncollected' : x.target \in DOMAIN info' /\ x.image \in Related(x.target)'
      BY <2>1, <2>11, <3>1 DEF IInv, CollectInv
    <3> QED BY <2>1, <2>11, <3>1, <3>4, <3>5 DEF CollectInv
  <2> QED BY <2>14, <2>15, <2>16, <2>17, <2>18, <2>19, <2>20 DEF IInv
<1> QED BY <1>1, <1>2

-----------------------------------------------------------------------------
(* Theorems.                                                               *)

\* Every step keeps the invariant, whatever the authors do meanwhile.
LEMMA NextIInv == ASSUME IInv, [Next]_vars PROVE IInv'
<1>1. CASE PrintInfo
  BY <1>1, EndStep DEF PrintInfo
<1>2. CASE Fail
  BY <1>2, EndStep DEF Fail, Abort
<1>3. CASE UNCHANGED vars
  <2>1. /\ pc' = pc /\ stored' = stored /\ tags' = tags /\ retags' = retags /\ unresolved' = unresolved
        /\ resolved' = resolved /\ items' = items /\ info' = info /\ left' = left /\ listing' = listing
        /\ manifests' = manifests /\ related' = related /\ uncollected' = uncollected
    BY <1>3 DEF vars, registryVars, resolveVars
  <2>2. TypeOK' /\ TagsInv' /\ ResolveInv' /\ ItemsInv' /\ DocumentsOfImage'
    BY <2>1 DEF IInv, TypeOK, RegistryTypeOK, TagsInv, ResolveInv, ItemsInv, ItemAt, DocumentsOfImage
  <2>3. CollectInv'
    BY <2>1, RelatedKept DEF IInv, CollectInv, Reported
  <2>4. /\ Inspected' = Inspected
        /\ \A p : Targets(p)' = Targets(p) /\ Enlisted(p)' = Enlisted(p) /\ Begun(p)' = Begun(p)
    BY <2>1 DEF Inspected, Targets, Enlisted, Begun
  <2>5. InspectInv'
    BY <2>1, <2>4 DEF IInv, InspectInv
  <2>6. FoundInv'
    BY <2>1, <2>4 DEF IInv, FoundInv
  <2>7. KeptInv'
    BY <2>1, <2>4 DEF IInv, KeptInv
  <2> QED BY <2>2, <2>3, <2>5, <2>6, <2>7 DEF IInv
<1> QED BY <1>1, <1>2, <1>3, ResolveDigestStep, DedupStep, ListStep, LookUpStep, BeginInspectStep, InspectStep,
        EndInspectStep, BeginCollectStep, FetchDocumentStep, RetagStep DEF Next

\* Whatever is inspected and whatever tags move, the invariant holds.
THEOREM Inductive == Spec => []IInv
BY InitIInv, NextIInv, PTL DEF Spec

\* The variables have their types; in particular all that is reported of an
\* image has a digest (CollectInfo).
THEOREM TypeCorrect == Spec => []TypeOK
<1>1. IInv => TypeOK
  BY DEF IInv
<1> QED BY <1>1, Inductive, PTL

\* A document is reported for an image only if it is about it or a manifest that it
\* lists, and only as the manifest it was found as (RelatedTo, GetSingleArtefact).
THEOREM RightDocuments == Spec => []DocumentsOfImage
<1>1. IInv => DocumentsOfImage
  BY DEF IInv
<1> QED BY <1>1, Inductive, PTL

\* A tag that was there all the time is not missed, for any number of images
\* that share any manifests and artefacts (FindRelatedTags, CollectRelatedToRef).
THEOREM AllFound == Spec => []NothingMissed
<1>1. IInv => NothingMissed
  <2> SUFFICES ASSUME IInv, NEW r \in DOMAIN info, NEW t \in CosignTags,
                      pc = "done", Subject[t] \in Covers(r), Lasting(r.name, t)
               PROVE  \E a \in info[r].unclassified \cup {x.ref : x \in info[r].external} :
                        a.name = r.name /\ a.tag = t
    BY DEF NothingMissed, Printed, Lasting
  <2>1. PICK i \in items : i.ref = r
    BY DEF IInv, ItemsInv, AfterDedup, AfterInspect
  <2>2. Inspected = items /\ pc \notin Phases /\ pc \in AfterDedup
    BY DEF Inspected, AfterInspect, AfterDedup, Phases
  <2>3. \A p \in Phases : \A s \in Targets(p) : Subject[t] = s.digest /\ Lasting(s.name, t) =>
          \E e \in related[p] : e.target = s /\ e.image.tag = t
    BY <2>2 DEF IInv, KeptInv, Begun, Enlisted, AfterInspect, Phases
  <2>4. \E a \in Related(r) : a.tag = t
    <3>1. CASE Subject[t] = r.digest
      <4>1. r \in Targets("related")
        BY <2>1 DEF Targets
      <4>2. PICK e \in related["related"] : e.target = r /\ e.image.tag = t
        BY <2>3, <3>1, <4>1 DEF Phases
      <4>3. e.image \in RelatedTo(related["related"], r)
        BY <4>2 DEF RelatedTo
      <4> QED BY <4>2, <4>3 DEF Related
    <3>2. CASE Subject[t] \in IndexOf[r.digest]
      <4> DEFINE m == [name |-> r.name, tag |-> NoTag, digest |-> Subject[t]]
      <4>1. m \in ListedBy(i.ref)
        BY <2>1, <3>2 DEF ListedBy
      <4>2. [image |-> m, target |-> r] \in manifests
        BY <2>1, <2>2, <4>1 DEF IInv, InspectInv
      <4>3. m.name = r.name /\ m.digest = Subject[t]
        OBVIOUS
      <4> HIDE DEF m
      <4>4. m \in Targets("relatedToManifests")
        BY <4>2 DEF Targets
      <4>5. PICK e \in related["relatedToManifests"] : e.target = m /\ e.image.tag = t
        BY <2>3, <4>3, <4>4 DEF Phases
      <4>6. m \in RelatedTo(manifests, r)
        BY <4>2 DEF RelatedTo
      <4>7. e.image \in RelatedTo(related["relatedToManifests"], m)
        BY <4>5 DEF RelatedTo
      <4> QED BY <4>5, <4>6, <4>7 DEF Related
    <3> QED BY <3>1, <3>2 DEF Covers
  <2>5. PICK a \in Related(r) : a.tag = t
    BY <2>4
  <2>6. a.name = r.name
    BY <2>2, RelatedFacts
  <2>7. Reported([image |-> a, target |-> r])
    BY DEF IInv, CollectInv
  <2> QED BY <2>5, <2>6, <2>7 DEF Reported
<1> QED BY <1>1, Inductive, PTL

\* Where Dedup and the report do not agree on what is one image, inspectManifest
\* has refused the second.
LEMMA ReportedOnce ==
    ASSUME IInv
    PROVE  LocationsReported
<1> SUFFICES ASSUME pc = "done", NEW l \in Locs
             PROVE  {r \in DOMAIN info : l \in info[r].locs} = {[Scanned[l] EXCEPT !.digest = resolved[l]]}
  BY DEF LocationsReported
<1> DEFINE here == [Scanned[l] EXCEPT !.digest = resolved[l]]
<1>1. /\ items = {ItemAt(m) : m \in Locs} /\ DOMAIN info = {j.ref : j \in items}
      /\ \A r \in DOMAIN info : \E j \in items : j.ref = r /\ info[r].locs = j.locs
      /\ \A j, k \in items : j.ref = k.ref => j = k
  BY DEF IInv, ItemsInv, InspectInv, Inspected, AfterDedup, AfterInspect
<1>2. ItemAt(l) \in items /\ ItemAt(l).ref = here /\ l \in ItemAt(l).locs
  <2>1. ItemAt(l) \in items
    BY <1>1
  <2> QED BY <2>1 DEF ItemAt
<1>3. here \in DOMAIN info /\ l \in info[here].locs
  <2>1. here \in DOMAIN info
    BY <1>1, <1>2
  <2>2. PICK j \in items : j.ref = here /\ info[here].locs = j.locs
    BY <1>1, <2>1
  <2>3. j = ItemAt(l)
    BY <1>1, <1>2, <2>2
  <2> QED BY <1>2, <2>1, <2>2, <2>3
<1>4. ASSUME NEW r \in DOMAIN info, l \in info[r].locs PROVE r = here
  <2>1. PICK j \in items : j.ref = r /\ info[r].locs = j.locs
    BY <1>1
  <2>2. PICK m \in Locs : j = ItemAt(m)
    BY <1>1
  <2>3. Scanned[l] = Scanned[m] /\ resolved[l] = resolved[m]
    BY <1>4, <2>1, <2>2 DEF ItemAt
  <2> QED BY <2>1, <2>2, <2>3 DEF ItemAt
<1> HIDE DEF here
<1>5. {r \in DOMAIN info : l \in info[r].locs} = {here}
  BY <1>3, <1>4
<1> QED BY <1>5 DEF here

\* Each location is reported once, for any manifests (Dedup, outputInfo).
THEOREM LocationsOnce == Spec => []LocationsReported
<1>1. IInv => LocationsReported
  BY ReportedOnce
<1> QED BY <1>1, Inductive, PTL

\* The statements in an index are reported for its image, all of them, and one of
\* each kind about each manifest (inspectManifest).
THEOREM AllInlineReported == Spec => []InlineReported
<1>1. IInv => InlineReported
  <2> SUFFICES ASSUME IInv, NEW r \in DOMAIN info, pc = "done"
               PROVE  /\ info[r].manifests = IndexOf[r.digest] /\ info[r].inline = Documents(r.digest)
                      /\ \A x, y \in info[r].inline : x.kind = y.kind /\ x.subject = y.subject => x = y
    BY DEF InlineReported, Printed
  <2>1. Inspected = items /\ pc \in AfterDedup
    BY DEF Inspected, AfterInspect, AfterDedup
  <2>2. PICK i \in items : i.ref = r
    BY <2>1 DEF IInv, ItemsInv
  <2>3. /\ ~ Duplicate(Documents(r.digest))
        /\ info[r].manifests = IndexOf[r.digest] /\ info[r].inline = Documents(r.digest)
    BY <2>1, <2>2 DEF IInv, InspectInv
  <2> QED BY <2>3 DEF Duplicate
<1> QED BY <1>1, Inductive, PTL

-----------------------------------------------------------------------------
(* Whether an image comes with a digest.                                   *)

\* A digest that is written is the one the reference is resolved to.
WrittenInv == \A l \in Locs \ unresolved : Scanned[l].digest \in {NoDigest, resolved[l]}

\* The report says of each reference whether its digest is written anywhere.
ProvidedInv ==
    pc \in AfterDedup => \A r \in DOMAIN info : info[r].provided <=> r.digest \in WithDigests

\* Steps other than those of Dedup and of lookups keep what is said of digests.
LEMMA ToldKept ==
    ASSUME WrittenInv, ProvidedInv, UNCHANGED <<unresolved, resolved>>,
           pc' \in AfterDedup => pc \in AfterDedup, DOMAIN info' = DOMAIN info,
           \A r \in DOMAIN info : info'[r].provided = info[r].provided
    PROVE  WrittenInv' /\ ProvidedInv'
<1>1. WithDigests' = WithDigests
  BY DEF WithDigests
<1> QED BY <1>1 DEF WrittenInv, ProvidedInv

\* Steps that leave the report alone.
LEMMA ToldUnchanged ==
    ASSUME WrittenInv, ProvidedInv, UNCHANGED <<resolveVars, info>>,
           pc' \in AfterDedup => pc \in AfterDedup
    PROVE  WrittenInv' /\ ProvidedInv'
<1>1. /\ UNCHANGED <<unresolved, resolved>> /\ DOMAIN info' = DOMAIN info
      /\ \A r \in DOMAIN info : info'[r].provided = info[r].provided
  BY DEF resolveVars
<1> QED BY <1>1, ToldKept

\* A command that ends keeps both (CollectInfo).
LEMMA ToldEnd ==
    ASSUME WrittenInv, ProvidedInv, NEW how \in {"failed", "crashed", "done"}, End(how),
           how = "done" => pc \in AfterDedup
    PROVE  WrittenInv' /\ ProvidedInv'
<1>1. pc' = how /\ UNCHANGED <<resolveVars, info>>
  BY DEF End
<1> QED BY <1>1, ToldUnchanged DEF AfterDedup, AfterInspect

\* Each step keeps both: what is added to the report later says nothing of
\* digests (ResolveDigests, Dedup, newOutputInfo).
LEMMA ToldStep ==
    ASSUME IInv, WrittenInv, ProvidedInv, [Next]_vars
    PROVE  WrittenInv' /\ ProvidedInv'
<1>1. ASSUME NEW l \in Locs, ResolveDigest(l) PROVE WrittenInv' /\ ProvidedInv'
  <2>1. CASE Abort
    BY <2>1, ToldEnd DEF Abort
  <2>2. CASE ~ Abort
    <3> DEFINE d == Digest(Scanned[l])
    <3>1. /\ d # NoDigest /\ resolved' = [resolved EXCEPT ![l] = d] /\ unresolved' = unresolved \ {l}
          /\ pc' = "resolve"
      BY <1>1, <2>2 DEF ResolveDigest
    <3>2. Scanned[l].digest \in {NoDigest, d}
      BY <3>1 DEF Digest
    <3> HIDE DEF d
    <3>3. \A m \in Locs : resolved'[m] = IF m = l THEN d ELSE resolved[m]
      BY <3>1 DEF IInv, TypeOK
    <3> QED BY <3>1, <3>2, <3>3 DEF WrittenInv, ProvidedInv, AfterDedup, AfterInspect
  <2> QED BY <2>1, <2>2
<1>2. CASE Dedup
  <2>1. resolved' = resolved /\ unresolved' = unresolved
    BY <1>2 DEF Dedup
  <2>2. PICK kept \in [{i.ref : i \in items'} -> items'] :
          /\ \A r \in DOMAIN kept : kept[r].ref = r
          /\ info' = [r \in DOMAIN kept |-> InfoOf(kept[r])]
    BY <1>2 DEF Dedup
  <2>3. \A r \in DOMAIN info' : info'[r].provided = (r.digest \in WithDigests)
    <3> TAKE r \in DOMAIN info'
    <3>1. info'[r] = InfoOf(kept[r]) /\ kept[r].ref = r
      BY <2>2
    <3> QED BY <3>1 DEF InfoOf
  <2>4. WithDigests' = WithDigests
    BY DEF WithDigests
  <2> QED BY <2>1, <2>3, <2>4 DEF WrittenInv, ProvidedInv
<1>3. ASSUME NEW i \in left, List(i) \/ Inspect(i) PROVE WrittenInv' /\ ProvidedInv'
  <2>1. CASE List(i)
    BY <1>3, <2>1, ToldUnchanged DEF List
  <2>2. CASE Inspect(i) /\ (End("failed") \/ End("crashed"))
    BY <2>2, ToldEnd
  <2>3. CASE Inspect(i) /\ ~(End("failed") \/ End("crashed"))
    <3> DEFINE x == info[i.ref].manifests \cup IndexOf[i.ref.digest]
               y == info[i.ref].inline \cup Documents(i.ref.digest)
    <3>1. /\ UNCHANGED <<unresolved, resolved, pc>> /\ pc = "inspect"
          /\ info' = [info EXCEPT ![i.ref].manifests = x, ![i.ref].inline = y]
      BY <2>3 DEF Inspect, Abort, resolveVars
    <3> HIDE DEF x, y
    <3>2. i.ref \in DOMAIN info /\ info[i.ref] \in Info
      BY <1>3, <3>1 DEF IInv, TypeOK, ItemsInv, AfterDedup
    <3>3. DOMAIN info' = DOMAIN info /\ \A r \in DOMAIN info : info'[r].provided = info[r].provided
      BY <3>1, <3>2 DEF Info
    <3> QED BY <3>1, <3>3, ToldKept
  <2> QED BY <1>3, <2>1, <2>2, <2>3
<1>4. ASSUME NEW x \in listing, LookUp(x) PROVE WrittenInv' /\ ProvidedInv'
  <2>1. CASE Abort
    BY <2>1, ToldEnd DEF Abort
  <2>2. CASE ~ Abort
    BY <1>4, <2>2, ToldUnchanged DEF LookUp
  <2> QED BY <2>1, <2>2
<1>5. CASE BeginInspect \/ EndInspect \/ BeginCollect
  BY <1>5, ToldUnchanged DEF BeginInspect, EndInspect, BeginCollect, AfterDedup, AfterInspect
<1>6. ASSUME NEW e \in uncollected, FetchDocument(e) PROVE WrittenInv' /\ ProvidedInv'
  <2>1. CASE Abort
    BY <2>1, ToldEnd DEF Abort
  <2>2. CASE ~ Abort
    <3> DEFINE r == e.target
               x == info[r].unclassified \cup {e.image}
               y == info[r].external \cup
                      {[kind |-> Kind[e.image.tag], ref |-> e.image, from |-> d] : d \in Flat(Fetched(e.image))}
    <3>1. /\ UNCHANGED <<unresolved, resolved, pc>> /\ pc = "collect"
          /\ \/ info' = [info EXCEPT ![r].unclassified = x]
             \/ info' = [info EXCEPT ![r].external = y]
      BY <1>6, <2>2 DEF FetchDocument, resolveVars
    <3> HIDE DEF x, y
    <3>2. r \in DOMAIN info /\ info[r] \in Info
      BY <1>6, <3>1 DEF IInv, TypeOK, CollectInv
    <3>3. DOMAIN info' = DOMAIN info /\ \A q \in DOMAIN info : info'[q].provided = info[q].provided
      BY <3>1, <3>2 DEF Info
    <3> QED BY <3>1, <3>3, ToldKept
  <2> QED BY <2>1, <2>2
<1>7. CASE PrintInfo \/ Fail
  BY <1>7, ToldEnd DEF PrintInfo, Fail, Abort, AfterDedup, AfterInspect
<1>8. ASSUME NEW n \in Names, NEW t \in Tags,
             Retag(n, t) /\ UNCHANGED <<pc, resolveVars, info, left, listing, manifests, related, uncollected>>
      PROVE  WrittenInv' /\ ProvidedInv'
  BY <1>8, ToldUnchanged
<1>9. CASE UNCHANGED vars
  BY <1>9, ToldUnchanged DEF vars
<1> QED BY <1>1, <1>2, <1>3, <1>4, <1>5, <1>6, <1>7, <1>8, <1>9 DEF Next

\* An image is said to come with a digest when it does, and otherwise only if
\* another name or tag has the same digest, for any manifests (CollectInfo).
THEOREM DigestsAreTold == Spec => []DigestsTold
<1> DEFINE Told == WrittenInv /\ ProvidedInv
<1>1. Init => Told
  BY DEF Init, WrittenInv, ProvidedInv, AfterDedup, AfterInspect
<1>2. IInv /\ Told /\ [Next]_vars => Told'
  BY ToldStep
<1>3. IInv /\ Told => DigestsTold
  <2> SUFFICES ASSUME IInv, Told, NEW r \in DOMAIN info, pc = "done"
               PROVE  LET own == {l \in info[r].locs : Scanned[l].digest # NoDigest} IN
                      /\ own # {} => info[r].provided
                      /\ info[r].provided /\ own = {} =>
                             \E l \in Locs : /\ Scanned[l].digest = r.digest
                                             /\ Scanned[l].name # r.name \/ Scanned[l].tag # r.tag
    BY DEF DigestsTold, Printed
  <2>1. /\ unresolved = {}
        /\ info[r].provided <=> r.digest \in WithDigests
        /\ items = {ItemAt(m) : m \in Locs}
        /\ \E i \in items : i.ref = r /\ info[r].locs = i.locs
    BY DEF IInv, ItemsInv, ProvidedInv, AfterDedup, AfterInspect
  <2>2. PICK m \in Locs : ItemAt(m).ref = r /\ info[r].locs = ItemAt(m).locs
    BY <2>1
  <2>3. /\ r = [Scanned[m] EXCEPT !.digest = resolved[m]]
        /\ \A l \in info[r].locs : l \in Locs /\ resolved[l] = resolved[m]
    BY <2>2 DEF ItemAt
  <2>4. \A l \in Locs :
          /\ Scanned[l].digest \in {NoDigest, resolved[l]}
          /\ Scanned[l] \in [name : Names, tag : Tags \cup {NoTag}, digest : Digests \cup {NoDigest}]
    BY <2>1, InspectionAssumption DEF WrittenInv
  <2>5. r.digest = resolved[m]
    BY <2>3, <2>4
  <2>6. ASSUME NEW l \in info[r].locs, Scanned[l].digest # NoDigest PROVE info[r].provided
    BY <2>1, <2>3, <2>4, <2>5, <2>6 DEF WithDigests
  <2>7. ASSUME info[r].provided, \A l \in info[r].locs : Scanned[l].digest = NoDigest
        PROVE  \E l \in Locs : /\ Scanned[l].digest = r.digest
                               /\ Scanned[l].name # r.name \/ Scanned[l].tag # r.tag
    <3>1. PICK l \in Locs : Scanned[l].digest = r.digest /\ Scanned[l].digest # NoDigest
      BY <2>1, <2>7 DEF WithDigests
    <3>2. resolved[l] = r.digest
      BY <2>4, <3>1
    <3>3. l \in info[[Scanned[l] EXCEPT !.digest = resolved[l]]].locs
      BY ReportedOnce DEF LocationsReported
    <3>4. [Scanned[l] EXCEPT !.digest = resolved[l]] # r
      BY <2>7, <3>1, <3>3
    <3>5. [Scanned[l] EXCEPT !.digest = resolved[l]] = Scanned[l]
      BY <2>4, <3>1, <3>2
    <3>6. r \in Resolved
      BY DEF IInv, TypeOK
    <3>7. Scanned[l].name # r.name \/ Scanned[l].tag # r.tag
      BY <2>4, <3>1, <3>4, <3>5, <3>6 DEF Resolved
    <3> QED BY <3>1, <3>7
  <2> QED BY <2>6, <2>7
<1> QED BY <1>1, <1>2, <1>3, Inductive, PTL DEF Spec
=============================================================================
