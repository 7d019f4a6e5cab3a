--------------------------- MODULE ArtefactsProof ---------------------------
(***************************************************************************)
(* Proofs about Artefacts, for any packages, pushes, pulls and views.      *)
(***************************************************************************)
EXTENDS Artefacts, TLAPS

\* The phases in which a reader has opened all parts, and those in which it has
\* an index.
Opened == {"extract", "create", "write", "done"}
Chosen == Opened \cup {"fetch"}

\* Everything in the repository has what it names.
StoreInv ==
    /\ manifests \subseteq layers
    /\ \A x \in indexes : PartsOf(x) \subseteq manifests
    /\ \A t \in Tags : tags[t] # NoPackage => tags[t] \in indexes /\ t \in {FullTag(tags[t]), Alias(tags[t])}

\* No part of a package that is being pushed is forgotten, and the alias is
\* written after the full tag.
PushInv(w) ==
    /\ push[w].tag \in {FullTag(Package[w]), Alias(Package[w])}
    /\ push[w].uploaded \subseteq layers
    /\ push[w].pc = "children" =>
           PartsOf(Package[w]) \subseteq push[w].todo \cup push[w].missing \cup push[w].uploaded \cup manifests
    /\ push[w].pc \in {"head", "children"} /\ push[w].tag = Alias(Package[w]) =>
           tags[FullTag(Package[w])] # NoPackage
    /\ push[w].pc = "done" =>
           tags[FullTag(Package[w])] # NoPackage /\ tags[Alias(Package[w])] # NoPackage

\* A reader has parts of one package, that is in the repository, and no others.
ReadInv(q) ==
    /\ read[q].index \in indexes \cup {NoPackage}
    /\ read[q].pc \in {"head", "get"} => read[q].opened = {}
    /\ read[q].pc = "get" => tags[read[q].tag] # NoPackage
    /\ read[q].pc \in Chosen => read[q].index \in indexes /\ read[q].opened \subseteq PartsOf(read[q].index)
    /\ read[q].pc \in Opened => read[q].opened = PartsOf(read[q].index)

\* A pull has written the files it has got to, and the attestations last.
PullInv(q) ==
    /\ read[q].pc \in Opened \ {"done"} => q \in Pulls
    /\ read[q].pc \in {"create", "write"} => q \in Wanted /\ read[q].index[2] # NoAttest
    /\ q \in Pulls /\ read[q].pc \in Opened =>
           \A f \in Paths \ read[q].unwritten : FileIn[read[q].index[1]][f] \in {dir[q][f], Absent}
    /\ q \in Pulls /\ read[q].pc \in Opened \ {"extract"} => read[q].unwritten = {}
    /\ q \in Wanted /\ read[q].pc = "done" /\ read[q].index[2] # NoAttest => file[q] = read[q].index[2]

\* The inductive invariant.
IInv ==
    /\ TypeOK /\ StoreInv
    /\ \A w \in Pushes : PushInv(w)
    /\ \A q \in Readers : ReadInv(q) /\ PullInv(q)

-----------------------------------------------------------------------------
\* The parts of a package say which package it is.
LEMMA PackageParts ==
    ASSUME NEW x \in Packages
    PROVE  /\ x = <<x[1], x[2]>> /\ x[1] \in Contents /\ x[2] \in Attests \cup {NoAttest}
           /\ PartsOf(x) \subseteq Parts
           /\ ContentOf(PartsOf(x)) = x[1] /\ AttestOf(PartsOf(x)) = x[2]
<1>1. x = <<x[1], x[2]>> /\ x[1] \in Contents /\ x[2] \in Attests \cup {NoAttest}
  BY DEF Packages
<1>2. PartsOf(x) \subseteq Parts
  BY <1>1 DEF PartsOf, Parts
<1>3. \A c \in Contents : <<"content", c>> \in PartsOf(x) <=> c = x[1]
  BY DEF PartsOf
<1>4. \A a \in Attests : <<"attest", a>> \in PartsOf(x) <=> a = x[2]
  BY ArtefactsAssumption DEF PartsOf
<1>5. ContentOf(PartsOf(x)) = x[1]
  BY <1>1, <1>3 DEF ContentOf
<1>6. AttestOf(PartsOf(x)) = x[2]
  BY <1>1, <1>4 DEF AttestOf
<1> QED BY <1>1, <1>2, <1>5, <1>6

\* The two tags of a package are tags, and different.
LEMMA PackageTags ==
    ASSUME NEW x \in Packages
    PROVE  FullTag(x) \in Tags /\ Alias(x) \in Tags /\ FullTag(x) # Alias(x)
<1>1. x[1] \in Contents /\ Prefix[x[1]] \in Prefixes
  BY PackageParts, ArtefactsAssumption
<1> QED BY <1>1 DEF FullTag, Alias, Tags

\* In the beginning there is nothing.
LEMMA InitIInv == Init => IInv
<1> SUFFICES ASSUME Init PROVE IInv
  OBVIOUS
<1>1. /\ layers = {} /\ manifests = {} /\ indexes = {} /\ repeats = 0
      /\ tags = [t \in Tags |-> NoPackage]
      /\ dir = [q \in Pulls |-> [f \in Paths |-> Absent]] /\ file = [q \in Pulls |-> NoFile]
  BY DEF Init
<1>2. PICK wanted \in [Readers -> Asked] : read = [q \in Readers |-> Asking(wanted[q])]
  BY DEF Init
<1>3. ASSUME NEW w \in Pushes
      PROVE  /\ push[w].pc = "head" /\ push[w].tag = FullTag(Package[w])
             /\ push[w].uploaded = {} /\ (FullTag(Package[w]) \in Tags => push[w] \in Push)
  <2>1. push[w] = [pc |-> "head", tag |-> FullTag(Package[w]), todo |-> {}, missing |-> {}, uploaded |-> {}]
    BY DEF Init
  <2> HIDE DEF Init
  <2> QED BY <2>1 DEF Push
<1>4. ASSUME NEW w \in Pushes PROVE push[w] \in Push /\ PushInv(w)
  <2>1. Package[w] \in Packages
    BY ArtefactsAssumption
  <2>2. FullTag(Package[w]) \in Tags /\ FullTag(Package[w]) # Alias(Package[w])
    BY <2>1, PackageTags
  <2>3. push[w] \in Push
    BY <1>3, <2>2
  <2>4. PushInv(w)
    BY <1>3, <2>2 DEF PushInv
  <2> QED BY <2>3, <2>4
<1>5. ASSUME NEW q \in Readers PROVE read[q] \in Read /\ ReadInv(q) /\ PullInv(q)
  <2>1. wanted[q] \in Tags /\ read[q] = Asking(wanted[q])
    BY <1>2, ArtefactsAssumption
  <2> QED BY <2>1 DEF Asking, Read, ReadInv, PullInv, Opened, Chosen
<1>6. push \in [Pushes -> Push] /\ read \in [Readers -> Read]
  BY <1>2, <1>4, <1>5 DEF Init
<1>7. dir \in [Pulls -> Files] /\ file \in [Pulls -> AttestFiles]
  BY <1>1 DEF Files, AttestFiles
<1>8. TypeOK /\ StoreInv
  BY <1>1, <1>6, <1>7, ArtefactsAssumption DEF TypeOK, StoreInv
<1> QED BY <1>4, <1>5, <1>8 DEF IInv

-----------------------------------------------------------------------------
(* What a step leaves alone.                                               *)

\* The repository only grows, and a tag that is there stays, pointing at
\* something.
Grows ==
    /\ layers \subseteq layers' /\ manifests \subseteq manifests' /\ indexes \subseteq indexes'
    /\ \A t \in Tags : tags[t] # NoPackage => tags'[t] # NoPackage

\* A push in which nothing happens is not disturbed by others.
LEMMA PushKept ==
    ASSUME TypeOK, Grows, NEW w \in Pushes, PushInv(w), push'[w] = push[w]
    PROVE  PushInv(w)'
<1>1. FullTag(Package[w]) \in Tags /\ Alias(Package[w]) \in Tags
  BY PackageTags, ArtefactsAssumption
<1> QED BY <1>1 DEF PushInv, Grows

\* Nor is a reader.
LEMMA ReadKept ==
    ASSUME TypeOK, Grows, NEW q \in Readers, ReadInv(q), PullInv(q), read'[q] = read[q],
           q \in Pulls => dir'[q] = dir[q] /\ file'[q] = file[q]
    PROVE  ReadInv(q)' /\ PullInv(q)'
<1>1. read[q].tag \in Tags
  BY DEF TypeOK, Read
<1>2. ReadInv(q)'
  BY <1>1 DEF ReadInv, Grows
<1>3. PullInv(q)'
  BY ArtefactsAssumption DEF PullInv
<1> QED BY <1>2, <1>3

\* A step of one push that leaves readers alone.
LEMMA PushStep ==
    ASSUME IInv, Grows, StoreInv', NEW w \in Pushes, NEW r \in Push, Proceed(w, r), PushInv(w)',
           layers' \subseteq Parts, manifests' \subseteq Parts, indexes' \subseteq Packages,
           tags' \in [Tags -> Packages \cup {NoPackage}], UNCHANGED <<read, diskVars, repeats>>
    PROVE  IInv'
<1>1. push \in [Pushes -> Push] /\ TypeOK
  BY DEF IInv, TypeOK
<1>2. push' \in [Pushes -> Push] /\ \A v \in Pushes \ {w} : push'[v] = push[v]
  BY <1>1 DEF Proceed
<1>3. TypeOK'
  BY <1>1, <1>2 DEF TypeOK, diskVars
<1>4. ASSUME NEW v \in Pushes PROVE PushInv(v)'
  <2>1. CASE v = w
    BY <2>1
  <2>2. CASE v # w
    BY <1>1, <1>2, <2>2, PushKept DEF IInv
  <2> QED BY <2>1, <2>2
<1>5. ASSUME NEW q \in Readers PROVE ReadInv(q)' /\ PullInv(q)'
  BY <1>1, ReadKept DEF IInv, diskVars
<1> QED BY <1>3, <1>4, <1>5 DEF IInv

\* A step of one reader, which leaves the repository alone.
LEMMA ReadStep ==
    ASSUME IInv, UNCHANGED <<registryVars, push>>, NEW q \in Readers, NEW r \in Read, Continue(q, r),
           ReadInv(q)', PullInv(q)', dir' \in [Pulls -> Files], file' \in [Pulls -> AttestFiles],
           repeats' \in 0..MaxRepeats,
           \A o \in Pulls \ {q} : dir'[o] = dir[o] /\ file'[o] = file[o]
    PROVE  IInv'
<1>1. read \in [Readers -> Read] /\ TypeOK /\ Grows
  BY DEF IInv, TypeOK, Grows, registryVars
<1>2. read' \in [Readers -> Read] /\ \A o \in Readers \ {q} : read'[o] = read[o]
  BY <1>1 DEF Continue
<1>3. TypeOK' /\ StoreInv'
  BY <1>1, <1>2 DEF IInv, TypeOK, StoreInv, registryVars
<1>4. ASSUME NEW w \in Pushes PROVE PushInv(w)'
  BY <1>1, PushKept DEF IInv
<1>5. ASSUME NEW o \in Readers PROVE ReadInv(o)' /\ PullInv(o)'
  <2>1. CASE o = q
    BY <2>1
  <2>2. CASE o # q
    BY <1>1, <1>2, <2>2, ReadKept DEF IInv
  <2> QED BY <2>1, <2>2
<1> QED BY <1>3, <1>4, <1>5 DEF IInv

-----------------------------------------------------------------------------
(* The steps of a push.                                                    *)

\* What a push has, by type.
LEMMA PushFields ==
    ASSUME TypeOK, NEW w \in Pushes
    PROVE  /\ push[w] \in Push /\ push[w].tag \in Tags /\ push[w].pc \in {"head", "children", "done", "failed"}
           /\ push[w].todo \subseteq Parts /\ push[w].missing \subseteq Parts /\ push[w].uploaded \subseteq Parts
           /\ Package[w] \in Packages /\ Package[w] # NoPackage
           /\ FullTag(Package[w]) \in Tags /\ Alias(Package[w]) \in Tags /\ FullTag(Package[w]) # Alias(Package[w])
<1>1. push[w] \in Push /\ Package[w] \in Packages /\ Package[w] # NoPackage
  BY ArtefactsAssumption DEF TypeOK
<1> QED BY <1>1, PackageTags DEF Push

\* A push whose tag has been written goes on to the alias, or has succeeded.
LEMMA NextTagKept ==
    ASSUME TypeOK, Grows, NEW w \in Pushes, PushInv(w), push[w].pc \in {"head", "children"},
           tags'[push[w].tag] = Package[w], Proceed(w, NextTag(w))
    PROVE  NextTag(w) \in Push /\ PushInv(w)'
<1>1. push'[w] = NextTag(w)
  BY DEF Proceed, TypeOK
<1>2. CASE push[w].tag = FullTag(Package[w])
  <2>1. NextTag(w) = [push[w] EXCEPT !.pc = "head", !.tag = Alias(Package[w])]
    BY <1>2 DEF NextTag
  <2>2. /\ NextTag(w) \in Push /\ NextTag(w).pc = "head" /\ NextTag(w).tag = Alias(Package[w])
        /\ NextTag(w).uploaded = push[w].uploaded
    BY <2>1, PushFields DEF Push
  <2> QED BY <1>1, <1>2, <2>2, PushFields DEF PushInv, Grows
<1>3. CASE push[w].tag = Alias(Package[w])
  <2>1. NextTag(w) = [push[w] EXCEPT !.pc = "done"]
    BY <1>3, PushFields DEF NextTag
  <2>2. /\ NextTag(w) \in Push /\ NextTag(w).pc = "done" /\ NextTag(w).tag = Alias(Package[w])
        /\ NextTag(w).uploaded = push[w].uploaded
    BY <1>3, <2>1, PushFields DEF Push
  <2>3. tags'[FullTag(Package[w])] # NoPackage
    BY <1>3, PushFields DEF PushInv, Grows
  <2> QED BY <1>1, <1>3, <2>2, <2>3, PushFields DEF PushInv, Grows
<1> QED BY <1>2, <1>3 DEF PushInv

\* A tag that points at the index is left as it is.
LEMMA HeadTagStep == ASSUME IInv, NEW w \in Pushes, HeadTag(w) PROVE IInv'
<1>1. /\ push[w].pc = "head" /\ UNCHANGED <<registryVars, read, diskVars, repeats>>
      /\ Proceed(w, IF tags[push[w].tag] = Package[w] THEN NextTag(w)
                    ELSE [push[w] EXCEPT !.pc = "children", !.todo = PartsOf(Package[w])])
  BY DEF HeadTag
<1>2. TypeOK /\ PushInv(w) /\ StoreInv /\ Grows /\ StoreInv'
  BY <1>1 DEF IInv, Grows, StoreInv, registryVars
<1>3. /\ layers' \subseteq Parts /\ manifests' \subseteq Parts /\ indexes' \subseteq Packages
      /\ tags' = tags /\ tags' \in [Tags -> Packages \cup {NoPackage}]
  BY <1>1, <1>2 DEF TypeOK, registryVars
<1>4. CASE tags[push[w].tag] = Package[w]
  <2>1. Proceed(w, NextTag(w))
    BY <1>1, <1>4
  <2>2. NextTag(w) \in Push /\ PushInv(w)'
    BY <1>1, <1>2, <1>3, <1>4, <2>1, NextTagKept
  <2> QED BY <1>1, <1>2, <1>3, <2>1, <2>2, PushStep
<1>5. CASE tags[push[w].tag] # Package[w]
  <2> DEFINE r == [push[w] EXCEPT !.pc = "children", !.todo = PartsOf(Package[w])]
  <2>1. Proceed(w, r)
    BY <1>1, <1>5
  <2>2. /\ r \in Push /\ r.pc = "children" /\ r.tag = push[w].tag /\ r.todo = PartsOf(Package[w])
        /\ r.uploaded = push[w].uploaded
    BY <1>2, PushFields, PackageParts DEF Push
  <2>3. push'[w] = r
    BY <1>2, <2>1 DEF Proceed, TypeOK
  <2> HIDE DEF r
  <2>4. PushInv(w)'
    BY <1>1, <1>2, <2>2, <2>3, PushFields DEF PushInv, Grows
  <2> QED BY <1>1, <1>2, <1>3, <2>1, <2>2, <2>4, PushStep
<1> QED BY <1>4, <1>5

\* A part whose manifest is there needs nothing; others are to be pushed.
LEMMA HeadManifestStep == ASSUME IInv, NEW w \in Pushes, NEW m \in Parts, HeadManifest(w, m) PROVE IInv'
<1> DEFINE r == [push[w] EXCEPT !.todo = @ \ {m}, !.missing = IF m \in manifests THEN @ ELSE @ \cup {m}]
<1>1. push[w].pc = "children" /\ Proceed(w, r) /\ UNCHANGED <<registryVars, read, diskVars, repeats>>
  BY DEF HeadManifest
<1>2. TypeOK /\ PushInv(w) /\ StoreInv /\ Grows /\ StoreInv'
  BY <1>1 DEF IInv, Grows, StoreInv, registryVars
<1>3. /\ layers' \subseteq Parts /\ manifests' \subseteq Parts /\ indexes' \subseteq Packages
      /\ tags' \in [Tags -> Packages \cup {NoPackage}]
  BY <1>1, <1>2 DEF TypeOK, registryVars
<1>4. /\ r \in Push /\ r.pc = "children" /\ r.tag = push[w].tag /\ r.uploaded = push[w].uploaded
      /\ r.todo = push[w].todo \ {m}
      /\ r.missing = IF m \in manifests THEN push[w].missing ELSE push[w].missing \cup {m}
  BY <1>1, <1>2, PushFields DEF Push
<1>5. push'[w] = r
  BY <1>1, <1>2 DEF Proceed, TypeOK
<1> HIDE DEF r
<1>6. PushInv(w)'
  BY <1>1, <1>2, <1>4, <1>5, PushFields DEF PushInv, Grows
<1> QED BY <1>1, <1>2, <1>3, <1>4, <1>6, PushStep

\* Layers come before manifests.
LEMMA PutLayerStep == ASSUME IInv, NEW w \in Pushes, NEW m \in Parts, PutLayer(w, m) PROVE IInv'
<1> DEFINE r == [push[w] EXCEPT !.missing = @ \ {m}, !.uploaded = @ \cup {m}]
<1>1. /\ push[w].pc = "children" /\ Proceed(w, r) /\ layers' = layers \cup {m}
      /\ UNCHANGED <<manifests, indexes, tags>> /\ UNCHANGED <<read, diskVars, repeats>>
  BY DEF PutLayer
<1>2. TypeOK /\ PushInv(w) /\ StoreInv /\ Grows /\ StoreInv'
  BY <1>1 DEF IInv, Grows, StoreInv
<1>3. /\ layers' \subseteq Parts /\ manifests' \subseteq Parts /\ indexes' \subseteq Packages
      /\ tags' \in [Tags -> Packages \cup {NoPackage}]
  BY <1>1, <1>2 DEF TypeOK
<1>4. /\ r \in Push /\ r.pc = "children" /\ r.tag = push[w].tag /\ r.todo = push[w].todo
      /\ r.missing = push[w].missing \ {m} /\ r.uploaded = push[w].uploaded \cup {m}
  BY <1>1, <1>2, PushFields DEF Push
<1>5. push'[w] = r
  BY <1>1, <1>2 DEF Proceed, TypeOK
<1> HIDE DEF r
<1>6. PushInv(w)'
  BY <1>1, <1>2, <1>4, <1>5, PushFields DEF PushInv, Grows
<1> QED BY <1>1, <1>2, <1>3, <1>4, <1>6, PushStep

\* The manifest of a part is put when its layer has been.
LEMMA PutManifestStep == ASSUME IInv, NEW w \in Pushes, NEW m \in Parts, PutManifest(w, m) PROVE IInv'
<1> DEFINE r == [push[w] EXCEPT !.uploaded = @ \ {m}]
<1>1. /\ push[w].pc = "children" /\ m \in push[w].uploaded /\ Proceed(w, r) /\ manifests' = manifests \cup {m}
      /\ UNCHANGED <<layers, indexes, tags>> /\ UNCHANGED <<read, diskVars, repeats>>
  BY DEF PutManifest
<1>2. TypeOK /\ PushInv(w) /\ StoreInv /\ Grows
  BY <1>1 DEF IInv, Grows
<1>3. StoreInv'
  BY <1>1, <1>2 DEF StoreInv, PushInv
<1>4. /\ layers' \subseteq Parts /\ manifests' \subseteq Parts /\ indexes' \subseteq Packages
      /\ tags' \in [Tags -> Packages \cup {NoPackage}]
  BY <1>1, <1>2 DEF TypeOK
<1>5. /\ r \in Push /\ r.pc = "children" /\ r.tag = push[w].tag /\ r.todo = push[w].todo
      /\ r.missing = push[w].missing /\ r.uploaded = push[w].uploaded \ {m}
  BY <1>1, <1>2, PushFields DEF Push
<1>6. push'[w] = r
  BY <1>1, <1>2 DEF Proceed, TypeOK
<1> HIDE DEF r
<1>7. PushInv(w)'
  BY <1>1, <1>2, <1>5, <1>6, PushFields DEF PushInv, Grows
<1> QED BY <1>1, <1>2, <1>3, <1>4, <1>5, <1>7, PushStep

\* The index is put when all of its manifests are there.
LEMMA PutIndexStep == ASSUME IInv, NEW w \in Pushes, PutIndex(w) PROVE IInv'
<1>1. /\ push[w].pc = "children" /\ PartsPushed(w) /\ Proceed(w, NextTag(w))
      /\ indexes' = indexes \cup {Package[w]} /\ tags' = [tags EXCEPT ![push[w].tag] = Package[w]]
      /\ UNCHANGED <<layers, manifests>> /\ UNCHANGED <<read, diskVars, repeats>>
  BY DEF PutIndex
<1>2. TypeOK /\ PushInv(w) /\ StoreInv
  BY DEF IInv
<1>3. tags \in [Tags -> Packages \cup {NoPackage}]
  BY <1>2 DEF TypeOK
<1>4. /\ tags'[push[w].tag] = Package[w] /\ tags' \in [Tags -> Packages \cup {NoPackage}]
      /\ \A t \in Tags \ {push[w].tag} : tags'[t] = tags[t]
  BY <1>1, <1>2, <1>3, PushFields
<1>5. Grows
  BY <1>1, <1>2, <1>4, PushFields DEF Grows
<1>6. PartsOf(Package[w]) \subseteq manifests
  BY <1>1, <1>2 DEF PushInv, PartsPushed
<1>7. StoreInv'
  <2>1. ASSUME NEW t \in Tags, tags'[t] # NoPackage
        PROVE  tags'[t] \in indexes' /\ t \in {FullTag(tags'[t]), Alias(tags'[t])}
    <3>1. CASE t = push[w].tag
      BY <1>1, <1>2, <1>4, <3>1 DEF PushInv
    <3>2. CASE t # push[w].tag
      BY <1>1, <1>2, <1>4, <2>1, <3>2 DEF StoreInv
    <3> QED BY <3>1, <3>2
  <2>2. manifests' \subseteq layers' /\ \A x \in indexes' : PartsOf(x) \subseteq manifests'
    BY <1>1, <1>2, <1>6 DEF StoreInv
  <2> QED BY <2>1, <2>2 DEF StoreInv
<1>8. layers' \subseteq Parts /\ manifests' \subseteq Parts /\ indexes' \subseteq Packages
  BY <1>1, <1>2, PushFields DEF TypeOK
<1>9. NextTag(w) \in Push /\ PushInv(w)'
  BY <1>1, <1>2, <1>4, <1>5, NextTagKept
<1> QED BY <1>1, <1>4, <1>5, <1>7, <1>8, <1>9, PushStep

\* A push that fails leaves what it has pushed.
LEMMA FailPushStep == ASSUME IInv, NEW w \in Pushes, FailPush(w) PROVE IInv'
<1> DEFINE r == [push[w] EXCEPT !.pc = "failed"]
<1>1. Proceed(w, r) /\ UNCHANGED <<registryVars, read, diskVars, repeats>>
  BY DEF FailPush
<1>2. TypeOK /\ PushInv(w) /\ StoreInv /\ Grows /\ StoreInv'
  BY <1>1 DEF IInv, Grows, StoreInv, registryVars
<1>3. /\ layers' \subseteq Parts /\ manifests' \subseteq Parts /\ indexes' \subseteq Packages
      /\ tags' \in [Tags -> Packages \cup {NoPackage}]
  BY <1>1, <1>2 DEF TypeOK, registryVars
<1>4. r \in Push /\ r.pc = "failed" /\ r.tag = push[w].tag /\ r.uploaded = push[w].uploaded
  BY <1>2, PushFields DEF Push
<1>5. push'[w] = r
  BY <1>1, <1>2 DEF Proceed, TypeOK
<1> HIDE DEF r
<1>6. PushInv(w)'
  BY <1>2, <1>4, <1>5 DEF PushInv, Grows
<1> QED BY <1>1, <1>2, <1>3, <1>4, <1>6, PushStep

-----------------------------------------------------------------------------
(* The steps of a reader.                                                  *)

\* What a reader has, by type.
LEMMA ReadFields ==
    ASSUME TypeOK, NEW q \in Readers
    PROVE  /\ read[q] \in Read /\ read[q].tag \in Tags /\ read[q].index \in Packages \cup {NoPackage}
           /\ read[q].opened \subseteq Parts /\ read[q].unwritten \subseteq Paths
BY DEF TypeOK, Read

\* A reader that has opened all parts of a package can tell which it is.
LEMMA OpenedIsIndex ==
    ASSUME TypeOK, NEW q \in Readers, read[q].index \in indexes, read[q].opened = PartsOf(read[q].index)
    PROVE  /\ read[q].index \in Packages /\ ContentOpened(q) = read[q].index[1]
           /\ AttestOpened(q) = read[q].index[2] /\ read[q].index[1] \in Contents
           /\ read[q].index[2] \in Attests \cup {NoAttest} /\ FileIn[read[q].index[1]] \in Files
<1>1. read[q].index \in Packages
  BY DEF TypeOK
<1> QED BY <1>1, PackageParts, ArtefactsAssumption DEF ContentOpened, AttestOpened

\* Steps of a reader that leave files alone.
LEMMA QuietStep ==
    ASSUME IInv, NEW q \in Readers, NEW r \in Read, Continue(q, r),
           UNCHANGED <<registryVars, push, diskVars, repeats>>, ReadInv(q)', PullInv(q)'
    PROVE  IInv'
<1>1. /\ dir' \in [Pulls -> Files] /\ file' \in [Pulls -> AttestFiles] /\ repeats' \in 0..MaxRepeats
      /\ dir' = dir /\ file' = file /\ UNCHANGED <<registryVars, push>>
  BY DEF IInv, TypeOK, diskVars
<1> QED BY <1>1, ReadStep

\* Only a tag that is there is asked for again.
LEMMA HeadRefStep == ASSUME IInv, NEW q \in Readers, HeadRef(q) PROVE IInv'
<1> DEFINE r == [read[q] EXCEPT !.pc = IF tags[read[q].tag] = NoPackage THEN "failed" ELSE "get"]
<1>1. Continue(q, r) /\ read[q].pc = "head" /\ UNCHANGED <<registryVars, push, diskVars, repeats>>
  BY DEF HeadRef
<1>2. TypeOK /\ ReadInv(q)
  BY DEF IInv
<1>3. /\ r \in Read /\ r.pc = IF tags[read[q].tag] = NoPackage THEN "failed" ELSE "get"
      /\ r.tag = read[q].tag /\ r.index = read[q].index /\ r.opened = read[q].opened
  BY <1>2, ReadFields DEF Read
<1>4. read[q].pc = "head" /\ read'[q] = r /\ tags' = tags /\ indexes' = indexes
  BY <1>1, <1>2 DEF Continue, TypeOK, registryVars
<1> HIDE DEF r
<1>5. ReadInv(q)' /\ PullInv(q)'
  BY <1>2, <1>3, <1>4 DEF ReadInv, PullInv, Opened, Chosen
<1> QED BY <1>1, <1>3, <1>5, QuietStep

\* A tag points at an index that is there.
LEMMA GetIndexStep == ASSUME IInv, NEW q \in Readers, GetIndex(q) PROVE IInv'
<1> DEFINE r == [read[q] EXCEPT !.pc = "fetch", !.index = tags[read[q].tag]]
<1>1. Continue(q, r) /\ read[q].pc = "get" /\ UNCHANGED <<registryVars, push, diskVars, repeats>>
  BY DEF GetIndex
<1>2. TypeOK /\ ReadInv(q) /\ StoreInv
  BY DEF IInv
<1>3. tags[read[q].tag] \in indexes /\ tags[read[q].tag] \in Packages \cup {NoPackage}
  BY <1>1, <1>2, ReadFields DEF ReadInv, StoreInv, TypeOK
<1>4. /\ r \in Read /\ r.pc = "fetch" /\ r.tag = read[q].tag /\ r.index = tags[read[q].tag]
      /\ r.opened = {}
  BY <1>1, <1>2, <1>3, ReadFields DEF Read, ReadInv
<1>5. read'[q] = r /\ tags' = tags /\ indexes' = indexes
  BY <1>1, <1>2 DEF Continue, TypeOK, registryVars
<1> HIDE DEF r
<1>6. ReadInv(q)' /\ PullInv(q)'
  BY <1>3, <1>4, <1>5 DEF ReadInv, PullInv, Opened, Chosen
<1> QED BY <1>1, <1>4, <1>6, QuietStep

\* Parts are of the index.
LEMMA FetchPartStep == ASSUME IInv, NEW q \in Readers, NEW m \in Parts, FetchPart(q, m) PROVE IInv'
<1>1. /\ read[q].pc = "fetch" /\ m \in PartsOf(read[q].index)
      /\ Continue(q, IF m \in manifests /\ m \in layers THEN [read[q] EXCEPT !.opened = @ \cup {m}]
                     ELSE [read[q] EXCEPT !.pc = "failed"])
      /\ UNCHANGED <<registryVars, push, diskVars, repeats>>
  BY DEF FetchPart
<1>2. TypeOK /\ ReadInv(q) /\ tags' = tags /\ indexes' = indexes
  BY <1>1 DEF IInv, registryVars
<1>3. CASE m \in manifests /\ m \in layers
  <2> DEFINE r == [read[q] EXCEPT !.opened = @ \cup {m}]
  <2>1. Continue(q, r)
    BY <1>1, <1>3
  <2>2. /\ r \in Read /\ r.pc = "fetch" /\ r.tag = read[q].tag /\ r.index = read[q].index
        /\ r.opened = read[q].opened \cup {m}
    BY <1>1, <1>2, ReadFields DEF Read
  <2>3. read'[q] = r
    BY <1>2, <2>1 DEF Continue, TypeOK
  <2> HIDE DEF r
  <2>4. ReadInv(q)' /\ PullInv(q)'
    BY <1>1, <1>2, <2>2, <2>3 DEF ReadInv, PullInv, Opened, Chosen
  <2> QED BY <1>1, <2>1, <2>2, <2>4, QuietStep
<1>4. CASE ~(m \in manifests /\ m \in layers)
  <2> DEFINE r == [read[q] EXCEPT !.pc = "failed"]
  <2>1. Continue(q, r)
    BY <1>1, <1>4
  <2>2. r \in Read /\ r.pc = "failed" /\ r.tag = read[q].tag /\ r.index = read[q].index
    BY <1>2, ReadFields DEF Read
  <2>3. read'[q] = r
    BY <1>2, <2>1 DEF Continue, TypeOK
  <2> HIDE DEF r
  <2>4. ReadInv(q)' /\ PullInv(q)'
    BY <1>2, <2>2, <2>3 DEF ReadInv, PullInv, Opened, Chosen
  <2> QED BY <1>1, <2>1, <2>2, <2>4, QuietStep
<1> QED BY <1>3, <1>4

\* When all parts are open, the files that are not to be written are absent.
LEMMA BeginExtractStep == ASSUME IInv, NEW q \in Readers, BeginExtract(q) PROVE IInv'
<1> DEFINE r == [read[q] EXCEPT !.pc = "extract",
                   !.unwritten = {f \in Paths : FileIn[ContentOpened(q)][f] # Absent}]
<1>1. q \in Pulls /\ Fetched(q) /\ Continue(q, r) /\ UNCHANGED <<registryVars, push, diskVars, repeats>>
  BY DEF BeginExtract
<1>2. TypeOK /\ ReadInv(q) /\ tags' = tags /\ indexes' = indexes /\ dir' = dir /\ file' = file
  BY <1>1 DEF IInv, registryVars, diskVars
<1>3. /\ r \in Read /\ r.pc = "extract" /\ r.index = read[q].index /\ r.opened = read[q].opened
      /\ r.unwritten = {f \in Paths : FileIn[ContentOpened(q)][f] # Absent}
  BY <1>2, ReadFields DEF Read
<1>4. read'[q] = r
  BY <1>1, <1>2 DEF Continue, TypeOK
<1> HIDE DEF r
<1>5. read[q].index \in indexes /\ read[q].opened = PartsOf(read[q].index)
  BY <1>1, <1>2 DEF Fetched, ReadInv, Chosen
<1>6. ContentOpened(q) = read[q].index[1]
  BY <1>2, <1>5, OpenedIsIndex
<1>7. ReadInv(q)'
  BY <1>2, <1>3, <1>4, <1>5 DEF ReadInv, Opened, Chosen
<1>8. PullInv(q)'
  BY <1>1, <1>2, <1>3, <1>4, <1>6 DEF PullInv, Opened
<1> QED BY <1>1, <1>3, <1>7, <1>8, QuietStep

\* The file that is written is that of the package.
LEMMA ExtractFileStep == ASSUME IInv, NEW q \in Readers, NEW f \in Paths, ExtractFile(q, f) PROVE IInv'
<1> DEFINE r == [read[q] EXCEPT !.unwritten = @ \ {f}]
<1>1. /\ read[q].pc = "extract" /\ f \in read[q].unwritten /\ Continue(q, r)
      /\ dir' = [dir EXCEPT ![q][f] = FileIn[ContentOpened(q)][f]]
      /\ UNCHANGED <<registryVars, push>> /\ file' = file /\ repeats' = repeats
  BY DEF ExtractFile
<1>2. TypeOK /\ ReadInv(q) /\ PullInv(q) /\ tags' = tags /\ indexes' = indexes
  BY <1>1 DEF IInv, registryVars
<1>3. q \in Pulls /\ dir[q] \in Files /\ dir \in [Pulls -> Files]
  BY <1>1, <1>2 DEF PullInv, Opened, TypeOK
<1>4. /\ r \in Read /\ r.pc = "extract" /\ r.index = read[q].index /\ r.opened = read[q].opened
      /\ r.unwritten = read[q].unwritten \ {f}
  BY <1>1, <1>2, ReadFields DEF Read
<1>5. read'[q] = r
  BY <1>1, <1>2 DEF Continue, TypeOK
<1> HIDE DEF r
<1>6. read[q].index \in indexes /\ read[q].opened = PartsOf(read[q].index)
  BY <1>1, <1>2 DEF ReadInv, Opened, Chosen
<1>7. ContentOpened(q) = read[q].index[1] /\ FileIn[read[q].index[1]] \in Files
  BY <1>2, <1>6, OpenedIsIndex
<1>8. dir' = [dir EXCEPT ![q] = [dir[q] EXCEPT ![f] = FileIn[read[q].index[1]][f]]]
  BY <1>1, <1>7
<1>9. [dir[q] EXCEPT ![f] = FileIn[read[q].index[1]][f]] \in Files
  BY <1>3, <1>7 DEF Files
<1>10. /\ dir' \in [Pulls -> Files] /\ \A o \in Pulls \ {q} : dir'[o] = dir[o]
       /\ dir'[q] = [dir[q] EXCEPT ![f] = FileIn[read[q].index[1]][f]]
  BY <1>3, <1>8, <1>9
<1>11. dir'[q][f] = FileIn[read[q].index[1]][f] /\ \A g \in Paths \ {f} : dir'[q][g] = dir[q][g]
  BY <1>3, <1>10 DEF Files
<1>12. ReadInv(q)'
  BY <1>2, <1>4, <1>5, <1>6 DEF ReadInv, Opened, Chosen
<1>13. PullInv(q)'
  <2>1. \A g \in Paths \ read'[q].unwritten : FileIn[read'[q].index[1]][g] \in {dir'[q][g], Absent}
    BY <1>1, <1>2, <1>3, <1>4, <1>5, <1>11 DEF PullInv, Opened
  <2> QED BY <1>3, <1>4, <1>5, <2>1 DEF PullInv, Opened
<1>14. file' \in [Pulls -> AttestFiles] /\ repeats' \in 0..MaxRepeats
  BY <1>1, <1>2 DEF TypeOK
<1> QED BY <1>1, <1>4, <1>10, <1>12, <1>13, <1>14, ReadStep

\* Attestations are written when there are some and they were asked for.
LEMMA EndExtractStep == ASSUME IInv, NEW q \in Readers, EndExtract(q) PROVE IInv'
<1> DEFINE r == [read[q] EXCEPT
                   !.pc = IF q \in Wanted /\ AttestOpened(q) # NoAttest THEN "create" ELSE "done"]
<1>1. /\ read[q].pc = "extract" /\ read[q].unwritten = {} /\ Continue(q, r)
      /\ UNCHANGED <<registryVars, push, diskVars, repeats>>
  BY DEF EndExtract
<1>2. /\ TypeOK /\ ReadInv(q) /\ PullInv(q) /\ tags' = tags /\ indexes' = indexes
      /\ dir' = dir /\ file' = file
  BY <1>1 DEF IInv, registryVars, diskVars
<1>3. /\ r \in Read /\ r.pc = IF q \in Wanted /\ AttestOpened(q) # NoAttest THEN "create" ELSE "done"
      /\ r.index = read[q].index /\ r.opened = read[q].opened /\ r.unwritten = {}
  BY <1>1, <1>2, ReadFields DEF Read
<1>4. read'[q] = r
  BY <1>1, <1>2 DEF Continue, TypeOK
<1> HIDE DEF r
<1>5. read[q].index \in indexes /\ read[q].opened = PartsOf(read[q].index) /\ q \in Pulls
  BY <1>1, <1>2 DEF ReadInv, PullInv, Opened, Chosen
<1>6. AttestOpened(q) = read[q].index[2]
  BY <1>2, <1>5, OpenedIsIndex
<1>7. ReadInv(q)'
  BY <1>2, <1>3, <1>4, <1>5 DEF ReadInv, Opened, Chosen
<1>8. \A f \in Paths : FileIn[read[q].index[1]][f] \in {dir[q][f], Absent}
  BY <1>1, <1>2, <1>5 DEF PullInv, Opened
<1>9. PullInv(q)'
  BY <1>2, <1>3, <1>4, <1>5, <1>6, <1>8 DEF PullInv, Opened
<1> QED BY <1>1, <1>3, <1>7, <1>9, QuietStep

\* The file that is created is empty.
LEMMA CreateStep == ASSUME IInv, NEW q \in Readers, Create(q) PROVE IInv'
<1>1. read[q].pc = "create" /\ UNCHANGED <<registryVars, push, dir, repeats>>
  BY DEF Create
<1>2. TypeOK /\ ReadInv(q) /\ PullInv(q) /\ tags' = tags /\ indexes' = indexes /\ dir' = dir
  BY <1>1 DEF IInv, registryVars
<1>3. q \in Pulls /\ read[q].unwritten = {} /\ read[q].index \in indexes
  BY <1>1, <1>2 DEF ReadInv, PullInv, Opened, Chosen
<1>4. CASE file[q] # NoFile
  <2> DEFINE r == [read[q] EXCEPT !.pc = "failed"]
  <2>1. Continue(q, r) /\ file' = file
    BY <1>4 DEF Create
  <2>2. r \in Read /\ r.pc = "failed" /\ r.index = read[q].index
    BY <1>2, ReadFields DEF Read
  <2>3. read'[q] = r
    BY <1>2, <2>1 DEF Continue, TypeOK
  <2> HIDE DEF r
  <2>4. ReadInv(q)' /\ PullInv(q)'
    BY <1>2, <2>2, <2>3 DEF ReadInv, PullInv, Opened, Chosen
  <2> QED BY <1>1, <2>1, <2>2, <2>4, QuietStep DEF diskVars
<1>5. CASE file[q] = NoFile
  <2> DEFINE r == [read[q] EXCEPT !.pc = "write"]
  <2>1. Continue(q, r) /\ file' = [file EXCEPT ![q] = Partial]
    BY <1>5 DEF Create
  <2>2. /\ r \in Read /\ r.pc = "write" /\ r.index = read[q].index /\ r.opened = read[q].opened
        /\ r.unwritten = read[q].unwritten
    BY <1>2, ReadFields DEF Read
  <2>3. read'[q] = r
    BY <1>2, <2>1 DEF Continue, TypeOK
  <2> HIDE DEF r
  <2>4. ReadInv(q)' /\ PullInv(q)'
    BY <1>1, <1>2, <1>3, <2>2, <2>3 DEF ReadInv, PullInv, Opened, Chosen
  <2>5. file' \in [Pulls -> AttestFiles] /\ \A o \in Pulls \ {q} : file'[o] = file[o]
    BY <1>2, <2>1 DEF TypeOK, AttestFiles
  <2>6. dir' \in [Pulls -> Files] /\ repeats' \in 0..MaxRepeats /\ \A o \in Pulls \ {q} : dir'[o] = dir[o]
    BY <1>1, <1>2 DEF TypeOK
  <2> QED BY <1>1, <2>1, <2>2, <2>4, <2>5, <2>6, ReadStep
<1> QED BY <1>4, <1>5

\* The attestations that are written are those of the package.
LEMMA WriteStep == ASSUME IInv, NEW q \in Readers, Write(q) PROVE IInv'
<1> DEFINE r == [read[q] EXCEPT !.pc = "done"]
<1>1. /\ read[q].pc = "write" /\ Continue(q, r) /\ file' = [file EXCEPT ![q] = AttestOpened(q)]
      /\ UNCHANGED <<registryVars, push, dir, repeats>>
  BY DEF Write
<1>2. TypeOK /\ ReadInv(q) /\ PullInv(q) /\ tags' = tags /\ indexes' = indexes /\ dir' = dir
  BY <1>1 DEF IInv, registryVars
<1>3. /\ q \in Pulls /\ q \in Wanted /\ read[q].index[2] # NoAttest /\ read[q].unwritten = {}
      /\ read[q].index \in indexes /\ read[q].opened = PartsOf(read[q].index)
  BY <1>1, <1>2 DEF ReadInv, PullInv, Opened, Chosen
<1>4. AttestOpened(q) = read[q].index[2] /\ read[q].index[2] \in Attests
  BY <1>2, <1>3, OpenedIsIndex
<1>5. /\ r \in Read /\ r.pc = "done" /\ r.index = read[q].index /\ r.opened = read[q].opened
      /\ r.unwritten = {}
  BY <1>2, <1>3, ReadFields DEF Read
<1>6. read'[q] = r
  BY <1>1, <1>2 DEF Continue, TypeOK
<1> HIDE DEF r
<1>7. /\ file' \in [Pulls -> AttestFiles] /\ file'[q] = read[q].index[2]
      /\ \A o \in Pulls \ {q} : file'[o] = file[o]
  BY <1>1, <1>2, <1>3, <1>4 DEF TypeOK, AttestFiles
<1>8. ReadInv(q)'
  BY <1>2, <1>3, <1>5, <1>6 DEF ReadInv, Opened, Chosen
<1>9. PullInv(q)'
  BY <1>1, <1>2, <1>3, <1>5, <1>6, <1>7 DEF PullInv, Opened
<1>10. dir' \in [Pulls -> Files] /\ repeats' \in 0..MaxRepeats /\ \A o \in Pulls \ {q} : dir'[o] = dir[o]
  BY <1>1, <1>2 DEF TypeOK
<1> QED BY <1>1, <1>5, <1>7, <1>8, <1>9, <1>10, ReadStep

\* A view reports when all parts are open.
LEMMA CollectInfoStep == ASSUME IInv, NEW q \in Readers, CollectInfo(q) PROVE IInv'
<1> DEFINE r == [read[q] EXCEPT !.pc = "done"]
<1>1. q \in Views /\ Fetched(q) /\ Continue(q, r) /\ UNCHANGED <<registryVars, push, diskVars, repeats>>
  BY DEF CollectInfo
<1>2. TypeOK /\ ReadInv(q) /\ tags' = tags /\ indexes' = indexes
  BY <1>1 DEF IInv, registryVars
<1>3. r \in Read /\ r.pc = "done" /\ r.index = read[q].index /\ r.opened = read[q].opened
  BY <1>2, ReadFields DEF Read
<1>4. read'[q] = r
  BY <1>1, <1>2 DEF Continue, TypeOK
<1> HIDE DEF r
<1>5. read[q].index \in indexes /\ read[q].opened = PartsOf(read[q].index)
  BY <1>1, <1>2 DEF Fetched, ReadInv, Chosen
<1>6. q \notin Pulls /\ q \notin Wanted
  BY <1>1, ArtefactsAssumption
<1>7. ReadInv(q)' /\ PullInv(q)'
  BY <1>2, <1>3, <1>4, <1>5, <1>6 DEF ReadInv, PullInv, Opened, Chosen
<1> QED BY <1>1, <1>3, <1>7, QuietStep

\* A reader that fails has nothing.
LEMMA FailReadStep == ASSUME IInv, NEW q \in Readers, FailRead(q) PROVE IInv'
<1> DEFINE r == [read[q] EXCEPT !.pc = "failed"]
<1>1. Continue(q, r) /\ UNCHANGED <<registryVars, push, diskVars, repeats>>
  BY DEF FailRead
<1>2. TypeOK /\ ReadInv(q) /\ tags' = tags /\ indexes' = indexes
  BY <1>1 DEF IInv, registryVars
<1>3. r \in Read /\ r.pc = "failed" /\ r.index = read[q].index
  BY <1>2, ReadFields DEF Read
<1>4. read'[q] = r
  BY <1>1, <1>2 DEF Continue, TypeOK
<1> HIDE DEF r
<1>5. ReadInv(q)' /\ PullInv(q)'
  BY <1>2, <1>3, <1>4 DEF ReadInv, PullInv, Opened, Chosen
<1> QED BY <1>1, <1>3, <1>5, QuietStep

\* A pull that is repeated starts with what is in its directory.
LEMMA PullAgainStep == ASSUME IInv, NEW q \in Pulls, NEW t \in Asked, PullAgain(q, t) PROVE IInv'
<1>1. /\ Continue(q, Asking(t)) /\ repeats' = repeats + 1 /\ repeats < MaxRepeats
      /\ UNCHANGED <<registryVars, push>> /\ dir' = dir
  BY DEF PullAgain
<1>2. PICK left \in {file[q], NoFile} : file' = [file EXCEPT ![q] = left]
  BY DEF PullAgain
<1>3. TypeOK /\ q \in Readers /\ t \in Tags
  BY ArtefactsAssumption DEF IInv, Readers
<1>4. /\ Asking(t) \in Read /\ Asking(t).pc = "head" /\ Asking(t).index = NoPackage
      /\ Asking(t).opened = {}
  BY <1>3 DEF Asking, Read
<1>5. read'[q] = Asking(t)
  BY <1>1, <1>3 DEF Continue, TypeOK
<1>6. ReadInv(q)' /\ PullInv(q)'
  BY <1>4, <1>5 DEF ReadInv, PullInv, Opened, Chosen
<1>7. /\ dir' \in [Pulls -> Files] /\ file' \in [Pulls -> AttestFiles] /\ repeats' \in 0..MaxRepeats
      /\ \A o \in Pulls \ {q} : dir'[o] = dir[o] /\ file'[o] = file[o]
  BY <1>1, <1>2, <1>3, ArtefactsAssumption DEF TypeOK, AttestFiles
<1> QED BY <1>1, <1>3, <1>4, <1>6, <1>7, ReadStep

-----------------------------------------------------------------------------
\* The invariant is inductive.
LEMMA NextIInv == ASSUME IInv, [Next]_vars PROVE IInv'
<1>1. ASSUME NEW w \in Pushes, StepPush(w) \/ FailPush(w) PROVE IInv'
  BY <1>1, HeadTagStep, PutIndexStep, HeadManifestStep, PutLayerStep, PutManifestStep, FailPushStep
     DEF StepPush
<1>2. ASSUME NEW q \in Readers, StepRead(q) \/ FailRead(q) PROVE IInv'
  BY <1>2, HeadRefStep, GetIndexStep, CollectInfoStep, FetchPartStep, BeginExtractStep, EndExtractStep,
     CreateStep, WriteStep, ExtractFileStep, FailReadStep DEF StepRead
<1>3. ASSUME NEW q \in Pulls, NEW t \in Asked, PullAgain(q, t) PROVE IInv'
  BY <1>3, PullAgainStep
<1>4. CASE UNCHANGED vars
  BY <1>4 DEF vars, registryVars, diskVars, IInv, TypeOK, StoreInv, PushInv, ReadInv, PullInv
<1> QED BY <1>1, <1>2, <1>3, <1>4 DEF Next

\* Whatever is killed, pushed and pulled, the invariant holds.
THEOREM Inductive == Spec => []IInv
BY InitIInv, NextIInv, PTL DEF Spec

\* The variables have their types; in particular the attestations file only
\* ever has attestations, and only files of packages are extracted (Execute).
THEOREM TypeCorrect == Spec => []TypeOK
<1>1. IInv => TypeOK
  BY DEF IInv
<1> QED BY <1>1, Inductive, PTL

\* A manifest has its layer, an index its manifests, a tag its index, and a push
\* that has succeeded both tags, whatever was killed (PushArtefact).
THEOREM StoreIsClosed == Spec => []StoreClosed
<1>1. IInv => StoreClosed
  BY DEF IInv, StoreInv, PushInv, StoreClosed
<1> QED BY <1>1, Inductive, PTL

-----------------------------------------------------------------------------
(* No command goes back.                                                   *)

\* A part of a package is in one stage of a push at a time.
ApartInv(w) ==
    /\ push[w].pc = "head" => push[w].todo = {} /\ push[w].missing = {} /\ push[w].uploaded = {}
    /\ push[w].pc = "children" =>
           /\ push[w].todo \cap push[w].missing = {}
           /\ push[w].todo \cap push[w].uploaded = {} /\ push[w].missing \cap push[w].uploaded = {}

\* What a step of a push, or of a reader, does to what is left to it.
PushAhead(w) ==
    \/ PushPhase(w)' > PushPhase(w)
    \/ PushPhase(w)' = PushPhase(w) /\ PushWork(w)' \subseteq PushWork(w) /\ PushWork(w)' # PushWork(w)
ReadAhead(q) ==
    \/ ReadPhase(q)' > ReadPhase(q)
    \/ ReadPhase(q)' = ReadPhase(q) /\ ReadWork(q)' \subseteq ReadWork(q) /\ ReadWork(q)' # ReadWork(q)

\* Each request of a push goes ahead, and no other push is touched by it.
LEMMA PushGoesAhead ==
    ASSUME IInv, NEW w \in Pushes, ApartInv(w), StepPush(w) \/ FailPush(w)
    PROVE  /\ PushAhead(w) /\ ApartInv(w)' /\ read' = read
           /\ \A v \in Pushes \ {w} : push'[v] = push[v]
<1>0. push \in [Pushes -> Push] /\ TypeOK /\ PushInv(w)
  BY DEF IInv, TypeOK
<1>1. ASSUME NEW r, Proceed(w, r) PROVE push'[w] = r /\ \A v \in Pushes \ {w} : push'[v] = push[v]
  BY <1>0, <1>1 DEF Proceed
<1>2. ASSUME Proceed(w, NextTag(w)), push[w].pc \in {"head", "children"}, PartsPushed(w)
      PROVE  PushAhead(w) /\ ApartInv(w)'
  <2>1. push'[w] = NextTag(w)
    BY <1>1, <1>2
  <2>2. CASE push[w].tag = FullTag(Package[w])
    <3>1. NextTag(w) = [push[w] EXCEPT !.pc = "head", !.tag = Alias(Package[w])]
      BY <2>2 DEF NextTag
    <3>2. /\ push'[w].pc = "head" /\ push'[w].tag = Alias(Package[w])
          /\ push'[w].todo = {} /\ push'[w].missing = {} /\ push'[w].uploaded = {}
      BY <1>0, <1>2, <2>1, <3>1, PushFields DEF Push, PartsPushed
    <3>3. Alias(Package[w]) # FullTag(Package[w])
      BY <1>0, PushFields
    <3>4. PushPhase(w)' = 2 /\ PushPhase(w) \in {0, 1}
      BY <1>2, <2>2, <3>2, <3>3 DEF PushPhase
    <3> QED BY <3>2, <3>4 DEF PushAhead, ApartInv
  <2>3. CASE push[w].tag # FullTag(Package[w])
    <3>1. NextTag(w) = [push[w] EXCEPT !.pc = "done"]
      BY <2>3 DEF NextTag
    <3>2. push'[w].pc = "done"
      BY <1>0, <2>1, <3>1, PushFields DEF Push
    <3>3. PushPhase(w)' = 4 /\ PushPhase(w) \in {2, 3}
      BY <1>2, <2>3, <3>2 DEF PushPhase
    <3> QED BY <3>2, <3>3 DEF PushAhead, ApartInv
  <2> QED BY <2>2, <2>3
<1>3. CASE HeadTag(w)
  <2>1. /\ push[w].pc = "head" /\ read' = read
        /\ Proceed(w, IF tags[push[w].tag] = Package[w] THEN NextTag(w)
                      ELSE [push[w] EXCEPT !.pc = "children", !.todo = PartsOf(Package[w])])
    BY <1>3 DEF HeadTag
  <2>2. PartsPushed(w)
    BY <2>1 DEF ApartInv, PartsPushed
  <2>3. CASE tags[push[w].tag] = Package[w]
    BY <1>1, <1>2, <2>1, <2>2, <2>3
  <2>4. CASE tags[push[w].tag] # Package[w]
    <3> DEFINE r == [push[w] EXCEPT !.pc = "children", !.todo = PartsOf(Package[w])]
    <3>1. Proceed(w, r)
      BY <2>1, <2>4
    <3>2. push'[w] = r
      BY <1>1, <3>1
    <3>3. r.pc = "children" /\ r.tag = push[w].tag /\ r.missing = {} /\ r.uploaded = {}
      BY <1>0, <2>2, PushFields DEF Push, PartsPushed
    <3> HIDE DEF r
    <3>4. PushPhase(w)' = PushPhase(w) + 1 /\ PushPhase(w) \in Nat
      BY <2>1, <3>2, <3>3 DEF PushPhase
    <3>5. PushAhead(w) /\ ApartInv(w)'
      BY <3>2, <3>3, <3>4 DEF PushAhead, ApartInv
    <3> QED BY <1>1, <2>1, <3>1, <3>5
  <2> QED BY <2>3, <2>4
<1>4. ASSUME NEW m \in Parts, HeadManifest(w, m)
      PROVE  /\ PushAhead(w) /\ ApartInv(w)' /\ read' = read
             /\ \A v \in Pushes \ {w} : push'[v] = push[v]
  <2> DEFINE r == [push[w] EXCEPT !.todo = @ \ {m}, !.missing = IF m \in manifests THEN @ ELSE @ \cup {m}]
  <2>1. push[w].pc = "children" /\ m \in push[w].todo /\ Proceed(w, r) /\ read' = read
    BY <1>4 DEF HeadManifest
  <2>2. /\ r.pc = "children" /\ r.tag = push[w].tag /\ r.uploaded = push[w].uploaded
        /\ r.todo = push[w].todo \ {m}
        /\ r.missing = push[w].missing \/ r.missing = push[w].missing \cup {m}
    BY <1>0, <2>1, PushFields DEF Push
  <2>3. push'[w] = r /\ \A v \in Pushes \ {w} : push'[v] = push[v]
    BY <1>1, <2>1
  <2> HIDE DEF r
  <2>4. PushPhase(w)' = PushPhase(w)
    BY <2>1, <2>2, <2>3 DEF PushPhase
  <2>5. PushWork(w)' \subseteq PushWork(w)
    BY <2>1, <2>2, <2>3 DEF PushWork
  <2>6. <<m, "head">> \in PushWork(w) /\ <<m, "head">> \notin PushWork(w)'
    BY <2>1, <2>2, <2>3 DEF PushWork
  <2>7. ApartInv(w)'
    BY <2>1, <2>2, <2>3 DEF ApartInv
  <2> QED BY <2>1, <2>3, <2>4, <2>5, <2>6, <2>7 DEF PushAhead
<1>5. ASSUME NEW m \in Parts, PutLayer(w, m)
      PROVE  /\ PushAhead(w) /\ ApartInv(w)' /\ read' = read
             /\ \A v \in Pushes \ {w} : push'[v] = push[v]
  <2> DEFINE r == [push[w] EXCEPT !.missing = @ \ {m}, !.uploaded = @ \cup {m}]
  <2>1. push[w].pc = "children" /\ m \in push[w].missing /\ Proceed(w, r) /\ read' = read
    BY <1>5 DEF PutLayer
  <2>2. /\ r.pc = "children" /\ r.tag = push[w].tag /\ r.todo = push[w].todo
        /\ r.missing = push[w].missing \ {m} /\ r.uploaded = push[w].uploaded \cup {m}
    BY <1>0, <2>1, PushFields DEF Push
  <2>3. push'[w] = r /\ \A v \in Pushes \ {w} : push'[v] = push[v]
    BY <1>1, <2>1
  <2> HIDE DEF r
  <2>4. PushPhase(w)' = PushPhase(w)
    BY <2>1, <2>2, <2>3 DEF PushPhase
  <2>5. PushWork(w)' \subseteq PushWork(w)
    BY <2>1, <2>2, <2>3 DEF PushWork
  <2>6. m \notin push[w].todo
    BY <2>1 DEF ApartInv
  <2>7. <<m, "layer">> \in PushWork(w) /\ <<m, "layer">> \notin PushWork(w)'
    BY <2>1, <2>2, <2>3, <2>6 DEF PushWork
  <2>8. ApartInv(w)'
    BY <2>1, <2>2, <2>3 DEF ApartInv
  <2> QED BY <2>1, <2>3, <2>4, <2>5, <2>7, <2>8 DEF PushAhead
<1>6. ASSUME NEW m \in Parts, PutManifest(w, m)
      PROVE  /\ PushAhead(w) /\ ApartInv(w)' /\ read' = read
             /\ \A v \in Pushes \ {w} : push'[v] = push[v]
  <2> DEFINE r == [push[w] EXCEPT !.uploaded = @ \ {m}]
  <2>1. push[w].pc = "children" /\ m \in push[w].uploaded /\ Proceed(w, r) /\ read' = read
    BY <1>6 DEF PutManifest
  <2>2. /\ r.pc = "children" /\ r.tag = push[w].tag /\ r.todo = push[w].todo
        /\ r.missing = push[w].missing /\ r.uploaded = push[w].uploaded \ {m}
    BY <1>0, <2>1, PushFields DEF Push
  <2>3. push'[w] = r /\ \A v \in Pushes \ {w} : push'[v] = push[v]
    BY <1>1, <2>1
  <2> HIDE DEF r
  <2>4. PushPhase(w)' = PushPhase(w)
    BY <2>1, <2>2, <2>3 DEF PushPhase
  <2>5. PushWork(w)' \subseteq PushWork(w)
    BY <2>1, <2>2, <2>3 DEF PushWork
  <2>6. m \notin push[w].todo /\ m \notin push[w].missing
    BY <2>1 DEF ApartInv
  <2>7. <<m, "manifest">> \in PushWork(w) /\ <<m, "manifest">> \notin PushWork(w)'
    BY <2>1, <2>2, <2>3, <2>6 DEF PushWork
  <2>8. ApartInv(w)'
    BY <2>1, <2>2, <2>3 DEF ApartInv
  <2> QED BY <2>1, <2>3, <2>4, <2>5, <2>7, <2>8 DEF PushAhead
<1>7. CASE PutIndex(w)
  BY <1>1, <1>2, <1>7 DEF PutIndex
<1>8. CASE FailPush(w)
  <2>1. /\ push[w].pc \in {"head", "children"} /\ Proceed(w, [push[w] EXCEPT !.pc = "failed"])
        /\ read' = read
    BY <1>8 DEF FailPush
  <2>2. push'[w] = [push[w] EXCEPT !.pc = "failed"] /\ \A v \in Pushes \ {w} : push'[v] = push[v]
    BY <1>1, <2>1
  <2>3. push'[w].pc = "failed"
    BY <1>0, <2>2, PushFields DEF Push
  <2>4. PushPhase(w)' = 4 /\ PushPhase(w) \in 0..3
    BY <2>1, <2>3 DEF PushPhase
  <2> QED BY <2>1, <2>2, <2>3, <2>4 DEF PushAhead, ApartInv
<1> QED BY <1>3, <1>4, <1>5, <1>6, <1>7, <1>8 DEF StepPush

\* Each step of a reader goes ahead, and no other reader is touched by it.
LEMMA ReadGoesAhead ==
    ASSUME IInv, NEW q \in Readers, StepRead(q) \/ FailRead(q)
    PROVE  ReadAhead(q) /\ push' = push /\ \A o \in Readers \ {q} : read'[o] = read[o]
<1>0. read \in [Readers -> Read] /\ TypeOK /\ ReadInv(q)
  BY DEF IInv, TypeOK
<1>1. ASSUME NEW r, Continue(q, r) PROVE read'[q] = r /\ \A o \in Readers \ {q} : read'[o] = read[o]
  BY <1>0, <1>1 DEF Continue
<1>2. ASSUME NEW pc \in {"get", "fetch", "extract", "create", "write", "done", "failed"},
             read'[q].pc = pc,
             \/ read[q].pc = "head"
             \/ read[q].pc = "get" /\ pc # "get"
             \/ read[q].pc = "fetch" /\ pc \notin {"get", "fetch"}
             \/ read[q].pc = "extract" /\ pc \notin {"get", "fetch", "extract"}
             \/ read[q].pc = "create" /\ pc \in {"write", "done", "failed"}
             \/ read[q].pc = "write" /\ pc \in {"done", "failed"}
      PROVE  ReadAhead(q)
  <2>1. ReadPhase(q)' > ReadPhase(q)
    BY <1>2 DEF ReadPhase
  <2> QED BY <2>1 DEF ReadAhead
<1>3. CASE HeadRef(q)
  <2>1. /\ read[q].pc = "head" /\ push' = push
        /\ Continue(q, [read[q] EXCEPT !.pc = IF tags[read[q].tag] = NoPackage THEN "failed" ELSE "get"])
    BY <1>3 DEF HeadRef
  <2>2. read'[q].pc \in {"failed", "get"}
    BY <1>0, <1>1, <2>1, ReadFields DEF Read
  <2> QED BY <1>1, <1>2, <2>1, <2>2
<1>4. CASE GetIndex(q)
  <2> DEFINE r == [read[q] EXCEPT !.pc = "fetch", !.index = tags[read[q].tag]]
  <2>1. read[q].pc = "get" /\ push' = push /\ Continue(q, r)
    BY <1>4 DEF GetIndex
  <2>2. r.pc = "fetch"
    BY <1>0, ReadFields DEF Read
  <2> HIDE DEF r
  <2> QED BY <1>1, <1>2, <2>1, <2>2
<1>5. ASSUME NEW m \in Parts, FetchPart(q, m)
      PROVE  ReadAhead(q) /\ push' = push /\ \A o \in Readers \ {q} : read'[o] = read[o]
  <2>1. /\ read[q].pc = "fetch" /\ m \in PartsOf(read[q].index) \ read[q].opened /\ push' = push
        /\ Continue(q, IF m \in manifests /\ m \in layers THEN [read[q] EXCEPT !.opened = @ \cup {m}]
                       ELSE [read[q] EXCEPT !.pc = "failed"])
    BY <1>5 DEF FetchPart
  <2>2. CASE m \in manifests /\ m \in layers
    <3> DEFINE r == [read[q] EXCEPT !.opened = @ \cup {m}]
    <3>1. Continue(q, r)
      BY <2>1, <2>2
    <3>2. read'[q] = r /\ \A o \in Readers \ {q} : read'[o] = read[o]
      BY <1>1, <3>1
    <3>3. r.pc = "fetch" /\ r.index = read[q].index /\ r.opened = read[q].opened \cup {m}
      BY <1>0, <2>1, ReadFields DEF Read
    <3> HIDE DEF r
    <3>4. ReadPhase(q)' = 2 /\ ReadPhase(q) = 2
      BY <2>1, <3>2, <3>3 DEF ReadPhase
    <3>5. /\ ReadWork(q) = PartsOf(read[q].index) \ read[q].opened
          /\ ReadWork(q)' = PartsOf(read[q].index) \ (read[q].opened \cup {m})
      BY <2>1, <3>2, <3>3 DEF ReadWork, PartsOf
    <3> QED BY <2>1, <3>2, <3>4, <3>5 DEF ReadAhead
  <2>3. CASE ~(m \in manifests /\ m \in layers)
    <3>1. Continue(q, [read[q] EXCEPT !.pc = "failed"])
      BY <2>1, <2>3
    <3>2. read'[q].pc = "failed"
      BY <1>0, <1>1, <3>1, ReadFields DEF Read
    <3> QED BY <1>1, <1>2, <2>1, <3>1, <3>2
  <2> QED BY <2>2, <2>3
<1>6. CASE BeginExtract(q)
  <2> DEFINE unwritten == {f \in Paths : FileIn[ContentOpened(q)][f] # Absent}
             r == [read[q] EXCEPT !.pc = "extract", !.unwritten = unwritten]
  <2>1. read[q].pc = "fetch" /\ push' = push /\ Continue(q, r)
    BY <1>6 DEF BeginExtract, Fetched
  <2> HIDE DEF unwritten
  <2>2. r.pc = "extract"
    BY <1>0, ReadFields DEF Read
  <2> HIDE DEF r
  <2> QED BY <1>1, <1>2, <2>1, <2>2
<1>7. ASSUME NEW f \in Paths, ExtractFile(q, f)
      PROVE  ReadAhead(q) /\ push' = push /\ \A o \in Readers \ {q} : read'[o] = read[o]
  <2> DEFINE r == [read[q] EXCEPT !.unwritten = @ \ {f}]
  <2>1. read[q].pc = "extract" /\ f \in read[q].unwritten /\ push' = push /\ Continue(q, r)
    BY <1>7 DEF ExtractFile
  <2>2. read'[q] = r /\ \A o \in Readers \ {q} : read'[o] = read[o]
    BY <1>1, <2>1
  <2>3. r.pc = "extract" /\ r.unwritten = read[q].unwritten \ {f}
    BY <1>0, <2>1, ReadFields DEF Read
  <2> HIDE DEF r
  <2>4. ReadPhase(q)' = 3 /\ ReadPhase(q) = 3
    BY <2>1, <2>2, <2>3 DEF ReadPhase
  <2>5. ReadWork(q) = read[q].unwritten /\ ReadWork(q)' = read[q].unwritten \ {f}
    BY <2>1, <2>2, <2>3 DEF ReadWork
  <2> QED BY <2>1, <2>2, <2>4, <2>5 DEF ReadAhead
<1>8. CASE EndExtract(q)
  <2> DEFINE pc == IF q \in Wanted /\ AttestOpened(q) # NoAttest THEN "create" ELSE "done"
  <2>1. /\ read[q].pc = "extract" /\ push' = push /\ pc \in {"create", "done"}
        /\ Continue(q, [read[q] EXCEPT !.pc = pc])
    BY <1>8 DEF EndExtract
  <2> HIDE DEF pc
  <2>2. read'[q].pc = pc
    BY <1>0, <1>1, <2>1, ReadFields DEF Read
  <2> QED BY <1>1, <1>2, <2>1, <2>2
<1>9. CASE Create(q)
  <2>1. /\ read[q].pc = "create" /\ push' = push
        /\ \E pc \in {"failed", "write"} : Continue(q, [read[q] EXCEPT !.pc = pc])
    BY <1>9 DEF Create
  <2>2. PICK pc \in {"failed", "write"} : Continue(q, [read[q] EXCEPT !.pc = pc])
    BY <2>1
  <2>3. read'[q].pc = pc
    BY <1>0, <1>1, <2>2, ReadFields DEF Read
  <2> QED BY <1>1, <1>2, <2>1, <2>2, <2>3
<1>10. CASE Write(q) \/ CollectInfo(q)
  <2>1. /\ read[q].pc \in {"fetch", "write"} /\ push' = push
        /\ Continue(q, [read[q] EXCEPT !.pc = "done"])
    BY <1>10 DEF Write, CollectInfo, Fetched
  <2>2. read'[q].pc = "done"
    BY <1>0, <1>1, <2>1, ReadFields DEF Read
  <2> QED BY <1>1, <1>2, <2>1, <2>2
<1>11. CASE FailRead(q)
  <2>1. /\ read[q].pc \notin {"done", "failed"} /\ push' = push
        /\ Continue(q, [read[q] EXCEPT !.pc = "failed"])
    BY <1>11 DEF FailRead
  <2>2. read'[q].pc = "failed"
    BY <1>0, <1>1, <2>1, ReadFields DEF Read
  <2>3. read[q].pc \in {"head", "get", "fetch", "extract", "create", "write"}
    BY <1>0, <2>1, ReadFields DEF Read
  <2> QED BY <1>1, <1>2, <2>1, <2>2, <2>3
<1> QED BY <1>3, <1>4, <1>5, <1>6, <1>7, <1>8, <1>9, <1>10, <1>11 DEF StepRead

\* Nobody looks a part up twice or pushes it twice, or goes back to a tag or a
\* file, however many commands share them; only a user begins again (WriteIndex,
\* Tag, Execute of pull and view).
THEOREM CommandsAlwaysAdvance == Spec => CommandsAdvance
<1> DEFINE Apart == \A w \in Pushes : ApartInv(w)
           Ahead == /\ \A w \in Pushes : push'[w] # push[w] => PushAhead(w)
                    /\ \A q \in Readers : read'[q] # read[q] =>
                          ReadAhead(q) \/ (ReadPhase(q) = 6 /\ repeats' > repeats)
<1>1. Init => Apart
  <2> SUFFICES ASSUME Init, NEW w \in Pushes PROVE ApartInv(w)
    OBVIOUS
  <2>1. push[w] = [pc |-> "head", tag |-> FullTag(Package[w]), todo |-> {}, missing |-> {}, uploaded |-> {}]
    BY DEF Init
  <2> QED BY <2>1 DEF ApartInv
<1>2. ASSUME IInv, Apart, NEW w \in Pushes, StepPush(w) \/ FailPush(w) PROVE Apart' /\ Ahead
  <2>1. /\ PushAhead(w) /\ ApartInv(w)' /\ read' = read
        /\ \A v \in Pushes \ {w} : push'[v] = push[v]
    BY <1>2, PushGoesAhead
  <2>2. \A v \in Pushes \ {w} : ApartInv(v)'
    BY <1>2, <2>1 DEF ApartInv
  <2> QED BY <2>1, <2>2
<1>3. ASSUME IInv, Apart, NEW q \in Readers, StepRead(q) \/ FailRead(q) PROVE Apart' /\ Ahead
  <2>1. ReadAhead(q) /\ push' = push /\ \A o \in Readers \ {q} : read'[o] = read[o]
    BY <1>3, ReadGoesAhead
  <2> QED BY <1>3, <2>1 DEF ApartInv
<1>4. ASSUME IInv, Apart, NEW q \in Pulls, NEW t \in Asked, PullAgain(q, t) PROVE Apart' /\ Ahead
  <2>1. /\ read[q].pc \in {"done", "failed"} /\ repeats' = repeats + 1 /\ push' = push
        /\ Continue(q, Asking(t))
    BY <1>4 DEF PullAgain
  <2>2. \A o \in Readers \ {q} : read'[o] = read[o]
    BY <1>4, <2>1 DEF Continue, IInv, TypeOK
  <2>3. repeats \in Nat
    BY <1>4, ArtefactsAssumption DEF IInv, TypeOK
  <2>4. ReadPhase(q) = 6 /\ repeats' > repeats
    BY <2>1, <2>3 DEF ReadPhase
  <2> QED BY <1>4, <2>1, <2>2, <2>4 DEF ApartInv
<1>5. ASSUME Apart, UNCHANGED vars PROVE Apart' /\ Ahead
  BY <1>5 DEF vars, ApartInv
<1>6. IInv /\ Apart /\ [Next]_vars => Apart' /\ Ahead
  BY <1>2, <1>3, <1>4, <1>5 DEF Next
<1>7. Spec => []Apart
  BY <1>1, <1>6, Inductive, PTL DEF Spec
<1>8. IInv /\ Apart /\ [Next]_vars => [Ahead]_vars
  BY <1>6
<1>9. [Ahead]_vars =>
        [/\ \A w \in Pushes : push'[w] # push[w] =>
               \/ PushPhase(w)' > PushPhase(w)
               \/ PushPhase(w)' = PushPhase(w) /\ PushWork(w)' \subseteq PushWork(w) /\ PushWork(w)' # PushWork(w)
         /\ \A q \in Readers : read'[q] # read[q] =>
               \/ ReadPhase(q)' > ReadPhase(q)
               \/ ReadPhase(q)' = ReadPhase(q) /\ ReadWork(q)' \subseteq ReadWork(q) /\ ReadWork(q)' # ReadWork(q)
               \/ ReadPhase(q) = 6 /\ repeats' > repeats]_vars
  BY DEF PushAhead, ReadAhead
<1> QED BY <1>7, <1>8, <1>9, Inductive, PTL DEF Spec, CommandsAdvance

-----------------------------------------------------------------------------
(* Refinement.                                                             *)

\* What reader q has, for PackageStore.
Has(q) == IF read[q].pc = "done" THEN Result(q) ELSE Nothing

\* Every package in the repository is complete.
LEMMA AllComplete == ASSUME StoreInv PROVE Complete = indexes
BY DEF Complete, StoreInv

\* Nothing is there at the beginning.
LEMMA InitRefines == Init => Store!Init
<1> SUFFICES ASSUME Init PROVE Store!Init
  OBVIOUS
<1>1. IInv /\ indexes = {} /\ tags = [t \in Tags |-> NoPackage]
  BY InitIInv DEF Init
<1>2. PICK wanted \in [Readers -> Asked] : read = [q \in Readers |-> Asking(wanted[q])]
  BY DEF Init
<1>3. ASSUME NEW q \in Readers
      PROVE  read[q].tag \in Tags /\ read[q].index = NoPackage /\ read[q].pc # "done"
  <2>1. read[q] = Asking(wanted[q]) /\ wanted[q] \in Tags
    BY <1>2, ArtefactsAssumption
  <2> QED BY <2>1 DEF Asking
<1>4. Complete = {}
  BY <1>1 DEF Complete
<1>5. [q \in Readers |-> read[q].tag] \in [Readers -> Tags]
  BY <1>3
<1>6. [q \in Readers |-> read[q].index] = [q \in Readers |-> NoPackage]
  BY <1>3
<1>7. [q \in Readers |-> IF read[q].pc = "done" THEN Result(q) ELSE Nothing] = [q \in Readers |-> Nothing]
  BY <1>3
<1> QED BY <1>1, <1>4, <1>5, <1>6, <1>7 DEF Store!Init

\* Steps in which a reader neither chooses nor is given a package.
LEMMA Stutters ==
    ASSUME StoreInv, StoreInv', indexes' = indexes, tags' = tags,
           \A o \in Readers : read'[o].tag = read[o].tag /\ read'[o].index = read[o].index /\ Has(o)' = Has(o)
    PROVE  UNCHANGED Store!vars
<1>1. Complete' = Complete
  BY AllComplete DEF Complete, StoreInv
<1>2. /\ [q \in Readers |-> read'[q].tag] = [q \in Readers |-> read[q].tag]
      /\ [q \in Readers |-> read'[q].index] = [q \in Readers |-> read[q].index]
  OBVIOUS
<1>3. [q \in Readers |-> Has(q)'] = [q \in Readers |-> Has(q)]
  OBVIOUS
<1>4. [q \in Readers |-> (IF read[q].pc = "done" THEN Result(q) ELSE Nothing)]'
      = [q \in Readers |-> (IF read[q].pc = "done" THEN Result(q) ELSE Nothing)]
  BY <1>3 DEF Has
<1> QED BY <1>1, <1>2, <1>4 DEF Store!vars

\* The other readers are left as they are.
LEMMA OthersHave ==
    ASSUME TypeOK, NEW q \in Readers, NEW r, Continue(q, r),
           \A o \in Pulls \ {q} : dir'[o] = dir[o] /\ file'[o] = file[o]
    PROVE  \A o \in Readers \ {q} : read'[o] = read[o] /\ Has(o)' = Has(o)
<1> SUFFICES ASSUME NEW o \in Readers \ {q} PROVE read'[o] = read[o] /\ Has(o)' = Has(o)
  OBVIOUS
<1>1. read'[o] = read[o]
  BY DEF Continue, TypeOK
<1>2. ContentOpened(o)' = ContentOpened(o) /\ AttestOpened(o)' = AttestOpened(o)
  BY <1>1 DEF ContentOpened, AttestOpened
<1>3. Result(o)' = Result(o)
  BY <1>2 DEF Result
<1> QED BY <1>1, <1>3 DEF Has

\* A reader that goes on to another phase than the last has nothing yet.
LEMMA GoesOn ==
    ASSUME IInv, IInv', NEW q \in Readers, NEW r, Continue(q, r), UNCHANGED registryVars,
           \A o \in Pulls \ {q} : dir'[o] = dir[o] /\ file'[o] = file[o],
           r.tag = read[q].tag, r.index = read[q].index, r.pc # "done", read[q].pc # "done"
    PROVE  UNCHANGED Store!vars
<1>1. StoreInv /\ StoreInv' /\ TypeOK /\ indexes' = indexes /\ tags' = tags
  BY DEF IInv, registryVars
<1>2. read'[q] = r
  BY <1>1 DEF Continue, TypeOK
<1>3. Has(q)' = Nothing /\ Has(q) = Nothing
  BY <1>2 DEF Has
<1>4. \A o \in Readers \ {q} : read'[o] = read[o] /\ Has(o)' = Has(o)
  BY <1>1, OthersHave
<1> QED BY <1>1, <1>2, <1>3, <1>4, Stutters

\* Steps of a push other than that of the index.
LEMMA PushStutters ==
    ASSUME IInv, IInv', indexes' = indexes, tags' = tags, UNCHANGED <<read, diskVars>>
    PROVE  UNCHANGED Store!vars
<1>1. StoreInv /\ StoreInv'
  BY DEF IInv
<1>2. ASSUME NEW o \in Readers PROVE Has(o)' = Has(o)
  <2>1. read' = read /\ dir' = dir /\ file' = file
    BY DEF diskVars
  <2> QED BY <2>1 DEF Has, Result, ContentOpened, AttestOpened
<1>3. read' = read
  OBVIOUS
<1> QED BY <1>1, <1>2, <1>3, Stutters

\* The index makes the package appear, with the tag.
LEMMA PutIndexRefines == ASSUME IInv, IInv', NEW w \in Pushes, PutIndex(w) PROVE Store!Next
<1>1. /\ indexes' = indexes \cup {Package[w]} /\ tags' = [tags EXCEPT ![push[w].tag] = Package[w]]
      /\ read' = read /\ dir' = dir /\ file' = file
  BY DEF PutIndex, diskVars
<1>2. TypeOK /\ StoreInv /\ StoreInv'
  BY DEF IInv
<1>3. Package[w] \in Packages /\ push[w].tag \in Tags
  BY <1>2, PushFields
<1>4. Complete = indexes /\ Complete' = indexes'
  BY <1>2, AllComplete DEF Complete, StoreInv
<1>5. \A o \in Readers : Has(o)' = Has(o)
  BY <1>1 DEF Has, Result, ContentOpened, AttestOpened
<1>6. [q \in Readers |-> Has(q)'] = [q \in Readers |-> Has(q)]
  BY <1>5
<1>7. [q \in Readers |-> (IF read[q].pc = "done" THEN Result(q) ELSE Nothing)]'
      = [q \in Readers |-> (IF read[q].pc = "done" THEN Result(q) ELSE Nothing)]
  BY <1>6 DEF Has
<1>8. Store!Publish(Package[w], push[w].tag)
  BY <1>1, <1>4, <1>7 DEF Store!Publish
<1> QED BY <1>3, <1>8 DEF Store!Next

\* The index that is got is that of a package that is there.
LEMMA GetIndexRefines == ASSUME IInv, IInv', NEW q \in Readers, GetIndex(q) PROVE Store!Next
<1> DEFINE r == [read[q] EXCEPT !.pc = "fetch", !.index = tags[read[q].tag]]
<1>1. /\ read[q].pc = "get" /\ Continue(q, r) /\ UNCHANGED <<registryVars, diskVars>>
  BY DEF GetIndex
<1>2. TypeOK /\ StoreInv /\ StoreInv' /\ ReadInv(q) /\ indexes' = indexes /\ tags' = tags
  BY <1>1 DEF IInv, registryVars
<1>3. Complete = indexes /\ Complete' = Complete
  BY <1>2, AllComplete DEF Complete, StoreInv
<1>4. tags[read[q].tag] \in indexes
  BY <1>1, <1>2, ReadFields DEF ReadInv, StoreInv
<1>5. r.pc = "fetch" /\ r.tag = read[q].tag /\ r.index = tags[read[q].tag]
  BY <1>2, ReadFields DEF Read
<1>6. read'[q] = r
  BY <1>1, <1>2 DEF Continue, TypeOK
<1> HIDE DEF r
<1>7. \A o \in Readers \ {q} : read'[o] = read[o] /\ Has(o)' = Has(o)
  BY <1>1, <1>2, OthersHave DEF diskVars
<1>8. Has(q)' = Nothing /\ Has(q) = Nothing
  BY <1>1, <1>5, <1>6 DEF Has
<1>9. [o \in Readers |-> Has(o)'] = [o \in Readers |-> Has(o)]
  BY <1>7, <1>8
<1>10. [o \in Readers |-> (IF read[o].pc = "done" THEN Result(o) ELSE Nothing)]'
       = [o \in Readers |-> (IF read[o].pc = "done" THEN Result(o) ELSE Nothing)]
  BY <1>9 DEF Has
<1>11. [o \in Readers |-> read'[o].tag] = [o \in Readers |-> read[o].tag]
  BY <1>5, <1>6, <1>7
<1>12. [o \in Readers |-> read'[o].index] = [[o \in Readers |-> read[o].index] EXCEPT ![q] = tags[read[q].tag]]
  BY <1>5, <1>6, <1>7
<1>13. Store!Choose(q)
  BY <1>2, <1>3, <1>4, <1>10, <1>11, <1>12 DEF Store!Choose
<1> QED BY <1>13 DEF Store!Next

\* A reader that succeeds has one package, whole.
LEMMA Gives ==
    ASSUME IInv, IInv', NEW q \in Readers, NEW r, Continue(q, r), UNCHANGED registryVars,
           \A o \in Pulls \ {q} : dir'[o] = dir[o] /\ file'[o] = file[o],
           r.tag = read[q].tag, r.index = read[q].index, r.pc = "done"
    PROVE  Store!Next
<1>1. /\ StoreInv /\ StoreInv' /\ TypeOK /\ TypeOK' /\ indexes' = indexes /\ tags' = tags
      /\ ReadInv(q)' /\ PullInv(q)'
  BY DEF IInv, registryVars
<1>2. Complete = indexes /\ Complete' = Complete
  BY <1>1, AllComplete DEF Complete, StoreInv
<1>3. read'[q] = r
  BY <1>1 DEF Continue, TypeOK
<1>4. \A o \in Readers \ {q} : read'[o] = read[o] /\ Has(o)' = Has(o)
  BY <1>1, OthersHave
<1> DEFINE x == read[q].index
<1>5. x \in indexes /\ x \in Packages /\ read'[q].index = x /\ read'[q].opened = PartsOf(x)
  BY <1>1, <1>3 DEF ReadInv, Opened, Chosen, TypeOK
<1>6. ContentOpened(q)' = x[1] /\ AttestOpened(q)' = x[2] /\ x[2] \in Attests \cup {NoAttest}
  BY <1>5, PackageParts DEF ContentOpened, AttestOpened
<1> HIDE DEF x
<1>7. Result(q)' \in Given[q][x]
  <2>1. CASE q \in Pulls
    <3>1. Result(q)' = <<dir'[q], file'[q]>> /\ Given[q][x] = GivenPull(q, x)
      BY <1>5, <2>1 DEF Result, Given
    <3>2. dir'[q] \in Files /\ file'[q] \in AttestFiles
      BY <1>1, <2>1 DEF TypeOK
    <3>3. \A f \in Paths : FileIn[x[1]][f] \in {dir'[q][f], Absent}
      BY <1>1, <1>3, <1>5, <2>1 DEF PullInv, Opened
    <3>4. q \in Wanted /\ x[2] # NoAttest => file'[q] = x[2]
      BY <1>1, <1>3, <1>5 DEF PullInv
    <3>5. file'[q] \in IF q \in Wanted /\ x[2] # NoAttest THEN {x[2]} ELSE AttestFiles
      BY <3>2, <3>4
    <3> QED BY <3>1, <3>2, <3>3, <3>5 DEF GivenPull
  <2>2. CASE q \notin Pulls
    BY <1>5, <1>6, <2>2 DEF Result, Given, GivenView
  <2> QED BY <2>1, <2>2
<1>8. Has(q)' = Result(q)'
  BY <1>3 DEF Has
<1>9. [o \in Readers |-> Has(o)'] = [[o \in Readers |-> Has(o)] EXCEPT ![q] = Result(q)']
  BY <1>4, <1>8
<1>10. [o \in Readers |-> (IF read[o].pc = "done" THEN Result(o) ELSE Nothing)]'
       = [[o \in Readers |-> (IF read[o].pc = "done" THEN Result(o) ELSE Nothing)] EXCEPT ![q] = Result(q)']
  BY <1>9 DEF Has
<1>11. [o \in Readers |-> read'[o].tag] = [o \in Readers |-> read[o].tag]
  BY <1>3, <1>4
<1>12. [o \in Readers |-> read'[o].index] = [o \in Readers |-> read[o].index]
  BY <1>3, <1>4
<1>13. [o \in Readers |-> read[o].index][q] = x
  BY DEF x
<1>14. Store!Give(q)
  BY <1>1, <1>2, <1>5, <1>7, <1>10, <1>11, <1>12, <1>13 DEF Store!Give
<1> QED BY <1>14 DEF Store!Next

\* A pull that is repeated asks for a tag.
LEMMA PullAgainRefines ==
    ASSUME IInv, IInv', NEW q \in Pulls, NEW t \in Asked, PullAgain(q, t)
    PROVE  Store!Next
<1>1. /\ Continue(q, Asking(t)) /\ UNCHANGED registryVars /\ dir' = dir
  BY DEF PullAgain
<1>2. TypeOK /\ StoreInv /\ StoreInv' /\ indexes' = indexes /\ tags' = tags /\ q \in Readers /\ t \in Tags
  BY <1>1, ArtefactsAssumption DEF IInv, registryVars, Readers
<1>3. Complete' = Complete
  BY <1>2, AllComplete DEF Complete, StoreInv
<1>4. \A o \in Pulls \ {q} : dir'[o] = dir[o] /\ file'[o] = file[o]
  BY <1>1, <1>2 DEF PullAgain, TypeOK
<1>5. \A o \in Readers \ {q} : read'[o] = read[o] /\ Has(o)' = Has(o)
  BY <1>1, <1>2, <1>4, OthersHave
<1>6. read'[q] = Asking(t)
  BY <1>1, <1>2 DEF Continue, TypeOK
<1>7. read'[q].tag = t /\ read'[q].index = NoPackage /\ Has(q)' = Nothing
  BY <1>6 DEF Asking, Has
<1>8. [o \in Readers |-> Has(o)'] = [[o \in Readers |-> Has(o)] EXCEPT ![q] = Nothing]
  BY <1>5, <1>7
<1>9. [o \in Readers |-> (IF read[o].pc = "done" THEN Result(o) ELSE Nothing)]'
      = [[o \in Readers |-> (IF read[o].pc = "done" THEN Result(o) ELSE Nothing)] EXCEPT ![q] = Nothing]
  BY <1>8 DEF Has
<1>10. [o \in Readers |-> read'[o].tag] = [[o \in Readers |-> read[o].tag] EXCEPT ![q] = t]
  BY <1>5, <1>7
<1>11. [o \in Readers |-> read'[o].index] = [[o \in Readers |-> read[o].index] EXCEPT ![q] = NoPackage]
  BY <1>5, <1>7
<1>12. Store!Ask(q, t)
  BY <1>2, <1>3, <1>9, <1>10, <1>11 DEF Store!Ask
<1> QED BY <1>2, <1>12 DEF Store!Next

\* A step of a reader that is none of these makes no difference to others.
LEMMA ReadRefines ==
    ASSUME IInv, IInv', NEW q \in Readers, StepRead(q) \/ FailRead(q)
    PROVE  Store!Next \/ UNCHANGED Store!vars
<1>1. TypeOK /\ read[q] \in Read
  BY ReadFields DEF IInv
<1>2. ASSUME UNCHANGED <<registryVars, diskVars>>,
             NEW pc \in {"get", "extract", "create", "write", "failed"}, read[q].pc # "done",
             NEW r, Continue(q, r), r.pc = pc, r.tag = read[q].tag, r.index = read[q].index
      PROVE  UNCHANGED Store!vars
  BY <1>2, GoesOn DEF diskVars
<1>3. CASE HeadRef(q)
  <2> DEFINE r == [read[q] EXCEPT !.pc = IF tags[read[q].tag] = NoPackage THEN "failed" ELSE "get"]
  <2>1. Continue(q, r) /\ read[q].pc = "head" /\ UNCHANGED <<registryVars, diskVars>>
    BY <1>3 DEF HeadRef
  <2>2. r.pc \in {"failed", "get"} /\ r.tag = read[q].tag /\ r.index = read[q].index
    BY <1>1 DEF Read
  <2> HIDE DEF r
  <2> QED BY <1>2, <2>1, <2>2
<1>4. CASE \E m \in Parts : FetchPart(q, m)
  <2> PICK m \in Parts : FetchPart(q, m)
    BY <1>4
  <2> DEFINE r == IF m \in manifests /\ m \in layers THEN [read[q] EXCEPT !.opened = @ \cup {m}]
                  ELSE [read[q] EXCEPT !.pc = "failed"]
  <2>1. Continue(q, r) /\ read[q].pc = "fetch" /\ UNCHANGED registryVars /\ dir' = dir /\ file' = file
    BY DEF FetchPart, diskVars
  <2>2. r.pc \in {"failed", "fetch"} /\ r.tag = read[q].tag /\ r.index = read[q].index
    BY <1>1, <2>1 DEF Read
  <2> HIDE DEF r
  <2> QED BY <2>1, <2>2, GoesOn
<1>5. CASE BeginExtract(q)
  <2> DEFINE r == [read[q] EXCEPT !.pc = "extract",
                     !.unwritten = {f \in Paths : FileIn[ContentOpened(q)][f] # Absent}]
  <2>1. Continue(q, r) /\ read[q].pc = "fetch" /\ UNCHANGED <<registryVars, diskVars>>
    BY <1>5 DEF BeginExtract, Fetched
  <2>2. r.pc = "extract" /\ r.tag = read[q].tag /\ r.index = read[q].index
    BY <1>1 DEF Read
  <2> HIDE DEF r
  <2> QED BY <1>2, <2>1, <2>2
<1>6. CASE \E f \in Paths : ExtractFile(q, f)
  <2> PICK f \in Paths : ExtractFile(q, f)
    BY <1>6
  <2> DEFINE r == [read[q] EXCEPT !.unwritten = @ \ {f}]
  <2>1. /\ Continue(q, r) /\ read[q].pc = "extract" /\ UNCHANGED registryVars /\ file' = file
        /\ dir' = [dir EXCEPT ![q][f] = FileIn[ContentOpened(q)][f]]
    BY DEF ExtractFile
  <2>2. \A o \in Pulls \ {q} : dir'[o] = dir[o] /\ file'[o] = file[o]
    BY <1>1, <2>1 DEF TypeOK
  <2>3. r.pc = "extract" /\ r.tag = read[q].tag /\ r.index = read[q].index
    BY <1>1, <2>1 DEF Read
  <2> HIDE DEF r
  <2> QED BY <2>1, <2>2, <2>3, GoesOn
<1>7. CASE EndExtract(q)
  <2> DEFINE r == [read[q] EXCEPT
                     !.pc = IF q \in Wanted /\ AttestOpened(q) # NoAttest THEN "create" ELSE "done"]
  <2>1. Continue(q, r) /\ read[q].pc = "extract" /\ UNCHANGED <<registryVars, diskVars>>
    BY <1>7 DEF EndExtract
  <2>2. r.pc \in {"create", "done"} /\ r.tag = read[q].tag /\ r.index = read[q].index
    BY <1>1 DEF Read
  <2> HIDE DEF r
  <2>3. CASE r.pc = "create"
    BY <1>2, <2>1, <2>2, <2>3
  <2>4. CASE r.pc = "done"
    BY <2>1, <2>2, <2>4, Gives DEF diskVars
  <2> QED BY <2>2, <2>3, <2>4
<1>8. CASE Create(q)
  <2>1. read[q].pc = "create" /\ UNCHANGED registryVars /\ dir' = dir
    BY <1>8 DEF Create
  <2>2. PICK pc \in {"failed", "write"} : Continue(q, [read[q] EXCEPT !.pc = pc])
    BY <1>8 DEF Create
  <2>3. \A o \in Pulls \ {q} : dir'[o] = dir[o] /\ file'[o] = file[o]
    BY <1>1, <1>8, <2>1 DEF TypeOK, Create
  <2> DEFINE r == [read[q] EXCEPT !.pc = pc]
  <2>4. r.pc = pc /\ r.tag = read[q].tag /\ r.index = read[q].index
    BY <1>1 DEF Read
  <2> HIDE DEF r
  <2>5. Continue(q, r)
    BY <2>2 DEF r
  <2> QED BY <2>1, <2>3, <2>4, <2>5, GoesOn
<1>9. CASE Write(q)
  <2> DEFINE r == [read[q] EXCEPT !.pc = "done"]
  <2>1. Continue(q, r) /\ UNCHANGED registryVars /\ dir' = dir /\ file' = [file EXCEPT ![q] = AttestOpened(q)]
    BY <1>9 DEF Write
  <2>2. \A o \in Pulls \ {q} : dir'[o] = dir[o] /\ file'[o] = file[o]
    BY <1>1, <2>1 DEF TypeOK
  <2>3. r.pc = "done" /\ r.tag = read[q].tag /\ r.index = read[q].index
    BY <1>1 DEF Read
  <2> HIDE DEF r
  <2> QED BY <2>1, <2>2, <2>3, Gives
<1>10. CASE CollectInfo(q)
  <2> DEFINE r == [read[q] EXCEPT !.pc = "done"]
  <2>1. Continue(q, r) /\ UNCHANGED registryVars /\ dir' = dir /\ file' = file
    BY <1>10 DEF CollectInfo, diskVars
  <2>2. r.pc = "done" /\ r.tag = read[q].tag /\ r.index = read[q].index
    BY <1>1 DEF Read
  <2> HIDE DEF r
  <2> QED BY <2>1, <2>2, Gives
<1>11. CASE FailRead(q)
  <2> DEFINE r == [read[q] EXCEPT !.pc = "failed"]
  <2>1. Continue(q, r) /\ read[q].pc # "done" /\ UNCHANGED <<registryVars, diskVars>>
    BY <1>11 DEF FailRead
  <2>2. r.pc = "failed" /\ r.tag = read[q].tag /\ r.index = read[q].index
    BY <1>1 DEF Read
  <2> HIDE DEF r
  <2> QED BY <1>2, <2>1, <2>2
<1> QED BY <1>3, <1>4, <1>5, <1>6, <1>7, <1>8, <1>9, <1>10, <1>11, GetIndexRefines DEF StepRead

\* Every step is one of PackageStore, or none.
LEMMA StepRefines == ASSUME IInv, IInv', [Next]_vars PROVE [Store!Next]_Store!vars
<1>1. ASSUME NEW w \in Pushes, PutIndex(w) PROVE Store!Next
  BY <1>1, PutIndexRefines
<1>2. ASSUME NEW w \in Pushes, HeadTag(w) \/ FailPush(w) PROVE UNCHANGED Store!vars
  BY <1>2, PushStutters DEF HeadTag, FailPush, registryVars
<1>3. ASSUME NEW w \in Pushes, NEW m \in Parts, HeadManifest(w, m) \/ PutLayer(w, m) \/ PutManifest(w, m)
      PROVE  UNCHANGED Store!vars
  BY <1>3, PushStutters DEF HeadManifest, PutLayer, PutManifest, registryVars
<1>4. ASSUME NEW q \in Readers, StepRead(q) \/ FailRead(q) PROVE Store!Next \/ UNCHANGED Store!vars
  BY <1>4, ReadRefines
<1>5. ASSUME NEW q \in Pulls, NEW t \in Asked, PullAgain(q, t) PROVE Store!Next
  BY <1>5, PullAgainRefines
<1>6. CASE UNCHANGED vars
  BY <1>6, PushStutters DEF vars, registryVars
<1> QED BY <1>1, <1>2, <1>3, <1>4, <1>5, <1>6 DEF Next, StepPush

\* Packages appear at once and whole, and a pull or view that succeeds has all of
\* one package, that its tag pointed at while it ran, although everything is
\* written piece by piece, by several commands, any of which may be killed
\* (PushArtefact, Fetch, Execute, CollectInfo).
THEOREM Refinement == Spec => StoreSpec
BY Inductive, InitRefines, StepRefines, PTL DEF Spec, StoreSpec, Store!Spec
=============================================================================
